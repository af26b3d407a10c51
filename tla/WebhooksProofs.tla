--------------------------- MODULE WebhooksProofs ---------------------------
(* Theorems about Webhooks, for any deliveries and any strangers.          *)
EXTENDS Webhooks, Induction, TLAPS

----------------------------------------------------------------------------
(* The choice of a pool.                                                   *)

Scores == {300, 200, 100, -1}

\* Any pair of a pool and a target, and NoPair.
AnyPair == [pool : STRING \cup {NoMatch}, target : URLs \cup {NoMatch}, score : Scores]

\* r is the first of the n pairs with the highest score, or NoPair if none
\* fits.
FirstBest(r, s, n) ==
  \/ r = NoPair /\ \A i \in 1..n : s[i].score <= -1
  \/ \E k \in 1..n :
       /\ r = s[k] /\ s[k].score > -1
       /\ \A j \in 1..n : /\ s[j].score <= s[k].score
                          /\ j < k => s[j].score < s[k].score

\* One more pair: a greater score replaces the best of before.
LEMMA BetterStep ==
  ASSUME NEW n \in Nat, NEW s, \A i \in 1..(n + 1) : s[i] \in AnyPair,
         NEW r \in AnyPair, FirstBest(r, s, n)
  PROVE  /\ Better(r, s[n + 1]) \in AnyPair
         /\ FirstBest(Better(r, s[n + 1]), s, n + 1)
<1> DEFINE p == s[n + 1]
<1>1. p \in AnyPair /\ p.score \in Int /\ r.score \in Int
  <2>1. p \in AnyPair  OBVIOUS
  <2> QED  BY <2>1 DEF AnyPair, Scores
<1>2. \A i \in 1..(n + 1) : s[i].score \in Int /\ s[i].score >= -1
  <2>1. ASSUME NEW x \in AnyPair PROVE x.score \in Int /\ x.score >= -1  BY DEF AnyPair, Scores
  <2> QED  BY <2>1
<1>3. \A i \in 1..(n + 1) : i \in 1..n \/ i = n + 1  OBVIOUS
<1>4. \A i \in 1..n : i \in 1..(n + 1) /\ i < n + 1  OBVIOUS
<1>5. NoPair.score = -1  BY DEF NoPair
<1>6. n + 1 \in 1..(n + 1)  OBVIOUS
<1>7. CASE r = NoPair /\ \A i \in 1..n : s[i].score <= -1
  <2>1. CASE p.score > -1
    <3>1. Better(r, p) = p  BY <1>5, <1>7, <2>1 DEF Better
    <3>2. \A j \in 1..(n + 1) : s[j].score <= p.score /\ (j < n + 1 => s[j].score < p.score)
      BY <1>1, <1>2, <1>3, <1>7, <2>1
    <3> QED  BY <1>1, <1>6, <2>1, <3>1, <3>2 DEF FirstBest
  <2>2. CASE ~(p.score > -1)
    <3>1. Better(r, p) = r  BY <1>5, <1>7, <2>2 DEF Better
    <3>2. \A i \in 1..(n + 1) : s[i].score <= -1  BY <1>1, <1>2, <1>3, <1>7, <2>2
    <3> QED  BY <1>7, <3>1, <3>2 DEF FirstBest
  <2> QED  BY <2>1, <2>2
<1>8. ASSUME NEW k \in 1..n, r = s[k], s[k].score > -1,
             \A j \in 1..n : /\ s[j].score <= s[k].score
                             /\ j < k => s[j].score < s[k].score
      PROVE  /\ Better(r, p) \in AnyPair /\ FirstBest(Better(r, p), s, n + 1)
  <2>0. k \in 1..(n + 1) /\ k < n + 1  BY <1>4
  <2>1. CASE p.score > r.score
    <3>1. Better(r, p) = p  BY <2>1 DEF Better
    <3>2. \A j \in 1..(n + 1) : s[j].score <= p.score /\ (j < n + 1 => s[j].score < p.score)
      <4> TAKE j \in 1..(n + 1)
      <4>1. CASE j \in 1..n
        <5>1. s[j].score <= r.score /\ s[j].score \in Int  BY <1>2, <1>4, <1>8, <4>1
        <5> QED  BY <1>1, <2>1, <5>1
      <4>2. CASE j = n + 1  BY <1>1, <4>2
      <4> QED  BY <1>3, <4>1, <4>2
    <3>3. p.score > -1  BY <1>1, <1>8, <2>1
    <3> QED  BY <1>1, <1>6, <3>1, <3>2, <3>3 DEF FirstBest
  <2>2. CASE ~(p.score > r.score)
    <3>1. Better(r, p) = r  BY <2>2 DEF Better
    <3>2. \A j \in 1..(n + 1) : s[j].score <= s[k].score /\ (j < k => s[j].score < s[k].score)
      <4> TAKE j \in 1..(n + 1)
      <4>1. CASE j \in 1..n  BY <1>8, <4>1
      <4>2. CASE j = n + 1
        <5>1. ~(j < k)  BY <2>0, <4>2
        <5> QED  BY <1>1, <1>8, <2>2, <4>2, <5>1
      <4> QED  BY <1>3, <4>1, <4>2
    <3> QED  BY <1>8, <2>0, <3>1, <3>2 DEF FirstBest
  <2> QED  BY <2>1, <2>2
<1> QED  BY <1>7, <1>8 DEF FirstBest

\* The loops of MatchPoolForEventWithTargets keep the first of the best.
LEMMA BestOfAll ==
  ASSUME NEW s \in Seq(AnyPair)
  PROVE  FirstBest(FoldLeft(Better, NoPair, s), s, Len(s))
<1> DEFINE n == Len(s)
           D == DOMAIN s
           M(t) == CHOOSE x \in t : \A y \in t : x >= y
           op(best, pair) == IF pair.score > best.score THEN pair ELSE best
           Fold(g) == [t \in SUBSET D |-> IF t = {} THEN NoPair ELSE op(g[t \ {M(t)}], s[M(t)])]
           iter == CHOOSE g : g = Fold(g)
<1>1. FoldLeft(Better, NoPair, s) = iter[D]
  BY Zenon DEF FoldLeft, MapThenFoldSet, Max, Better
<1>2. n \in Nat /\ D = 1..n /\ \A i \in D : s[i] \in AnyPair  BY SeqDomain
<1>3. \A t \in SUBSET D : t # {} => M(t) \in t  BY <1>2, GreatestNumber
<1>4. \A x, y \in AnyPair : op(x, y) \in AnyPair  OBVIOUS
<1>5. IsFiniteSet(D)  BY <1>2, FS_Interval
<1>6. \A x, y : op(x, y) = Better(x, y)  BY DEF Better
<1>7. NoPair \in AnyPair  BY DEF NoPair, AnyPair, Scores
<1> HIDE DEF D, n, op, M
<1>8. iter = Fold(iter)
  <2> DEFINE pick == [t \in SUBSET D |-> M(t)]
             step == [x \in AnyPair |-> [i \in D |-> op(x, s[i])]]
  <2>1. \A t \in SUBSET D : t # {} => pick[t] \in t  BY <1>3
  <2>2. step \in [AnyPair -> [D -> AnyPair]]  BY <1>2, <1>4
  <2>3. \A x \in AnyPair, i \in D : step[x][i] = op(x, s[i])  OBVIOUS
  <2>4. \A t \in SUBSET D : pick[t] = M(t)  OBVIOUS
  <2> HIDE DEF pick, step
  <2>5. PICK g \in [SUBSET D -> AnyPair] : IsFold(g, D, NoPair, pick, step)
    BY <1>5, <1>7, <2>1, <2>2, FoldExists
  <2>6. ASSUME NEW t \in SUBSET D, t # {}
        PROVE  step[g[t \ {pick[t]}]][pick[t]] = op(g[t \ {M(t)}], s[M(t)])
    <3>1. t \ {M(t)} \in SUBSET D /\ M(t) \in D  BY <1>3, <2>6
    <3>2. g[t \ {M(t)}] \in AnyPair  BY <3>1
    <3> QED  BY <2>3, <2>4, <3>1, <3>2
  <2>7. \A t \in SUBSET D : g[t] = IF t = {} THEN NoPair ELSE op(g[t \ {M(t)}], s[M(t)])
    BY <2>5, <2>6 DEF IsFold
  <2>8. g = Fold(g)  BY <2>7
  <2> QED  BY <2>8
<1> HIDE DEF iter
<1>9. iter[1..0] = NoPair  BY <1>2, <1>8
<1>10. ASSUME NEW k \in Nat, k + 1 <= n PROVE iter[1..(k + 1)] = op(iter[1..k], s[k + 1])
  <2>1. 1..(k + 1) \in SUBSET D /\ 1..(k + 1) # {} /\ k + 1 \in Nat \ {0}
    <3>1. 1 \in 1..(k + 1) /\ k + 1 \in Nat \ {0}  OBVIOUS
    <3>2. \A i \in 1..(k + 1) : i \in 1..n  BY <1>2, <1>10
    <3> QED  BY <1>2, <3>1, <3>2
  <2>2. M(1..(k + 1)) = k + 1  BY <2>1, GreatestOf, Zenon DEF M
  <2>3. (1..(k + 1)) \ {k + 1} = 1..k  OBVIOUS
  <2>4. iter[1..(k + 1)] = op(iter[(1..(k + 1)) \ {M(1..(k + 1))}], s[M(1..(k + 1))])
    BY <1>8, <2>1
  <2> QED  BY <2>2, <2>3, <2>4
<1> DEFINE Good(k) == iter[1..k] \in AnyPair /\ FirstBest(iter[1..k], s, k)
           T == {k \in Nat : k <= n => Good(k)}
<1>11. 0 \in T  BY <1>7, <1>9 DEF FirstBest
<1>12. ASSUME NEW k \in Nat, k \in T PROVE k + 1 \in T
  <2> SUFFICES ASSUME k + 1 <= n PROVE Good(k + 1)  OBVIOUS
  <2>1. Good(k)  BY <1>2, <1>12
  <2>2. \A i \in 1..(k + 1) : s[i] \in AnyPair  BY <1>2
  <2>3. Better(iter[1..k], s[k + 1]) \in AnyPair
        /\ FirstBest(Better(iter[1..k], s[k + 1]), s, k + 1)
    BY <2>1, <2>2, BetterStep
  <2>4. iter[1..(k + 1)] = Better(iter[1..k], s[k + 1])  BY <1>6, <1>10
  <2> QED  BY <2>3, <2>4
<1>13. n \in T
  <2> HIDE DEF T
  <2> QED  BY <1>2, <1>11, <1>12, NatSet
<1>14. Good(n)  BY <1>2, <1>13
<1> QED  BY <1>1, <1>2, <1>14 DEF n

\* What FlattenSeq computes, step by step.
Flattened(f, ss, n) ==
  /\ FlattenSeq(ss) = f[n]
  /\ \A i \in 1..n : f[i] = IF i = 1 THEN ss[i] ELSE f[i - 1] \o ss[i]

\* The prefixes of a flattened sequence, one after the other.
LEMMA FlattenSteps ==
  ASSUME NEW S, NEW ss \in Seq(Seq(S)), NEW n, n = Len(ss), n # 0
  PROVE  \E f \in [1..n -> Seq(S)] : Flattened(f, ss, n)
<1> DEFINE Flat(f) == [i \in 1..Len(ss) |-> IF i = 1 THEN ss[i] ELSE f[i - 1] \o ss[i]]
           flatten == CHOOSE f : f = Flat(f)
<1>1. FlattenSeq(ss) = flatten[n]  BY Zenon DEF FlattenSeq
<1>2. n \in Nat \ {0} /\ \A i \in 1..n : ss[i] \in Seq(S)  BY SeqDomain
<1> DEFINE step == [i \in 1..n |-> [a \in Seq(S) |-> a \o ss[i]]]
<1>3. step \in [1..n -> [Seq(S) -> Seq(S)]]  BY <1>2
<1>4. \A i \in 1..n, a \in Seq(S) : step[i][a] = a \o ss[i]  OBVIOUS
<1> HIDE DEF step
<1>5. 1 \in 1..n  BY <1>2
<1>6. PICK g \in [1..n -> Seq(S)] : IsRecursion(g, n, ss[1], step)
  BY <1>2, <1>3, <1>5, RecursionExists, Zenon
<1>7. ASSUME NEW i \in 1..n PROVE g[i] = IF i = 1 THEN ss[i] ELSE g[i - 1] \o ss[i]
  <2>1. i # 1 => i - 1 \in 1..n  BY <1>2
  <2> QED  BY <1>4, <1>6, <2>1 DEF IsRecursion
<1>8. g = Flat(g)  BY <1>7
<1>9. flatten = Flat(flatten)  BY <1>8
<1> HIDE DEF flatten
<1>10. \A i \in 1..n : flatten[i] = IF i = 1 THEN ss[i] ELSE flatten[i - 1] \o ss[i]  BY <1>9
<1> DEFINE T == {k \in Nat : k + 1 \in 1..n => flatten[k + 1] \in Seq(S)}
<1>11. 0 \in T  BY <1>2, <1>5, <1>10
<1>12. ASSUME NEW k \in Nat, k \in T PROVE k + 1 \in T
  <2> SUFFICES ASSUME (k + 1) + 1 \in 1..n PROVE flatten[(k + 1) + 1] \in Seq(S)  OBVIOUS
  <2>1. k + 1 \in 1..n /\ (k + 1) + 1 # 1 /\ ((k + 1) + 1) - 1 = k + 1  BY <1>2
  <2>2. flatten[(k + 1) + 1] = flatten[k + 1] \o ss[(k + 1) + 1]  BY <1>10, <2>1
  <2>3. flatten[k + 1] \in Seq(S) /\ ss[(k + 1) + 1] \in Seq(S)  BY <1>2, <1>12, <2>1
  <2> QED  BY <2>2, <2>3, Concatenation
<1>13. \A k \in Nat : k \in T
  <2> HIDE DEF T
  <2> QED  BY <1>11, <1>12, NatSet
<1>14. ASSUME NEW i \in 1..n PROVE flatten[i] \in Seq(S)
  <2>1. i - 1 \in Nat /\ (i - 1) + 1 = i  BY <1>2
  <2> QED  BY <1>13, <2>1
<1>15. flatten = [i \in 1..n |-> flatten[i]]
  <2>1. DOMAIN flatten = 1..n  BY <1>9
  <2> QED  BY <1>9, <2>1
<1>16. flatten \in [1..n -> Seq(S)]  BY <1>14, <1>15
<1> QED  BY <1>1, <1>10, <1>16 DEF Flattened

\* A flattened sequence has the elements its parts have.
LEMMA FlattenTyped ==
  ASSUME NEW S, NEW ss \in Seq(Seq(S))
  PROVE  FlattenSeq(ss) \in Seq(S)
<1> DEFINE n == Len(ss)
<1>1. CASE n = 0
  <2>1. ss = <<>>  BY <1>1
  <2>2. FlattenSeq(ss) = ss  BY <1>1 DEF FlattenSeq
  <2>3. FlattenSeq(ss) = <<>>  BY <2>1, <2>2, Zenon
  <2>4. <<>> \in Seq(S)  OBVIOUS
  <2> QED  BY <2>3, <2>4, Zenon
<1>2. CASE n # 0
  <2>1. PICK f \in [1..n -> Seq(S)] : Flattened(f, ss, n)  BY <1>2, FlattenSteps, Zenon
  <2>2. n \in 1..n  BY <1>2
  <2> QED  BY <2>1, <2>2 DEF Flattened
<1> QED  BY <1>1, <1>2

AnyOffer == [pool : PoolRows, target : URLs]

\* A pool offers targets, ...
LEMMA OffersOfTyped ==
  ASSUME NEW p \in PoolRows, NEW e \in Payloads
  PROVE  OffersOf(p, e) \in Seq(AnyOffer)
<1> DEFINE t == TargetsOf(p)
           n == Len(t)
<1>1. t \in Seq(URLs)
  <2>1. p.url \in URLs /\ p.targets \in Seq(URLs)  BY DEF PoolRows
  <2> QED  BY <2>1 DEF TargetsOf
<1> HIDE DEF t
<1>2. n \in Nat /\ DOMAIN t = 1..n /\ \A j \in 1..n : t[j] \in URLs  BY <1>1, SeqDomain
<1>3. CASE ~(p.provider = e.provider /\ LabelsMatch(p.labels, e.labels))
  BY <1>3 DEF OffersOf
<1>4. CASE p.provider = e.provider /\ LabelsMatch(p.labels, e.labels)
  <2> DEFINE o == [j \in 1..n |-> [pool |-> p, target |-> t[j]]]
  <2>1. OffersOf(p, e) = o  BY <1>2, <1>4 DEF OffersOf, t
  <2>2. o \in [1..n -> AnyOffer]  BY <1>2 DEF AnyOffer
  <2> HIDE DEF o
  <2> QED  BY <1>2, <2>1, <2>2, AsSequence
<1> QED  BY <1>3, <1>4

\* ... and a list of pools does.
LEMMA OffersTyped ==
  ASSUME NEW pools \in Seq(PoolRows), NEW e \in Payloads
  PROVE  Offers(pools, e) \in Seq(AnyOffer)
<1> DEFINE n == Len(pools)
           ss == [i \in 1..n |-> OffersOf(pools[i], e)]
<1>1. n \in Nat /\ DOMAIN pools = 1..n /\ \A i \in 1..n : pools[i] \in PoolRows  BY SeqDomain
<1>2. Offers(pools, e) = FlattenSeq(ss)  BY <1>1 DEF Offers
<1>3. ss \in [1..n -> Seq(AnyOffer)]  BY <1>1, OffersOfTyped
<1> HIDE DEF ss
<1>4. ss \in Seq(Seq(AnyOffer))  BY <1>1, <1>3, AsSequence, Zenon
<1> QED  BY <1>2, <1>4, FlattenTyped, Zenon

\* What MostSpecificPool asks of a job and an offer.
Legible(o, e) ==
  /\ OneScheme(o, e) /\ ~Namesake(o, e)
  /\ ".GIT" \notin {u.suffix : u \in e.urls \cup {o.target}}

\* Of a legible offer the normalized URLs are the places, ...
LEMMA CandidatePlaces ==
  ASSUME NEW o \in AnyOffer, NEW e \in Payloads, Legible(o, e)
  PROVE  /\ NormalizeRepositoryURL(o.target) = URL(o.target.scheme, o.target.segs, "")
         /\ CandidateURLs(e) = {URL(o.target.scheme, place, "") : place \in Places(e)}
<1>1. o.target \in URLs /\ e.urls \subseteq URLs  BY DEF AnyOffer, Payloads
<1>2. o.target.suffix # ".GIT" /\ \A u \in e.urls : u.suffix # ".GIT"  BY DEF Legible
<1>3. NormalizeRepositoryURL(o.target) = URL(o.target.scheme, o.target.segs, "")
  BY <1>2 DEF NormalizeRepositoryURL
<1>4. \A u \in e.urls : NormalizeRepositoryURL(u) = URL(o.target.scheme, u.segs, "")
  BY <1>2 DEF NormalizeRepositoryURL, Legible, OneScheme
<1>5. e.provider = "github" /\ e.fullName # <<>> => o.target.scheme = "https"
  BY DEF Legible, OneScheme
<1> DEFINE U == {u.segs : u \in e.urls}
           N == IF e.provider = "github" /\ e.fullName # <<>>
                  THEN {<<"github.com">> \o e.fullName} ELSE {}
           at(place) == URL(o.target.scheme, place, "")
<1>6. {NormalizeRepositoryURL(u) : u \in e.urls} = {at(place) : place \in U}
  <2> HIDE DEF at
  <2>1. \A u \in e.urls : NormalizeRepositoryURL(u) = at(u.segs)  BY <1>4 DEF at
  <2> QED  BY <2>1, Zenon
<1>7. (IF e.fullName # <<>> /\ e.provider = "github"
         THEN {URL("https", <<"github.com">> \o e.fullName, "")} ELSE {})
        = {at(place) : place \in N}
  BY <1>5
<1>8. {at(place) : place \in U \cup N} = {at(place) : place \in U} \cup {at(place) : place \in N}
  <2> HIDE DEF at, U, N
  <2> QED  BY Zenon
<1>9. Places(e) = U \cup N  BY Zenon DEF Places
<1>10. CandidateURLs(e) = {at(place) : place \in U} \cup {at(place) : place \in N}
  <2> HIDE DEF at, U, N
  <2> QED  BY <1>6, <1>7, Zenon DEF CandidateURLs
<1> QED  BY <1>3, <1>8, <1>9, <1>10

\* ... so the score says whether it covers one of them, and how closely.
LEMMA ScoreOfCover ==
  ASSUME NEW o \in AnyOffer, NEW e \in Payloads, Legible(o, e)
  PROVE  Score(o.pool, o.target, e) = IF Covers(o, e) THEN 100 * Rank(o) ELSE -1
<1> DEFINE p == o.pool
           t == NormalizeRepositoryURL(o.target)
           owner == IF e.fullName = <<>> THEN <<>> ELSE <<Head(e.fullName)>>
<1>1. p.scope \in {"repo", "org", "global"}  BY DEF AnyOffer, PoolRows
<1>2. t = URL(o.target.scheme, o.target.segs, "") /\ t.segs = o.target.segs /\ t.suffix = ""
        /\ t.scheme = o.target.scheme
  <2>1. t = URL(o.target.scheme, o.target.segs, "")  BY CandidatePlaces, Zenon
  <2>2. ASSUME NEW x, NEW y, NEW u, u = [scheme |-> x, segs |-> y, suffix |-> ""]
        PROVE  u.segs = y /\ u.suffix = "" /\ u.scheme = x
    BY <2>2
  <2> HIDE DEF t
  <2> QED  BY <2>1, <2>2, Zenon DEF URL
<1>3. CandidateURLs(e) = {URL(o.target.scheme, place, "") : place \in Places(e)}
  BY CandidatePlaces
<1>4. ~Namesake(o, e)  BY DEF Legible
<1>5. \A place : /\ URL(o.target.scheme, place, "").segs = place
                 /\ URL(o.target.scheme, place, "").scheme = o.target.scheme
  BY DEF URL
<1> HIDE DEF t
<1>6. CASE p.scope = "repo"
  <2>1. Covers(o, e) <=> o.target.segs \in Places(e)  BY <1>6 DEF Covers
  <2>2. t \in CandidateURLs(e) <=> o.target.segs \in Places(e)
    <3>1. \A place \in Places(e) : URL(o.target.scheme, place, "") = t => place = o.target.segs
      BY <1>2, <1>5
    <3> QED  BY <1>2, <1>3, <3>1
  <2>3. Ends(t, e.fullName) => Covers(o, e)  BY <1>2, <1>4, <1>6 DEF Ends, Namesake
  <2>4. Score(p, o.target, e)
          = IF t \in CandidateURLs(e) \/ Ends(t, e.fullName) THEN 300 ELSE -1
    BY <1>6 DEF Score, t
  <2>5. 100 * Rank(o) = 300  BY <1>6 DEF Rank
  <2> QED  BY <2>1, <2>2, <2>3, <2>4, <2>5
<1>7. CASE p.scope = "org"
  <2> DEFINE under == \E c \in CandidateURLs(e) :
                         /\ c.scheme = t.scheme /\ t.suffix = "" /\ IsStrictPrefix(t.segs, c.segs)
  <2>1. Covers(o, e) <=> \E place \in Places(e) : IsStrictPrefix(o.target.segs, place)
    BY <1>7 DEF Covers
  <2>2. under <=> \E place \in Places(e) : IsStrictPrefix(o.target.segs, place)
    BY <1>2, <1>3, <1>5
  <2>3. Ends(t, owner) => Covers(o, e)
    <3>1. Ends(t, owner) => e.fullName # <<>> /\ IsSuffix(<<Head(e.fullName)>>, o.target.segs)
      BY <1>2 DEF Ends
    <3> QED  BY <1>4, <1>7, <3>1 DEF Namesake
  <2>4. Score(p, o.target, e) = IF under \/ Ends(t, owner) THEN 200 ELSE -1
    BY <1>7 DEF Score, t
  <2>5. 100 * Rank(o) = 200  BY <1>7 DEF Rank
  <2> HIDE DEF under
  <2> QED  BY <2>1, <2>2, <2>3, <2>4, <2>5
<1>8. CASE p.scope = "global"
  <2> DEFINE same == \E c \in CandidateURLs(e) : Head(c.segs) = Head(t.segs)
  <2>1. Covers(o, e) <=> \E place \in Places(e) : Head(o.target.segs) = Head(place)
    BY <1>8 DEF Covers
  <2>2. same <=> \E place \in Places(e) : Head(o.target.segs) = Head(place)
    <3>1. same => \E place \in Places(e) : Head(o.target.segs) = Head(place)
      <4> SUFFICES ASSUME NEW c \in CandidateURLs(e), Head(c.segs) = Head(t.segs)
                   PROVE  \E place \in Places(e) : Head(o.target.segs) = Head(place)
        OBVIOUS
      <4>1. PICK place \in Places(e) : c = URL(o.target.scheme, place, "")  BY <1>3
      <4> QED  BY <1>2, <1>5, <4>1, Zenon
    <3>2. ASSUME NEW place \in Places(e), Head(o.target.segs) = Head(place) PROVE same
      <4>1. URL(o.target.scheme, place, "") \in CandidateURLs(e)  BY <1>3
      <4> QED  BY <1>2, <1>5, <3>2, <4>1, Zenon
    <3> QED  BY <3>1, <3>2
  <2>3. Score(p, o.target, e) = IF same THEN 100 ELSE -1  BY <1>8 DEF Score, t
  <2>4. 100 * Rank(o) = 100  BY <1>8 DEF Rank
  <2> HIDE DEF same
  <2> QED  BY <2>1, <2>2, <2>3, <2>4
<1> QED  BY <1>1, <1>6, <1>7, <1>8

\* MostSpecificPool of a job, its pools and the pair it got.
Specific(r, pools, e) ==
  (\A i \in DOMAIN Offers(pools, e) : Legible(Offers(pools, e)[i], e))
    => BestOffer(r, Offers(pools, e), e)

\* What the matching returns is a most specific match, or none exists.
LEMMA MatchSpecific ==
  ASSUME NEW pools \in Seq(PoolRows), NEW e \in Payloads
  PROVE  Specific(MatchPoolForEventWithTargets(pools, e), pools, e)
<1> DEFINE o == Offers(pools, e)
           s == Pairs(pools, e)
           r == MatchPoolForEventWithTargets(pools, e)
           n == Len(o)
           fits == {i \in DOMAIN o : Covers(o[i], e)}
           best == {i \in fits : \A j \in fits : Rank(o[j]) <= Rank(o[i])}
<1> SUFFICES ASSUME \A i \in DOMAIN o : Legible(o[i], e)
             PROVE  BestOffer(r, o, e)
  BY Zenon DEF Specific
<1>1. o \in Seq(AnyOffer)  BY OffersTyped
<1>2. s = [k \in DOMAIN o |-> [pool |-> o[k].pool.name, target |-> o[k].target,
                              score |-> Score(o[k].pool, o[k].target, e)]]
  BY Zenon DEF Pairs
<1>3. r = FoldLeft(Better, NoPair, s)  BY Zenon DEF MatchPoolForEventWithTargets
<1> HIDE DEF o, s, r
<1>4. n \in Nat /\ DOMAIN o = 1..n /\ \A i \in 1..n : o[i] \in AnyOffer  BY <1>1, SeqDomain
<1>5. \A i \in 1..n : /\ s[i].pool = o[i].pool.name /\ s[i].target = o[i].target
                      /\ s[i].score = IF Covers(o[i], e) THEN 100 * Rank(o[i]) ELSE -1
  BY <1>2, <1>4, ScoreOfCover
<1>6. \A i \in 1..n : Rank(o[i]) \in {1, 2, 3}
  <2>1. ASSUME NEW x \in AnyOffer PROVE Rank(x) \in {1, 2, 3}
    <3>1. x.pool.scope \in {"repo", "org", "global"}  BY DEF AnyOffer, PoolRows
    <3> QED  BY <3>1 DEF Rank
  <2> QED  BY <1>4, <2>1
<1>7. \A i \in 1..n : s[i].score \in Scores
  BY <1>5, <1>6 DEF Scores
<1>8. s \in Seq(AnyPair) /\ Len(s) = n
  <2>1. ASSUME NEW i \in 1..n PROVE s[i] \in AnyPair
    <3>1. o[i].pool.name \in STRING /\ o[i].target \in URLs  BY <1>4 DEF AnyOffer, PoolRows
    <3>2. s[i] = [pool |-> o[i].pool.name, target |-> o[i].target,
                  score |-> Score(o[i].pool, o[i].target, e)]
      BY <1>2, <1>4
    <3>3. Score(o[i].pool, o[i].target, e) \in Scores  BY <1>7, <3>2
    <3> QED  BY <3>1, <3>2, <3>3 DEF AnyPair
  <2>2. s \in [1..n -> AnyPair]  BY <1>2, <1>4, <2>1
  <2> QED  BY <1>4, <2>2, AsSequence
<1>9. FirstBest(r, s, n)  BY <1>3, <1>8, BestOfAll
<1>10. \A i \in 1..n : s[i].score > -1 <=> i \in fits  BY <1>4, <1>5, <1>6
<1>11. CASE r = NoPair /\ \A i \in 1..n : s[i].score <= -1
  <2>1. \A i \in 1..n : ~(s[i].score > -1)
    <3>1. \A x \in Scores : x <= -1 => ~(x > -1)  BY DEF Scores
    <3> QED  BY <1>7, <1>11, <3>1
  <2>2. fits = {}  BY <1>4, <1>10, <2>1
  <2> HIDE DEF fits
  <2> QED  BY <1>11, <2>2, Zenon DEF BestOffer, fits
<1>12. ASSUME NEW k \in 1..n, r = s[k], s[k].score > -1,
              \A j \in 1..n : /\ s[j].score <= s[k].score
                              /\ j < k => s[j].score < s[k].score
       PROVE  BestOffer(r, o, e)
  <2>1. k \in fits  BY <1>10, <1>12
  <2>2. \A j \in fits : j \in 1..n /\ s[j].score = 100 * Rank(o[j])  BY <1>4, <1>5
  <2>3. \A j \in fits : Rank(o[j]) <= Rank(o[k])
    <3> TAKE j \in fits
    <3>1. 100 * Rank(o[j]) <= 100 * Rank(o[k])  BY <1>12, <2>1, <2>2
    <3>2. Rank(o[j]) \in Int /\ Rank(o[k]) \in Int  BY <1>6, <2>1, <2>2
    <3> QED  BY <3>1, <3>2
  <2>4. k \in best  BY <2>1, <2>3
  <2>5. ASSUME NEW j \in best PROVE k <= j
    <3>1. j \in 1..n /\ j \in fits /\ Rank(o[k]) <= Rank(o[j])  BY <2>1, <2>2
    <3>2. Rank(o[j]) = Rank(o[k])  BY <1>6, <2>3, <3>1
    <3>3. s[j].score = s[k].score /\ s[k].score \in Int
      BY <1>6, <2>1, <2>2, <3>1, <3>2
    <3>4. ~(s[j].score < s[k].score)  BY <3>3
    <3>5. ~(j < k)  BY <1>12, <3>1, <3>4
    <3> QED  BY <1>4, <3>1, <3>5
  <2>6. r.pool = o[k].pool.name /\ r.target = o[k].target  BY <1>5, <1>12
  <2>7. fits # {}  BY <2>1
  <2>8. BestOffer(r, o, e) <=>
          IF fits = {} THEN r = NoPair
          ELSE \E i \in best : /\ \A j \in best : i <= j
                               /\ r.pool = o[i].pool.name /\ r.target = o[i].target
    BY Zenon DEF BestOffer
  <2> HIDE DEF fits, best
  <2> QED  BY <2>4, <2>5, <2>6, <2>7, <2>8, Zenon
<1> QED  BY <1>9, <1>11, <1>12 DEF FirstBest

----------------------------------------------------------------------------
(* Deliveries and the busy mark.                                           *)

\* Nothing is under way of what has not happened, and never more than is sent;
\* and BusyTruthful, which is inductive with it.
WebhookInv ==
  /\ WebhookTypeOK
  /\ \A a \in Progress : UnderWay(a) <= MaxSent
  /\ job = "queued" => UnderWay("in_progress") = 0
  /\ job # "completed" => UnderWay("completed") = 0
  /\ BusyTruthful
  /\ MostSpecificPool

\* A request that nobody signed is never accepted.
LEMMA StrangersRefused ==
  ASSUME NEW q \in Strangers
  PROVE  Answer(q) # 202
<1>1. q.sig.hub # "good" /\ q.sig.gitea # "good" /\ q.sig.forgejo # "good"
  BY WebhooksAssumption
<1>2. CASE q.provider \notin Providers  BY <1>2 DEF Answer
<1>3. CASE q.provider \in Providers
  <2>1. ExtractSignatureHeader(q) # "good"
    BY <1>1, <1>3 DEF ExtractSignatureHeader, FirstOf, Providers
  <2> QED  BY <1>3, <2>1 DEF Answer, VerifySignature
<1> QED  BY <1>2, <1>3

\* A step that sends or handles one delivery of kind a.
LEMMA OneDelivery ==
  ASSUME WebhookInv, NEW a \in Progress, NEW n \in Nat, NEW m \in Nat, n + m <= MaxSent,
         flight' = [flight EXCEPT ![a] = n], handled' = [handled EXCEPT ![a] = m]
  PROVE  /\ flight' \in [Progress -> 0..MaxSent] /\ handled' \in [Progress -> 0..MaxSent]
         /\ handled'[a] = m /\ UnderWay(a)' = n + m
         /\ \A b \in Progress : b # a => UnderWay(b)' = UnderWay(b)
         /\ \A b \in Progress : UnderWay(b)' <= MaxSent
<1>1. /\ flight \in [Progress -> 0..MaxSent] /\ handled \in [Progress -> 0..MaxSent]
      /\ \A b \in Progress : UnderWay(b) <= MaxSent
  BY DEF WebhookInv, WebhookTypeOK
<1>2. MaxSent \in Nat /\ n \in 0..MaxSent /\ m \in 0..MaxSent  BY WebhooksAssumption
<1>3. /\ flight'[a] = n /\ handled'[a] = m
      /\ \A b \in Progress : b # a => flight'[b] = flight[b] /\ handled'[b] = handled[b]
  BY <1>1
<1>4. flight' \in [Progress -> 0..MaxSent] /\ handled' \in [Progress -> 0..MaxSent]
  BY <1>1, <1>2
<1>5. UnderWay(a)' = n + m /\ \A b \in Progress : b # a => UnderWay(b)' = UnderWay(b)
  BY <1>3 DEF UnderWay
<1> QED  BY <1>1, <1>3, <1>4, <1>5

\* How many deliveries of a kind there are.
LEMMA Counts ==
  ASSUME WebhookInv, NEW a \in Progress
  PROVE  flight[a] \in Nat /\ handled[a] \in Nat /\ UnderWay(a) = flight[a] + handled[a]
  BY WebhooksAssumption DEF WebhookInv, WebhookTypeOK, UnderWay

\* What leaves the last choice alone.
LEMMA ChoiceUntouched ==
  ASSUME WebhookInv, UNCHANGED matched
  PROVE  MostSpecificPool'
<1>1. matched # NoMatch => Specific(matched.pair, matched.by, matched.event)
  BY Zenon DEF WebhookInv, MostSpecificPool, Specific, Legible
<1>2. matched' # NoMatch => Specific(matched'.pair, matched'.by, matched'.event)
  BY <1>1
<1> QED  BY <1>2, Zenon DEF MostSpecificPool, Specific, Legible

\* A job that moves on sends the delivery of what has happened.
LEMMA JobMovesKeeps ==
  ASSUME WebhookInv, JobMoves
  PROVE  WebhookInv'
<1>1. job \in {"queued", "in_progress"}
        /\ job' = IF job = "queued" THEN "in_progress" ELSE "completed"
  BY DEF WebhookInv, WebhookTypeOK, JobMoves, Progress
<1>2. PICK a \in Progress : job' = a  BY <1>1 DEF Progress
<1>3. UnderWay(a) = 0  BY <1>1, <1>2 DEF WebhookInv
<1>4. flight[a] = 0 /\ handled[a] = 0  BY <1>3, Counts
<1>5. /\ flight' = [flight EXCEPT ![a] = 1] /\ handled' = [handled EXCEPT ![a] = 0]
      /\ 1 + 0 <= MaxSent
  <2>1. flight' = [flight EXCEPT ![a] = flight[a] + 1]  BY <1>2 DEF JobMoves
  <2>2. handled' = [handled EXCEPT ![a] = 0]
    BY <1>4 DEF JobMoves, WebhookInv, WebhookTypeOK
  <2>3. flight[a] + 1 = 1 /\ 1 + 0 <= MaxSent  BY <1>4, WebhooksAssumption
  <2> QED  BY <2>1, <2>2, <2>3
<1>6. /\ flight' \in [Progress -> 0..MaxSent] /\ handled' \in [Progress -> 0..MaxSent]
      /\ UnderWay(a)' = 1 + 0
      /\ \A b \in Progress : b # a => UnderWay(b)' = UnderWay(b)
      /\ \A b \in Progress : UnderWay(b)' <= MaxSent
  BY <1>5, OneDelivery
<1>7. WebhookTypeOK'  BY <1>2, <1>6 DEF WebhookInv, WebhookTypeOK, JobMoves
<1>8. /\ job' = "queued" => UnderWay("in_progress")' = 0
      /\ job' # "completed" => UnderWay("completed")' = 0
  BY <1>1, <1>2, <1>6 DEF WebhookInv, Progress
<1>9. BusyTruthful'
  <2>1. CASE a = "in_progress"  BY <1>2, <2>1 DEF BusyTruthful
  <2>2. CASE a = "completed"
    <3>1. UnderWay("completed")' # 0  BY <1>6, <2>2
    <3> QED  BY <3>1 DEF BusyTruthful
  <2> QED  BY <2>1, <2>2 DEF Progress
<1>10. MostSpecificPool'  BY ChoiceUntouched DEF JobMoves
<1> QED  BY <1>6, <1>7, <1>8, <1>9, <1>10 DEF WebhookInv

\* A repeated delivery tells nothing new.
LEMMA RedeliverKeeps ==
  ASSUME WebhookInv, NEW a \in Progress, Redeliver(a)
  PROVE  WebhookInv'
<1>1. /\ flight[a] \in Nat /\ handled[a] \in Nat /\ UnderWay(a) = flight[a] + handled[a]
      /\ UnderWay(a) < MaxSent /\ MaxSent \in Nat
  BY Counts, WebhooksAssumption DEF Redeliver
<1>2. /\ flight' = [flight EXCEPT ![a] = flight[a] + 1]
      /\ handled' = [handled EXCEPT ![a] = handled[a]]
      /\ flight[a] + 1 \in Nat /\ (flight[a] + 1) + handled[a] <= MaxSent
  BY <1>1 DEF Redeliver, WebhookInv, WebhookTypeOK
<1>3. /\ flight' \in [Progress -> 0..MaxSent] /\ handled' \in [Progress -> 0..MaxSent]
      /\ UnderWay(a)' = (flight[a] + 1) + handled[a]
      /\ \A b \in Progress : b # a => UnderWay(b)' = UnderWay(b)
      /\ \A b \in Progress : UnderWay(b)' <= MaxSent
  BY <1>1, <1>2, OneDelivery
<1>4. UnderWay(a)' # 0  BY <1>1, <1>3
<1>5. WebhookTypeOK'  BY <1>3 DEF WebhookInv, WebhookTypeOK, Redeliver
<1>6. job' = job /\ (job = a \/ job = "completed")  BY DEF Redeliver
<1>7. /\ job' = "queued" => UnderWay("in_progress")' = 0
      /\ job' # "completed" => UnderWay("completed")' = 0
  BY <1>3, <1>6 DEF WebhookInv, Progress
<1>8. BusyTruthful'
  <2>1. "completed" \in Progress  BY DEF Progress
  <2>2. UnderWay("completed")' = 0 => UnderWay("completed") = 0  BY <1>3, <1>4, <2>1
  <2> QED  BY <2>2 DEF WebhookInv, BusyTruthful, Redeliver
<1>9. MostSpecificPool'  BY ChoiceUntouched DEF Redeliver
<1> QED  BY <1>3, <1>5, <1>7, <1>8, <1>9 DEF WebhookInv

\* A delivery that is accepted is under way still, one that is not was missed.
LEMMA DeliverKeeps ==
  ASSUME WebhookInv, NEW a \in Progress, NEW p \in Providers, Deliver(a, p)
  PROVE  WebhookInv'
<1> DEFINE q == [provider |-> p, body |-> a,
                 sig |-> [hub |-> "good", gitea |-> "", forgejo |-> ""],
                 event |-> [github |-> "workflow_job", gitea |-> "", forgejo |-> ""]]
           m == IF Accepts(q) THEN handled[a] + 1 ELSE handled[a]
<1>1. /\ flight[a] > 0
      /\ flight' = [flight EXCEPT ![a] = @ - 1]
      /\ handled' = IF Accepts(q) THEN [handled EXCEPT ![a] = @ + 1] ELSE handled
      /\ missed' = (missed \/ ~Accepts(q))
      /\ UNCHANGED <<known, matched, job, marked, paused>>
  BY DEF Deliver
<1> HIDE DEF q
<1>2. /\ flight[a] \in Nat /\ handled[a] \in Nat /\ UnderWay(a) = flight[a] + handled[a]
      /\ UnderWay(a) <= MaxSent /\ MaxSent \in Nat
  BY Counts, WebhooksAssumption DEF WebhookInv
<1>3. /\ flight' = [flight EXCEPT ![a] = flight[a] - 1] /\ handled' = [handled EXCEPT ![a] = m]
      /\ flight[a] - 1 \in Nat /\ m \in Nat /\ (flight[a] - 1) + m <= MaxSent
  <2>1. flight' = [flight EXCEPT ![a] = flight[a] - 1]  BY <1>1
  <2>2. handled' = [handled EXCEPT ![a] = m]
    <3>1. CASE Accepts(q)  BY <1>1, <3>1
    <3>2. CASE ~Accepts(q)  BY <1>1, <3>2 DEF WebhookInv, WebhookTypeOK
    <3> QED  BY <3>1, <3>2
  <2>3. m \in Nat /\ m <= handled[a] + 1  BY <1>2
  <2> HIDE DEF m
  <2>4. flight[a] - 1 \in Nat /\ (flight[a] - 1) + m <= MaxSent
    BY <1>1, <1>2, <2>3
  <2> QED  BY <2>1, <2>2, <2>3, <2>4
<1> HIDE DEF m
<1>4. /\ flight' \in [Progress -> 0..MaxSent] /\ handled' \in [Progress -> 0..MaxSent]
      /\ UnderWay(a)' = (flight[a] - 1) + m
      /\ \A b \in Progress : b # a => UnderWay(b)' = UnderWay(b)
      /\ \A b \in Progress : UnderWay(b)' <= MaxSent
  BY <1>3, OneDelivery
<1>5. missed' \in BOOLEAN  BY <1>1 DEF WebhookInv, WebhookTypeOK
<1>6. WebhookTypeOK'  BY <1>1, <1>4, <1>5 DEF WebhookInv, WebhookTypeOK
<1>7. UnderWay(a) # 0  BY <1>1, <1>2
<1>8. /\ job' = "queued" => UnderWay("in_progress")' = 0
      /\ job' # "completed" => UnderWay("completed")' = 0
  BY <1>1, <1>4, <1>7 DEF WebhookInv, Progress
<1>9. BusyTruthful'
  <2> SUFFICES ASSUME marked', ~missed', UnderWay("completed")' = 0 PROVE job' = "in_progress"
    BY DEF BusyTruthful
  <2>1. marked /\ ~missed /\ Accepts(q)  BY <1>1
  <2>2. UnderWay(a)' = UnderWay(a)  BY <1>2, <1>4, <2>1 DEF m
  <2>3. UnderWay("completed") = 0  BY <1>4, <2>2 DEF Progress
  <2> QED  BY <1>1, <2>1, <2>3 DEF WebhookInv, BusyTruthful
<1>10. MostSpecificPool'  BY <1>1, ChoiceUntouched
<1> QED  BY <1>4, <1>6, <1>8, <1>9, <1>10 DEF WebhookInv

\* A mark that is made late is noted, unless what clears it is under way.
LEMMA MarkRunnerBusyKeeps ==
  ASSUME WebhookInv, NEW a \in Progress, MarkRunnerBusy(a)
  PROVE  WebhookInv'
<1>1. /\ handled[a] > 0 /\ handled' = [handled EXCEPT ![a] = @ - 1]
      /\ marked' = (a = "in_progress")
      /\ missed' = (missed \/ (a = "in_progress" /\ job = "completed" /\ UnderWay("completed") = 0))
      /\ UNCHANGED <<known, matched, job, flight, paused>>
  BY DEF MarkRunnerBusy, Marks
<1>2. /\ flight[a] \in Nat /\ handled[a] \in Nat /\ UnderWay(a) = flight[a] + handled[a]
      /\ UnderWay(a) <= MaxSent /\ MaxSent \in Nat
  BY Counts, WebhooksAssumption DEF WebhookInv
<1>3. /\ flight' = [flight EXCEPT ![a] = flight[a]]
      /\ handled' = [handled EXCEPT ![a] = handled[a] - 1]
      /\ handled[a] - 1 \in Nat /\ flight[a] + (handled[a] - 1) <= MaxSent
  BY <1>1, <1>2 DEF WebhookInv, WebhookTypeOK
<1>4. /\ flight' \in [Progress -> 0..MaxSent] /\ handled' \in [Progress -> 0..MaxSent]
      /\ UnderWay(a)' = flight[a] + (handled[a] - 1)
      /\ \A b \in Progress : b # a => UnderWay(b)' = UnderWay(b)
      /\ \A b \in Progress : UnderWay(b)' <= MaxSent
  BY <1>2, <1>3, OneDelivery
<1>5. missed' \in BOOLEAN /\ marked' \in BOOLEAN  BY <1>1 DEF WebhookInv, WebhookTypeOK
<1>6. WebhookTypeOK'  BY <1>1, <1>4, <1>5 DEF WebhookInv, WebhookTypeOK
<1>7. UnderWay(a) # 0  BY <1>1, <1>2
<1>8. /\ job' = "queued" => UnderWay("in_progress")' = 0
      /\ job' # "completed" => UnderWay("completed")' = 0
  BY <1>1, <1>4, <1>7 DEF WebhookInv, Progress
<1>9. BusyTruthful'
  <2> SUFFICES ASSUME marked', ~missed', UnderWay("completed")' = 0 PROVE job' = "in_progress"
    BY DEF BusyTruthful
  <2>1. a = "in_progress"  BY <1>1
  <2>2. UnderWay("completed") = 0  BY <1>4, <2>1 DEF Progress
  <2>3. job # "completed"  BY <1>1, <2>1, <2>2
  <2>4. job # "queued"  BY <1>7, <2>1 DEF WebhookInv
  <2> QED  BY <1>1, <2>3, <2>4 DEF WebhookInv, WebhookTypeOK, Progress
<1>10. MostSpecificPool'  BY <1>1, ChoiceUntouched
<1> QED  BY <1>4, <1>6, <1>8, <1>9, <1>10 DEF WebhookInv

\* Whatever leaves the job, its deliveries and the mark alone.
LEMMA BusyUntouched ==
  ASSUME WebhookInv, UNCHANGED <<job, flight, handled, marked, missed>>, WebhookTypeOK',
         MostSpecificPool'
  PROVE  WebhookInv'
  BY DEF WebhookInv, BusyTruthful, UnderWay

\* Every step of the webhooks keeps their invariant.
LEMMA WebhookStepKeeps ==
  ASSUME WebhookInv, WebhookNext
  PROVE  WebhookInv'
<1>1. ASSUME NEW q \in Strangers, Knock(q) PROVE WebhookInv'
  <2>1. UNCHANGED webhookVars
    BY <1>1, StrangersRefused DEF Knock, Accepts, webhookVars
  <2>2. WebhookTypeOK'
    BY <2>1 DEF webhookVars, WebhookInv, WebhookTypeOK
  <2> QED  BY <2>1, <2>2, BusyUntouched, ChoiceUntouched DEF webhookVars
<1>2. ASSUME NEW e \in JobEvents, QueuedDelivery(e) PROVE WebhookInv'
  <2>1. matched'.event = e /\ matched'.by = known
    BY <1>2 DEF QueuedDelivery
  <2>2. WebhookTypeOK'
    BY <1>2, <2>1 DEF QueuedDelivery, WebhookInv, WebhookTypeOK
  <2>3. MostSpecificPool'
    <3>1. matched'.pair = MatchPoolForEventWithTargets(known, e)
      BY <1>2, Zenon DEF QueuedDelivery
    <3>2. known \in Seq(PoolRows) /\ e \in Payloads
      BY WebhooksAssumption DEF WebhookInv, WebhookTypeOK
    <3>3. Specific(matched'.pair, matched'.by, matched'.event)
      BY <2>1, <3>1, <3>2, MatchSpecific, Zenon
    <3> QED  BY <3>3, Zenon DEF MostSpecificPool, Specific, Legible
  <2> QED  BY <1>2, <2>2, <2>3, BusyUntouched DEF QueuedDelivery
<1>3. CASE PauseOrResume
  <2>1. WebhookTypeOK'
    BY <1>3 DEF PauseOrResume, WebhookInv, WebhookTypeOK
  <2> QED  BY <1>3, <2>1, BusyUntouched, ChoiceUntouched DEF PauseOrResume
<1>4. CASE PoolsChange
  <2>1. WebhookTypeOK'
    BY <1>4 DEF PoolsChange, WebhookInv, WebhookTypeOK
  <2> QED  BY <1>4, <2>1, BusyUntouched, ChoiceUntouched DEF PoolsChange
<1> QED
  BY <1>1, <1>2, <1>3, <1>4, JobMovesKeeps, RedeliverKeeps, DeliverKeeps,
     MarkRunnerBusyKeeps DEF WebhookNext, CourseNext, ChoiceNext

\* Steps of other services leave the invariant alone.
LEMMA WebhooksStutter ==
  ASSUME WebhookInv, UNCHANGED webhookVars
  PROVE  WebhookInv'
<1>1. WebhookTypeOK'
  BY DEF webhookVars, WebhookInv, WebhookTypeOK
<1> QED  BY <1>1, BusyUntouched, ChoiceUntouched DEF webhookVars

\* At the start nothing has been sent.
LEMMA WebhookInitHolds ==
  ASSUME WebhookInit
  PROVE  WebhookInv
<1>1. flight \in [Progress -> 0..MaxSent] /\ handled \in [Progress -> 0..MaxSent]
  BY WebhooksAssumption DEF WebhookInit
<1>2. marked \in BOOLEAN /\ paused \in BOOLEAN /\ missed \in BOOLEAN
  BY DEF WebhookInit
<1>3. WebhookTypeOK
  BY <1>1, <1>2, WebhooksAssumption DEF WebhookInit, WebhookTypeOK
<1>4. MostSpecificPool  BY DEF WebhookInit, MostSpecificPool
<1>5. \A a \in Progress : UnderWay(a) = 0  BY DEF WebhookInit, UnderWay
<1> QED  BY <1>3, <1>4, <1>5, WebhooksAssumption DEF WebhookInit, WebhookInv, BusyTruthful, Progress

----------------------------------------------------------------------------

\* The receiver by itself keeps the inductive invariant: what has not happened
\* was not sent, and the busy mark is true unless a delivery was missed.
THEOREM WebhookInvariance == WebhookSpec => []WebhookInv
<1>1. WebhookInit => WebhookInv
  BY WebhookInitHolds
<1>2. WebhookInv /\ [WebhookNext]_webhookVars => WebhookInv'
  BY WebhookStepKeeps, WebhooksStutter
<1> QED  BY <1>1, <1>2, PTL DEF WebhookSpec
=============================================================================
