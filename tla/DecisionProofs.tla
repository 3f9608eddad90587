---------------------------- MODULE DecisionProofs ----------------------------
(***************************************************************************)
(* For every evidence the agents may report and every reading of telemetry: *)
(* types, when the gate opens without a human, and which path is           *)
(* recommended.                                                            *)
(***************************************************************************)
EXTENDS DecisionPipeline, CountingLemmas

-----------------------------------------------------------------------------
(* Arithmetic.                                                             *)

LEMMA Clamped ==
    ASSUME NEW low \in Int, NEW high \in Int, low <= high, NEW x \in Int
    PROVE  /\ Clamp(low, high, x) \in low..high
           /\ Clamp(low, high, x) = IF x < low THEN low ELSE IF x > high THEN high ELSE x
<1>1. Min({high, x}) \in Int
  BY MinOfTwo
<1> QED
  BY <1>1, MinOfTwo, MaxOfTwo DEF Clamp

LEMMA RoundedBounds ==
    ASSUME NEW a \in Int, NEW b \in Nat \ {0}, NEW low \in Int, NEW high \in Int,
           low * b <= a, a <= high * b
    PROVE  Rounded(a, b) \in low..high
<1> DEFINE q == (2 * a + b) \div (2 * b)
<1>1. q \in Int /\ (2 * b) * q <= 2 * a + b /\ 2 * a + b < (2 * b) * (q + 1)
  OBVIOUS
<1> HIDE DEF q
<1>2. low <= q
  <2> SUFFICES ASSUME q + 1 <= low PROVE FALSE
    BY <1>1
  <2>1. (2 * b) * (q + 1) <= (2 * b) * low
    BY <1>1
  <2>2. (2 * b) * low = 2 * (low * b)
    OBVIOUS
  <2> QED BY <1>1, <2>1, <2>2
<1>3. q <= high
  <2> SUFFICES ASSUME high + 1 <= q PROVE FALSE
    BY <1>1
  <2>1. (2 * b) * (high + 1) <= (2 * b) * q
    BY <1>1
  <2>2. (2 * b) * (high + 1) = 2 * (high * b) + 2 * b
    OBVIOUS
  <2> QED BY <1>1, <2>1, <2>2
<1> QED
  BY <1>1, <1>2, <1>3 DEF Rounded, q

LEMMA RoundedType ==
    ASSUME NEW a \in Int, NEW b \in Nat \ {0}
    PROVE  Rounded(a, b) \in Int
  BY DEF Rounded

-----------------------------------------------------------------------------
(* The marks of evidence and their averages.                              *)

(* Every piece of evidence as the scores read it.                          *)
Readable(E) == IsFiniteSet(E) /\ E \subseteq Evidence

LEMMA PercentAverage ==
    ASSUME NEW S, IsFiniteSet(S), S # {}, NEW f \in [S -> 0..100]
    PROVE  Rounded(SumFunction(f), Cardinality(S)) \in 0..100
<1> DEFINE n == Cardinality(S)
           low == 0
           high == 100
<1>1. n \in Nat \ {0} /\ low \in Int /\ high \in Int
  BY FS_EmptySet, FS_CardinalityType
<1>2. f \in [S -> Int] /\ \A x \in S : low <= f[x] /\ f[x] <= high
  <2>1. \A x \in S : f[x] \in 0..100
    OBVIOUS
  <2> QED BY <2>1
<1>3. low..high = 0..100
  OBVIOUS
<1> HIDE DEF low, high
<1>4. SumFunction(f) \in Int /\ low * n <= SumFunction(f) /\ SumFunction(f) <= high * n
  BY <1>1, <1>2, SumBounds
<1> HIDE DEF n
<1>5. Rounded(SumFunction(f), n) \in low..high
  BY <1>1, <1>4, RoundedBounds
<1> QED
  BY <1>3, <1>5 DEF n

LEMMA WeightedAverage ==
    ASSUME NEW S, IsFiniteSet(S), S # {}, NEW f \in [S -> Int],
           \A x \in S : 0 <= f[x] /\ f[x] <= 10000
    PROVE  Rounded(SumFunction(f), 100 * Cardinality(S)) \in 0..100
<1>1. SumFunction(f) \in Int /\ 0 <= SumFunction(f) /\ SumFunction(f) <= 10000 * Cardinality(S)
  <2> DEFINE low == 0
             high == 10000
  <2>2. \A x \in S : low <= f[x] /\ f[x] <= high
    OBVIOUS
  <2>3. low \in Int /\ high \in Int
    OBVIOUS
  <2> HIDE DEF low, high
  <2>4. SumFunction(f) \in Int /\ low * Cardinality(S) <= SumFunction(f)
                               /\ SumFunction(f) <= high * Cardinality(S)
    BY <2>2, <2>3, SumBounds
  <2> QED BY <2>4, FS_CardinalityType DEF low, high
<1> DEFINE m == 100 * Cardinality(S)
           s == SumFunction(f)
           low == 0
           high == 100
<1>2. /\ m \in Nat \ {0} /\ low \in Int /\ high \in Int /\ s \in Int
      /\ low * m <= s /\ s <= high * m
  BY <1>1, FS_EmptySet, FS_CardinalityType
<1>3. low..high = 0..100
  OBVIOUS
<1> HIDE DEF m, s, low, high
<1>4. Rounded(s, m) \in low..high
  BY <1>2, RoundedBounds
<1> QED
  BY <1>3, <1>4 DEF m, s

LEMMA MarksOfEvidence ==
    ASSUME NEW e \in Evidence
    PROVE  /\ Reliability(e) \in 75..100
           /\ Completeness(e) \in 20..100
           /\ Freshness(e) \in 10..100
<1>1. Freshness(e) \in 10..100
  <2>1. CASE e.age <= 600
    BY <2>1 DEF Freshness, Evidence
  <2>2. CASE e.age > 600
    <3> DEFINE r == Rounded(100 * (e.age - 600), 3600)
    <3>1. e.age \in Nat /\ r \in Nat
      BY <2>2 DEF Rounded, Evidence
    <3>2. Freshness(e) = Max({10, 100 - r})
      BY <2>2 DEF Freshness
    <3> HIDE DEF r
    <3>3. Max({10, 100 - r}) \in 10..100
      <4> DEFINE low == 10
                 fresh == 100 - r
      <4>1. low \in Int /\ fresh \in Int /\ fresh <= 100
        BY <3>1
      <4>2. Max({low, fresh}) = IF low >= fresh THEN low ELSE fresh
        <5> HIDE DEF low, fresh
        <5> QED BY <4>1, MaxOfTwo
      <4> QED BY <4>1, <4>2
    <3> QED BY <3>2, <3>3
  <2> QED BY <2>1, <2>2 DEF Evidence
<1> QED
  BY <1>1 DEF Reliability, Completeness, Evidence

LEMMA ProductBounds ==
    ASSUME NEW a \in 0..100, NEW b \in 0..100
    PROVE  a * b \in Int /\ 0 <= a * b /\ a * b <= 10000
<1>1. 0 <= a * b /\ a * b <= 100 * b /\ a * b \in Int /\ 100 * b <= 10000
  OBVIOUS
<1> QED BY <1>1

LEMMA QualityBounds ==
    ASSUME NEW E, Readable(E)
    PROVE  Quality(E) \in 0..100
<1> DEFINE f == [e \in E |-> Reliability(e) * Completeness(e)]
<1>1. \A e \in E : f[e] \in Int /\ 0 <= f[e] /\ f[e] <= 10000
  <2> TAKE e \in E
  <2> DEFINE r == Reliability(e)
             c == Completeness(e)
  <2>1. r \in 0..100 /\ c \in 0..100
    BY MarksOfEvidence DEF Readable
  <2>2. r * c \in Int /\ 0 <= r * c /\ r * c <= 10000
    <3> HIDE DEF r, c
    <3> QED BY <2>1, ProductBounds
  <2> QED BY <2>2
<1>2. f \in [E -> Int]
  BY <1>1
<1>3. Quality(E) = IF E = {} THEN 100 ELSE Rounded(SumFunction(f), 100 * Cardinality(E))
  BY DEF Quality, Total
<1> HIDE DEF f
<1> QED
  BY <1>1, <1>2, <1>3, WeightedAverage DEF Readable

LEMMA EvidenceQualityBounds ==
    ASSUME NEW E, Readable(E)
    PROVE  EvidenceQuality(E) \in 0..100
<1> DEFINE mark(e) == (IF e.source = "ReasoningAgent" THEN 90 ELSE Reliability(e)) * Freshness(e)
           f == [e \in E |-> mark(e)]
<1>1. \A e \in E : f[e] \in Int /\ 0 <= f[e] /\ f[e] <= 10000
  <2> TAKE e \in E
  <2> DEFINE r == IF e.source = "ReasoningAgent" THEN 90 ELSE Reliability(e)
  <2>1. r \in 0..100 /\ Freshness(e) \in 0..100
    BY MarksOfEvidence DEF Readable
  <2>2. r * Freshness(e) \in Int /\ 0 <= r * Freshness(e) /\ r * Freshness(e) <= 10000
    <3> HIDE DEF r
    <3> QED BY <2>1, ProductBounds
  <2> QED BY <2>2
<1>2. f \in [E -> Int]
  <2> HIDE DEF mark
  <2> QED BY <1>1
<1>3. EvidenceQuality(E) = IF E = {} THEN 100 ELSE Rounded(SumFunction(f), 100 * Cardinality(E))
  BY DEF EvidenceQuality, Total
<1> HIDE DEF f
<1> QED
  BY <1>1, <1>2, <1>3, WeightedAverage DEF Readable

LEMMA ConfidenceAverage ==
    ASSUME NEW E, Readable(E), NEW type, NEW default \in 0..100
    PROVE  Reported(E, type, default) \in 0..100
<1> DEFINE S == About(E, type)
           f == [e \in S |-> e.confidence]
<1>1. S \in SUBSET E
  BY DEF About
<1>2. IsFiniteSet(S)
  BY <1>1, FS_Subset DEF Readable
<1>3. f \in [S -> 0..100]
  BY <1>1 DEF Readable, Evidence
<1>4. Reported(E, type, default)
        = IF S = {} THEN default ELSE Rounded(SumFunction(f), Cardinality(S))
  BY DEF Reported, Average, Total
<1> HIDE DEF f, S
<1>6. S # {} => Rounded(SumFunction(f), Cardinality(S)) \in 0..100
  BY <1>2, <1>3, PercentAverage
<1> QED
  BY <1>4, <1>6

LEMMA FreshnessAverage ==
    ASSUME NEW E, Readable(E)
    PROVE  Recency(E) \in 0..100
<1> DEFINE f == [e \in E |-> Freshness(e)]
<1>1. f \in [E -> 0..100]
  BY MarksOfEvidence DEF Readable
<1>2. Recency(E) = IF E = {} THEN 100 ELSE Rounded(SumFunction(f), Cardinality(E))
  BY DEF Recency, Average, Total
<1> HIDE DEF f
<1>4. E # {} => Rounded(SumFunction(f), Cardinality(E)) \in 0..100
  BY <1>1, PercentAverage DEF Readable
<1> QED
  BY <1>2, <1>4

(* Two contradictions that each weigh at least twenty take forty off.      *)
LEMMA ConflictsFinite ==
    ASSUME NEW E, Readable(E)
    PROVE  /\ IsFiniteSet(Contradictions(E))
           /\ \A c \in Contradictions(E) : c.penalty \in 20..35
<1> DEFINE conflict(p, x) == [penalty |-> p, between |-> {x[1], x[2]}]
           table(p) == [x \in E \X E |-> conflict(p, x)]
           all(p) == {table(p)[x] : x \in E \X E}
<1>1. Contradictions(E) \subseteq all(25) \cup all(20) \cup all(35)
  BY DEF Contradictions, About
<1>2. IsFiniteSet(E \X E)
  BY FS_Product DEF Readable
<1>3. \A p : IsFiniteSet(all(p))
  <2> TAKE p
  <2> HIDE DEF table
  <2> QED BY <1>2, ImageFinite
<1>4. IsFiniteSet(all(25) \cup all(20) \cup all(35))
  <2> HIDE DEF all
  <2> QED BY <1>3, FS_Union
<1>5. IsFiniteSet(Contradictions(E))
  <2> HIDE DEF all
  <2> QED BY <1>1, <1>4, FS_Subset
<1> QED
  BY <1>1, <1>5

LEMMA PenaltyBounds ==
    ASSUME NEW C, IsFiniteSet(C), \A c \in C : c.penalty \in 20..35
    PROVE  Penalty(C) \in Nat /\ (Cardinality(C) > 1 => Penalty(C) >= 40)
<1> DEFINE f == [c \in C |-> c.penalty]
           low == 20
           high == 35
<1>1. \A c \in C : f[c] \in Int /\ low <= f[c] /\ f[c] <= high
  OBVIOUS
<1>2. f \in [C -> Int]
  BY <1>1
<1>3. low \in Int /\ high \in Int
  OBVIOUS
<1>4. Penalty(C) = SumFunction(f)
  BY DEF Penalty, Total
<1> HIDE DEF low, high, f
<1>5. /\ SumFunction(f) \in Int
      /\ low * Cardinality(C) <= SumFunction(f)
      /\ SumFunction(f) <= high * Cardinality(C)
  BY <1>1, <1>2, <1>3, SumBounds
<1> QED
  BY <1>4, <1>5, FS_CardinalityType DEF low

-----------------------------------------------------------------------------
(* Confidence and scores of what is concluded.                             *)

LEMMA TypesBounded ==
    ASSUME NEW T, T \subseteq KnownTypes
    PROVE  Cardinality(T) \in 0..6
<1> DEFINE A == {"telemetry", "prediction"}
           B == A \cup {"incident"}
           C == B \cup {"recommendation"}
           D == C \cup {"topology"}
           E == D \cup {"knowledge"}
<1>1. IsFiniteSet(A) /\ Cardinality(A) <= 2 /\ Cardinality(A) \in Nat
  <2> DEFINE O == {"telemetry"}
  <2>1. A = O \cup {"prediction"}
    OBVIOUS
  <2>2. IsFiniteSet(O) /\ Cardinality(O) = 1
    BY FS_Singleton
  <2> HIDE DEF A, O
  <2> QED BY <2>1, <2>2, FS_AddElement
<1> HIDE DEF A
<1>2. IsFiniteSet(B) /\ Cardinality(B) <= 3 /\ Cardinality(B) \in Nat
  BY <1>1, FS_AddElement
<1> HIDE DEF B
<1>3. IsFiniteSet(C) /\ Cardinality(C) <= 4 /\ Cardinality(C) \in Nat
  BY <1>2, FS_AddElement
<1> HIDE DEF C
<1>4. IsFiniteSet(D) /\ Cardinality(D) <= 5 /\ Cardinality(D) \in Nat
  BY <1>3, FS_AddElement
<1> HIDE DEF D
<1>5. IsFiniteSet(E) /\ Cardinality(E) <= 6 /\ Cardinality(E) \in Nat
  BY <1>4, FS_AddElement
<1>6. T \subseteq E
  BY DEF A, B, C, D, E, KnownTypes
<1> HIDE DEF E
<1>7. IsFiniteSet(T) /\ Cardinality(T) <= Cardinality(E)
  BY <1>5, <1>6, FS_Subset
<1>8. Cardinality(T) \in Nat
  BY <1>7, FS_CardinalityType
<1> QED
  BY <1>5, <1>7, <1>8

LEMMA SourcesCounted ==
    ASSUME NEW E, Readable(E)
    PROVE  Cardinality({e.source : e \in E}) \in Nat
<1> DEFINE f == [e \in E |-> e.source]
<1>1. {f[e] : e \in E} = {e.source : e \in E}
  OBVIOUS
<1> HIDE DEF f
<1>2. IsFiniteSet({f[e] : e \in E})
  BY ImageFinite DEF Readable
<1> QED
  BY <1>1, <1>2, FS_CardinalityType

(* Two contradictions leave at most sixty percent of confidence.           *)
LEMMA RawBounds ==
    ASSUME NEW E, Readable(E), NEW C, Penalty(C) \in Nat
    PROVE  /\ RawConfidence(E, C) \in Int
           /\ 1000 <= RawConfidence(E, C) /\ RawConfidence(E, C) <= 10000
           /\ Penalty(C) >= 40 => RawConfidence(E, C) <= 6000
<1> DEFINE off == Min({50, Penalty(C)})
           x == 25 * Quality(E) + 20 * TypesPresent(E) + 20 * CrossAgreement(E)
                + 15 * Reported(E, "prediction", 85) + 10 * Reported(E, "topology", 90)
                + 10 * Recency(E) - 100 * off
<1>1. RawConfidence(E, C) = Clamp(1000, 10000, x)
  BY DEF RawConfidence
<1>2. Quality(E) \in 0..100
  BY QualityBounds
<1>3. TypesPresent(E) \in 0..100
  <2> DEFINE types == {e.type : e \in E} \cap KnownTypes
  <2>1. Cardinality(types) \in 0..6
    BY TypesBounded
  <2>2. TypesPresent(E) = Rounded(100 * Cardinality(types), 6)
    BY DEF TypesPresent
  <2> HIDE DEF types
  <2> QED BY <2>1, <2>2 DEF Rounded
<1>4. CrossAgreement(E) \in 0..100
  <2> DEFINE n == 25 * Cardinality({e.source : e \in E})
  <2>1. n \in Nat
    BY SourcesCounted
  <2>2. CrossAgreement(E) = Min({100, n})
    BY DEF CrossAgreement
  <2> HIDE DEF n
  <2>3. Min({100, n}) = IF 100 <= n THEN 100 ELSE n
    BY <2>1, MinOfTwo
  <2> QED BY <2>1, <2>2, <2>3
<1>5. Reported(E, "prediction", 85) \in 0..100 /\ Reported(E, "topology", 90) \in 0..100
  BY ConfidenceAverage
<1>6. Recency(E) \in 0..100
  BY FreshnessAverage
<1>7. off \in Nat /\ (Penalty(C) >= 40 => off >= 40)
  BY MinOfTwo
<1> HIDE DEF off
<1>8. x \in Int /\ (Penalty(C) >= 40 => x <= 6000)
  <2> DEFINE quality == Quality(E)
             coverage == TypesPresent(E)
             consensus == CrossAgreement(E)
             predicted == Reported(E, "prediction", 85)
             mapped == Reported(E, "topology", 90)
             fresh == Recency(E)
  <2>1. /\ quality \in Int /\ quality <= 100 /\ coverage \in Int /\ coverage <= 100
        /\ consensus \in Int /\ consensus <= 100 /\ predicted \in Int /\ predicted <= 100
        /\ mapped \in Int /\ mapped <= 100 /\ fresh \in Int /\ fresh <= 100
    BY <1>2, <1>3, <1>4, <1>5, <1>6
  <2>2. x = 25 * quality + 20 * coverage + 20 * consensus + 15 * predicted + 10 * mapped
            + 10 * fresh - 100 * off
    OBVIOUS
  <2> HIDE DEF x, quality, coverage, consensus, predicted, mapped, fresh
  <2> QED BY <1>7, <2>1, <2>2
<1> HIDE DEF x
<1> DEFINE low == 1000
           high == 10000
<1>9. low \in Int /\ high \in Int /\ low <= high
  OBVIOUS
<1>10. Clamp(low, high, x) = IF x < low THEN low ELSE IF x > high THEN high ELSE x
  <2> HIDE DEF low, high
  <2> QED BY <1>8, <1>9, Clamped
<1> QED
  BY <1>1, <1>8, <1>10

LEMMA ScoreClamped ==
    ASSUME NEW x \in Int
    PROVE  Clamp(5, 100, x) \in 5..100
<1> DEFINE low == 5
           high == 100
<1>1. low \in Int /\ high \in Int /\ low <= high
  OBVIOUS
<1>2. Clamp(low, high, x) \in low..high
  <2> HIDE DEF low, high
  <2> QED BY <1>1, Clamped
<1> QED
  BY <1>2

LEMMA FinalScoreBounds ==
    ASSUME NEW E, Readable(E), NEW C, IsFiniteSet(C), \A c \in C : c.penalty \in 20..35,
           NEW raw \in Int, NEW category \in Causes
    PROVE  FinalScore(E, C, raw, category) \in 5..100
<1> DEFINE S == Supporting(E, category)
           s == Cardinality(S)
           m == Cardinality(E)
           n == Max({1, m})
           likelihood == Likelihood(category, S # {})
           supported == Rounded((likelihood * n + 100 * s) * raw, 20000 * n)
           confidence == Clamp(5, 100, supported)
           touching == {c \in C : c.between \cap S # {}}
           three == Min({3, s})
           weighted == 120 * n * likelihood + 12000 * s + 2000 * n * three
           share == Rounded(weighted * confidence, 30000 * n)
           x == share - Penalty(touching)
<1>1. FinalScore(E, C, raw, category) = Clamp(5, 100, x)
  BY DEF FinalScore
<1>2. s \in Nat /\ m \in Nat
  BY FS_Subset, FS_CardinalityType DEF Supporting, Readable
<1>3. likelihood \in Int
  BY DEF Likelihood, Causes, Categories
<1>4. Penalty(touching) \in Int
  BY FS_Subset, PenaltyBounds
<1> HIDE DEF s, m, S, likelihood, touching
<1>5. n \in Nat \ {0} /\ three \in Int
  BY <1>2, MaxOfTwo, MinOfTwo
<1> HIDE DEF n, three
<1>6. supported \in Int
  BY <1>2, <1>3, <1>5, RoundedType
<1>7. confidence \in Int
  <2> HIDE DEF supported
  <2>1. confidence \in 5..100
    BY <1>6, ScoreClamped
  <2> QED BY <2>1
<1> HIDE DEF confidence
<1>8. weighted \in Int
  BY <1>2, <1>3, <1>5
<1> HIDE DEF weighted
<1>9. share \in Int
  BY <1>5, <1>7, <1>8, RoundedType
<1> HIDE DEF share
<1>10. x \in Int
  BY <1>4, <1>9
<1> HIDE DEF x
<1>11. Clamp(5, 100, x) \in 5..100
  BY <1>10, ScoreClamped
<1> QED
  BY <1>1, <1>11

-----------------------------------------------------------------------------
(* Conclusions.                                                            *)

Conclusions == [cause : Causes, margin : 0..95, contradictions : Nat,
                confidence : 10..100, supported : 0..5]

(* A conclusion with two contradictions is not a confident one.            *)
Doubted(c) == c.contradictions > 1 => c.confidence <= 60

LEMMA SupportedBounds ==
    ASSUME NEW K, K \subseteq 1..5
    PROVE  Cardinality(K) \in 0..5
<1>1. IsFiniteSet(1..5) /\ Cardinality(1..5) = 5
  <2> DEFINE a == 1
             b == 5
  <2>1. a \in Int /\ b \in Int /\ a <= b /\ b - a + 1 = 5
    OBVIOUS
  <2>2. IsFiniteSet(a..b) /\ Cardinality(a..b) = b - a + 1
    <3> HIDE DEF a, b
    <3>1. IsFiniteSet(a..b)
      BY <2>1, FS_Interval
    <3>2. Cardinality(a..b) = IF a > b THEN 0 ELSE b - a + 1
      BY <2>1, FS_Interval
    <3> QED BY <2>1, <3>1, <3>2
  <2> QED BY <2>1, <2>2
<1>2. IsFiniteSet(K) /\ Cardinality(K) <= 5
  BY <1>1, FS_Subset
<1> QED
  BY <1>2, FS_CardinalityType

LEMMA ConclusionSound ==
    ASSUME NEW E, Readable(E)
    PROVE  Conclusion(E) \in Conclusions /\ Doubted(Conclusion(E))
<1> DEFINE C == Contradictions(E)
           raw == RawConfidence(E, C)
           score == [k \in 1..5 |-> FinalScore(E, C, raw, Categories[k])]
           best == Max({score[k] : k \in 1..5})
           first == Min({k \in 1..5 : score[k] = best})
           next == Max({score[k] : k \in (1..5) \ {first}})
           supported == Cardinality({k \in 1..5 : Supporting(E, Categories[k]) # {}})
           confidence == Rounded(raw, 100)
<1>1. Conclusion(E) = [cause |-> Categories[first], margin |-> best - next,
                       contradictions |-> Cardinality(C), confidence |-> confidence,
                       supported |-> supported]
  BY DEF Conclusion
<1>2. IsFiniteSet(C) /\ \A c \in C : c.penalty \in 20..35
  BY ConflictsFinite
<1>3. Penalty(C) \in Nat /\ (Cardinality(C) > 1 => Penalty(C) >= 40) /\ Cardinality(C) \in Nat
  BY <1>2, PenaltyBounds, FS_CardinalityType
<1> HIDE DEF C
<1>4. /\ raw \in Int /\ 1000 <= raw /\ raw <= 10000
      /\ Cardinality(C) > 1 => raw <= 6000
  BY <1>3, RawBounds
<1> HIDE DEF raw
<1>5. confidence \in 10..100 /\ (Cardinality(C) > 1 => confidence <= 60)
  BY <1>4 DEF Rounded
<1>6. supported \in 0..5
  BY SupportedBounds
<1> HIDE DEF confidence, supported
<1>7. \A k \in 1..5 : score[k] \in 5..100
  <2> TAKE k \in 1..5
  <2>1. Categories[k] \in Causes
    BY DEF Causes
  <2>2. FinalScore(E, C, raw, Categories[k]) \in 5..100
    BY <1>2, <1>4, <2>1, FinalScoreBounds
  <2> QED BY <2>2
<1> HIDE DEF score
<1>8. /\ best \in {score[k] : k \in 1..5}
      /\ \A k \in 1..5 : score[k] <= best
  <2> DEFINE V == {score[k] : k \in 1..5}
             bound == 100
  <2>1. V \subseteq Nat /\ V # {} /\ bound \in Nat /\ \A v \in V : v <= bound
    BY <1>7
  <2> HIDE DEF V, bound
  <2>2. Max(V) \in V /\ \A v \in V : v <= Max(V)
    BY <2>1, Largest
  <2> QED BY <2>2 DEF V
<1> HIDE DEF best
<1>9. first \in 1..5
  <2> DEFINE K == {k \in 1..5 : score[k] = best}
  <2>1. K \subseteq Nat /\ K # {}
    BY <1>8
  <2> HIDE DEF K
  <2>2. Min(K) \in K
    BY <2>1, Smallest
  <2> QED BY <2>2 DEF K
<1> HIDE DEF first
<1>10. \E k \in 1..5 : next = score[k]
  <2> DEFINE V == {score[k] : k \in (1..5) \ {first}}
             bound == 100
  <2>0. \E k \in 1..5 : k # first
    OBVIOUS
  <2>1. V \subseteq Nat /\ V # {} /\ bound \in Nat /\ \A v \in V : v <= bound
    BY <1>7, <2>0
  <2> HIDE DEF V, bound
  <2>2. Max(V) \in V
    BY <2>1, Largest
  <2> QED BY <2>2 DEF V
<1> HIDE DEF next
<1>11. best - next \in 0..95
  <2>1. PICK k \in 1..5 : next = score[k]
    BY <1>10
  <2>2. PICK j \in 1..5 : best = score[j]
    BY <1>8
  <2>3. next \in 5..100 /\ best \in 5..100 /\ next <= best
    BY <1>7, <1>8, <2>1, <2>2
  <2> QED BY <2>3
<1>12. Categories[first] \in Causes
  BY <1>9 DEF Causes
<1> QED
  BY <1>1, <1>3, <1>5, <1>6, <1>11, <1>12 DEF Conclusions, Doubted

-----------------------------------------------------------------------------
(* The gate.                                                               *)

(* Four ceilings and a threshold: 18 + 25 + 20 + 16 + 5 points for a       *)
(* conclusion with two contradictions, 30 + 25 + 25 + 16 - 15 for one with *)
(* evidence for fewer than three causes, and 85 are needed.                *)
LEMMA GateIsEarned ==
    ASSUME NEW c \in Conclusions, Doubted(c), NEW E, Readable(E),
           EvaluateTrust(c, E) = "AUTO_ELIGIBLE"
    PROVE  c.contradictions <= 1 /\ c.supported >= 3
<1> DEFINE quality == EvidenceQuality(E)
           taken == Min({60, 20 * Failed(c) + 5 * Warnings(c)})
           verified == VerificationConfidence(c)
           safety == Safety(BlastRadius(c.cause))
           x == Rounded(30 * c.confidence, 100) + Rounded(25 * quality, 100)
                + Rounded(25 * verified, 100) + Rounded(20 * safety, 100) + Counterfactual(c)
<1>1. quality \in 0..100
  BY EvidenceQualityBounds
<1>2. safety \in 0..80
  BY DEF Safety
<1>3. Failed(c) \in 0..1 /\ Warnings(c) \in 0..2
      /\ (c.contradictions > 1 => Failed(c) = 1)
  BY DEF Failed, Warnings, Conclusions
<1>4. taken \in 0..60 /\ (Failed(c) = 1 => taken >= 20)
  BY <1>3, MinOfTwo
<1>5. verified = Max({10, 100 - taken})
  BY DEF VerificationConfidence
<1> HIDE DEF taken, quality, safety
<1>6. verified \in 0..100 /\ (Failed(c) = 1 => verified <= 80)
  <2> DEFINE least == 10
             left == 100 - taken
  <2>1. least \in Int /\ left \in 40..100 /\ (Failed(c) = 1 => left <= 80)
    BY <1>4
  <2>2. Max({least, left}) = IF least >= left THEN least ELSE left
    <3> HIDE DEF least, left
    <3> QED BY <2>1, MaxOfTwo
  <2> QED BY <1>5, <2>1, <2>2
<1> HIDE DEF verified
<1>7. Counterfactual(c) \in -15..5 /\ (c.supported < 3 => Counterfactual(c) = -15)
  BY DEF Counterfactual, Conclusions
<1>8. x \in Int /\ (c.contradictions > 1 \/ c.supported < 3 => x < 85)
  BY <1>1, <1>2, <1>3, <1>6, <1>7 DEF Rounded, Conclusions, Doubted
<1>9. TrustScore(c, E) = Clamp(5, 100, x)
  BY DEF TrustScore, quality, verified, safety
<1>10. TrustScore(c, E) >= 85
  BY DEF EvaluateTrust
<1> HIDE DEF x
<1>11. Clamp(5, 100, x) = IF x < 5 THEN 5 ELSE IF x > 100 THEN 100 ELSE x
  <2> DEFINE low == 5
             high == 100
  <2>1. low \in Int /\ high \in Int /\ low <= high
    OBVIOUS
  <2>2. Clamp(low, high, x) = IF x < low THEN low ELSE IF x > high THEN high ELSE x
    <3> HIDE DEF low, high
    <3> QED BY <1>8, <2>1, Clamped
  <2> QED BY <2>2
<1>12. x >= 85
  BY <1>8, <1>9, <1>10, <1>11
<1> QED
  BY <1>8, <1>12 DEF Conclusions

-----------------------------------------------------------------------------
(* Readings: what is no worse in every metric scores no less.              *)

Measured(r) == {"risk", "age"} \subseteq DOMAIN r /\ \A metric \in DOMAIN r : r[metric] \in Nat

(* No metric of one reading is better than the other's.                    *)
NoWorse(r, s) ==
    \A metric \in DOMAIN r \cup DOMAIN s : Has(r, metric) /\ Has(s, metric) /\ r[metric] <= s[metric]

LEMMA ThousandClamped ==
    ASSUME NEW x \in Int
    PROVE  Clamp(0, 1000, x) = IF x < 0 THEN 0 ELSE IF x > 1000 THEN 1000 ELSE x
<1> DEFINE y == Min({1000, x})
<1>1. y = IF 1000 <= x THEN 1000 ELSE x
  BY DEF Min
<1>2. y \in Int
  BY <1>1
<1> HIDE DEF y
<1>3. Max({0, y}) = IF 0 >= y THEN 0 ELSE y
  BY <1>2 DEF Max
<1> QED
  BY <1>1, <1>2, <1>3 DEF Clamp, y

LEMMA ConfidenceClamped ==
    ASSUME NEW x \in Int
    PROVE  Clamp(10, 100, x) = IF x < 10 THEN 10 ELSE IF x > 100 THEN 100 ELSE x
<1> DEFINE y == Min({100, x})
<1>1. y = IF 100 <= x THEN 100 ELSE x
  BY DEF Min
<1>2. y \in Int
  BY <1>1
<1> HIDE DEF y
<1>3. Max({10, y}) = IF 10 >= y THEN 10 ELSE y
  BY <1>2 DEF Max
<1> QED
  BY <1>1, <1>2, <1>3 DEF Clamp, y

LEMMA ReadingOrdered ==
    ASSUME NEW r, Measured(r), NEW s, Measured(s), NEW metric, NEW default \in Nat
    PROVE  /\ Reading(r, metric, default) \in Nat
           /\ Reading(s, metric, default) \in Nat
           /\ NoWorse(r, s) => Reading(r, metric, default) <= Reading(s, metric, default)
  BY DEF Reading, Has, NoWorse, Measured

LatencyPenalty(lat) == IF lat > 30 THEN Min({350, 4 * (lat - 30)}) ELSE 0
LossPenalty(loss) == IF loss > 10 THEN Min({450, loss \div 2}) ELSE 0
JitterPenalty(jitter) == IF jitter > 50 THEN Min({150, (12 * (jitter - 50)) \div 10}) ELSE 0
LoadPenalty(util) == IF util > 800 THEN Min({250, (5 * (util - 800)) \div 4}) ELSE 0
ErrorPenalty(drops, flaps) == Min({250, 20 * drops + 80 * flaps})
RiskPenalty(risk) == IF risk > 10 THEN Min({400, 4 * risk}) ELSE 0

LEMMA PenaltyOrdered ==
    ASSUME NEW x \in Nat, NEW y \in Nat, x <= y
    PROVE  /\ LatencyPenalty(x) \in Nat /\ LatencyPenalty(x) <= LatencyPenalty(y)
           /\ LossPenalty(x) \in Nat /\ LossPenalty(x) <= LossPenalty(y)
           /\ JitterPenalty(x) \in Nat /\ JitterPenalty(x) <= JitterPenalty(y)
           /\ LoadPenalty(x) \in Nat /\ LoadPenalty(x) <= LoadPenalty(y)
           /\ RiskPenalty(x) \in Nat /\ RiskPenalty(x) <= RiskPenalty(y)
<1>1. LatencyPenalty(x) \in Nat /\ LatencyPenalty(x) <= LatencyPenalty(y)
  BY DEF LatencyPenalty, Min
<1>2. LossPenalty(x) \in Nat /\ LossPenalty(x) <= LossPenalty(y)
  BY DEF LossPenalty, Min
<1>3. JitterPenalty(x) \in Nat /\ JitterPenalty(x) <= JitterPenalty(y)
  BY DEF JitterPenalty, Min
<1>4. LoadPenalty(x) \in Nat /\ LoadPenalty(x) <= LoadPenalty(y)
  <2> DEFINE a == (5 * (x - 800)) \div 4
             b == (5 * (y - 800)) \div 4
  <2>1. a \in Int /\ b \in Int /\ a <= b /\ (x > 800 => a >= 0)
    OBVIOUS
  <2>2. LoadPenalty(x) = (IF x > 800 THEN Min({250, a}) ELSE 0)
        /\ LoadPenalty(y) = (IF y > 800 THEN Min({250, b}) ELSE 0)
    BY DEF LoadPenalty
  <2>3. y > 800 => b >= 0
    OBVIOUS
  <2> HIDE DEF a, b
  <2>4. Min({250, a}) = (IF 250 <= a THEN 250 ELSE a) /\ Min({250, b}) = (IF 250 <= b THEN 250 ELSE b)
    BY <2>1 DEF Min
  <2> QED BY <2>1, <2>2, <2>3, <2>4
<1>5. RiskPenalty(x) \in Nat /\ RiskPenalty(x) <= RiskPenalty(y)
  BY DEF RiskPenalty, Min
<1> QED
  BY <1>1, <1>2, <1>3, <1>4, <1>5

LEMMA ErrorsOrdered ==
    ASSUME NEW d \in Nat, NEW e \in Nat, NEW f \in Nat, NEW g \in Nat, d <= e, f <= g
    PROVE  ErrorPenalty(d, f) \in Nat /\ ErrorPenalty(d, f) <= ErrorPenalty(e, g)
  BY DEF ErrorPenalty, Min

LEMMA PenaltiesAre ==
    ASSUME NEW r
    PROVE  Penalties(r) = LatencyPenalty(Reading(r, "latency", 0)) + LossPenalty(Reading(r, "loss", 0))
                        + JitterPenalty(Reading(r, "jitter", 0)) + LoadPenalty(Reading(r, "util", 0))
                        + ErrorPenalty(Reading(r, "drops", 0), Reading(r, "flaps", 0))
                        + RiskPenalty(r.risk)
  BY DEF Penalties, LatencyPenalty, LossPenalty, JitterPenalty, LoadPenalty, ErrorPenalty, RiskPenalty

LEMMA PenaltiesOrdered ==
    ASSUME NEW r, Measured(r), NEW s, Measured(s), NoWorse(r, s)
    PROVE  Penalties(r) <= Penalties(s)
<1> DEFINE a(m) == Reading(r, m, 0)
           b(m) == Reading(s, m, 0)
<1>1. \A m : a(m) \in Nat /\ b(m) \in Nat /\ a(m) <= b(m)
  BY ReadingOrdered
<1>2. r.risk \in Nat /\ s.risk \in Nat /\ r.risk <= s.risk
  BY DEF Measured, NoWorse
<1> HIDE DEF a, b
<1>3. \A m : /\ LatencyPenalty(a(m)) \in Nat /\ LatencyPenalty(b(m)) \in Nat
             /\ LatencyPenalty(a(m)) <= LatencyPenalty(b(m))
             /\ LossPenalty(a(m)) \in Nat /\ LossPenalty(b(m)) \in Nat
             /\ LossPenalty(a(m)) <= LossPenalty(b(m))
             /\ JitterPenalty(a(m)) \in Nat /\ JitterPenalty(b(m)) \in Nat
             /\ JitterPenalty(a(m)) <= JitterPenalty(b(m))
             /\ LoadPenalty(a(m)) \in Nat /\ LoadPenalty(b(m)) \in Nat
             /\ LoadPenalty(a(m)) <= LoadPenalty(b(m))
  BY <1>1, PenaltyOrdered
<1>4. /\ RiskPenalty(r.risk) \in Nat /\ RiskPenalty(s.risk) \in Nat
      /\ RiskPenalty(r.risk) <= RiskPenalty(s.risk)
  BY <1>2, PenaltyOrdered
<1>5. /\ ErrorPenalty(a("drops"), a("flaps")) \in Nat /\ ErrorPenalty(b("drops"), b("flaps")) \in Nat
      /\ ErrorPenalty(a("drops"), a("flaps")) <= ErrorPenalty(b("drops"), b("flaps"))
  BY <1>1, ErrorsOrdered
<1>6. Penalties(r) = LatencyPenalty(a("latency")) + LossPenalty(a("loss")) + JitterPenalty(a("jitter"))
                   + LoadPenalty(a("util")) + ErrorPenalty(a("drops"), a("flaps")) + RiskPenalty(r.risk)
  BY PenaltiesAre DEF a
<1>7. Penalties(s) = LatencyPenalty(b("latency")) + LossPenalty(b("loss")) + JitterPenalty(b("jitter"))
                   + LoadPenalty(b("util")) + ErrorPenalty(b("drops"), b("flaps")) + RiskPenalty(s.risk)
  BY PenaltiesAre DEF b
<1> QED
  BY <1>3, <1>4, <1>5, <1>6, <1>7

LEMMA PenaltiesType ==
    ASSUME NEW r, Measured(r)
    PROVE  Penalties(r) \in Int
<1>1. \A m : Reading(r, m, 0) \in Nat
  BY ReadingOrdered
<1>2. \A x \in Nat : /\ LatencyPenalty(x) \in Nat /\ LossPenalty(x) \in Nat /\ JitterPenalty(x) \in Nat
                     /\ LoadPenalty(x) \in Nat /\ RiskPenalty(x) \in Nat
  BY PenaltyOrdered
<1>3. ErrorPenalty(Reading(r, "drops", 0), Reading(r, "flaps", 0)) \in Nat
  BY <1>1, ErrorsOrdered
<1>4. r.risk \in Nat
  BY DEF Measured
<1> QED
  BY <1>1, <1>2, <1>3, <1>4, PenaltiesAre

LEMMA HealthOrdered ==
    ASSUME NEW r, Measured(r), NEW s, Measured(s)
    PROVE  /\ Health(r) \in Int /\ 0 <= Health(r) /\ Health(r) <= 1000
           /\ NoWorse(r, s) => Health(s) <= Health(r)
<1>1. Penalties(r) \in Int /\ Penalties(s) \in Int
  BY PenaltiesType
<1>2. NoWorse(r, s) => Penalties(r) <= Penalties(s)
  BY PenaltiesOrdered
<1> DEFINE x == 1000 - Penalties(r)
           y == 1000 - Penalties(s)
<1>3. x \in Int /\ y \in Int /\ (NoWorse(r, s) => y <= x)
  BY <1>1, <1>2
<1>4. Health(r) = Clamp(0, 1000, x) /\ Health(s) = Clamp(0, 1000, y)
  BY DEF Health
<1> HIDE DEF x, y
<1> QED
  BY <1>3, <1>4, ThousandClamped

Missing(r) ==
    100 - (IF Has(r, "latency") THEN 0 ELSE 15)
        - (IF Has(r, "loss") THEN 0 ELSE 15)
        - (IF Has(r, "jitter") THEN 0 ELSE 10)
        - (IF Has(r, "util") THEN 0 ELSE 10)
        - (IF r.age > 60 THEN 20 ELSE 0)

LEMMA HealthConfidenceOrdered ==
    ASSUME NEW r, Measured(r), NEW s, Measured(s)
    PROVE  /\ HealthConfidence(r) \in 10..100
           /\ NoWorse(r, s) => HealthConfidence(s) <= HealthConfidence(r)
<1>1. r.age \in Nat /\ s.age \in Nat /\ (NoWorse(r, s) => r.age <= s.age)
  BY DEF Measured, NoWorse
<1>2. NoWorse(r, s) => \A m : Has(r, m) <=> Has(s, m)
  BY DEF NoWorse, Has
<1>3. Missing(r) \in Int /\ Missing(s) \in Int /\ (NoWorse(r, s) => Missing(s) <= Missing(r))
  BY <1>1, <1>2 DEF Missing
<1>4. HealthConfidence(r) = Clamp(10, 100, Missing(r)) /\ HealthConfidence(s) = Clamp(10, 100, Missing(s))
  BY DEF HealthConfidence, Missing
<1> QED
  BY <1>3, <1>4, ConfidenceClamped

LEMMA LossOrdered ==
    ASSUME NEW r, Measured(r), NEW s, Measured(s)
    PROVE  /\ Loss(r) \in Nat /\ Latency(r) \in Nat
           /\ NoWorse(r, s) => Loss(r) <= Loss(s) /\ Latency(r) <= Latency(s)
  BY ReadingOrdered DEF Loss, Latency

LEMMA ReliabilityOrdered ==
    ASSUME NEW r, Measured(r), NEW s, Measured(s)
    PROVE  /\ ReliabilityIndex(r) \in Int
           /\ NoWorse(r, s) => ReliabilityIndex(s) <= ReliabilityIndex(r)
<1> DEFINE x == (Health(r) + 1000) \div 2 - (8 * Loss(r)) \div 10 - 2 * (100 - HealthConfidence(r))
           y == (Health(s) + 1000) \div 2 - (8 * Loss(s)) \div 10 - 2 * (100 - HealthConfidence(s))
<1>1. Health(r) \in Int /\ Health(s) \in Int /\ (NoWorse(r, s) => Health(s) <= Health(r))
  BY HealthOrdered
<1>2. Loss(r) \in Nat /\ Loss(s) \in Nat /\ (NoWorse(r, s) => Loss(r) <= Loss(s))
  BY LossOrdered
<1>3. /\ HealthConfidence(r) \in Int /\ HealthConfidence(s) \in Int
      /\ NoWorse(r, s) => HealthConfidence(s) <= HealthConfidence(r)
  BY HealthConfidenceOrdered
<1>4. x \in Int /\ y \in Int /\ (NoWorse(r, s) => y <= x)
  BY <1>1, <1>2, <1>3
<1>5. ReliabilityIndex(r) = Clamp(0, 1000, x) /\ ReliabilityIndex(s) = Clamp(0, 1000, y)
  BY DEF ReliabilityIndex
<1> HIDE DEF x, y
<1> QED
  BY <1>4, <1>5, ThousandClamped

Path == [spofs : Nat, sla : Nat]

SlaPoints(path, r) ==
    CASE SlaStatus(path, r) = "COMPLIANT" -> 1000
      [] SlaStatus(path, r) = "UNKNOWN" -> 600
      [] OTHER -> 0

LEMMA SlaOrdered ==
    ASSUME NEW r, Measured(r), NEW s, Measured(s), NEW p \in Path, NEW q \in Path
    PROVE  /\ SlaPoints(p, r) \in Int
           /\ NoWorse(r, s) /\ p.sla >= q.sla => SlaPoints(q, s) <= SlaPoints(p, r)
<1>1. NoWorse(r, s) => \A m : Has(r, m) <=> Has(s, m)
  BY DEF NoWorse, Has
<1>2. Loss(r) \in Nat /\ Latency(r) \in Nat /\ Loss(s) \in Nat /\ Latency(s) \in Nat
  BY LossOrdered
<1>3. NoWorse(r, s) => Loss(r) <= Loss(s) /\ Latency(r) <= Latency(s)
  BY LossOrdered
<1>4. p.sla \in Nat /\ q.sla \in Nat
  BY DEF Path
<1> QED
  BY <1>1, <1>2, <1>3, <1>4 DEF SlaPoints, SlaStatus

LEMMA IndependenceOrdered ==
    ASSUME NEW p \in Path, NEW q \in Path
    PROVE  /\ Independence(p) \in Int
           /\ p.spofs <= q.spofs => Independence(q) <= Independence(p)
<1> DEFINE x == 1000 - 200 * p.spofs
           y == 1000 - 200 * q.spofs
<1>1. x \in Int /\ y \in Int /\ (p.spofs <= q.spofs => y <= x)
  BY DEF Path
<1>2. Independence(p) = Max({200, x}) /\ Independence(q) = Max({200, y})
  BY DEF Independence
<1> HIDE DEF x, y
<1>3. Max({200, x}) = (IF 200 >= x THEN 200 ELSE x) /\ Max({200, y}) = (IF 200 >= y THEN 200 ELSE y)
  BY <1>1 DEF Max
<1> QED
  BY <1>1, <1>2, <1>3

Complement(n) == 1000 - Min({1000, n})

LEMMA ComplementOrdered ==
    ASSUME NEW m \in Nat, NEW n \in Nat
    PROVE  Complement(m) \in Int /\ (m <= n => Complement(n) <= Complement(m))
  BY DEF Complement, Min

LEMMA PathScoreOrdered ==
    ASSUME NEW r, Measured(r), NEW s, Measured(s), NEW p \in Path, NEW q \in Path
    PROVE  /\ PathScore(p, r) \in Int /\ 0 <= PathScore(p, r) /\ PathScore(p, r) <= 1000
           /\ NoWorse(r, s) /\ p.spofs <= q.spofs /\ p.sla >= q.sla => PathScore(q, s) <= PathScore(p, r)
<1> DEFINE better == NoWorse(r, s) /\ p.spofs <= q.spofs /\ p.sla >= q.sla
           weight(h, i, safe, l, o, t, d) ==
               20 * h + 15 * i + 200 * safe + 15 * l + 10 * o + 5 * t + 10 * d + 5 * 500
           x == weight(Health(r), ReliabilityIndex(r), 100 - r.risk, Complement(5 * Latency(r)),
                       Complement(Loss(r)), SlaPoints(p, r), Independence(p))
           y == weight(Health(s), ReliabilityIndex(s), 100 - s.risk, Complement(5 * Latency(s)),
                       Complement(Loss(s)), SlaPoints(q, s), Independence(q))
<1>1. PathScore(p, r) = Clamp(0, 1000, Rounded(x, 100)) /\ PathScore(q, s) = Clamp(0, 1000, Rounded(y, 100))
  BY DEF PathScore, Weighted, Complement, SlaPoints
<1>2. Health(r) \in Int /\ Health(s) \in Int /\ (better => Health(s) <= Health(r))
  BY HealthOrdered
<1>3. /\ ReliabilityIndex(r) \in Int /\ ReliabilityIndex(s) \in Int
      /\ better => ReliabilityIndex(s) <= ReliabilityIndex(r)
  BY ReliabilityOrdered
<1>4. r.risk \in Nat /\ s.risk \in Nat /\ (better => r.risk <= s.risk)
  BY DEF Measured, NoWorse
<1>5. /\ Loss(r) \in Nat /\ Latency(r) \in Nat /\ Loss(s) \in Nat /\ Latency(s) \in Nat
      /\ better => Loss(r) <= Loss(s) /\ Latency(r) <= Latency(s)
  BY LossOrdered
<1>6. /\ Complement(Loss(r)) \in Int /\ Complement(Loss(s)) \in Int
      /\ better => Complement(Loss(s)) <= Complement(Loss(r))
  BY <1>5, ComplementOrdered
<1>7. /\ Complement(5 * Latency(r)) \in Int /\ Complement(5 * Latency(s)) \in Int
      /\ better => Complement(5 * Latency(s)) <= Complement(5 * Latency(r))
  <2> DEFINE m == 5 * Latency(r)
             n == 5 * Latency(s)
  <2>1. m \in Nat /\ n \in Nat /\ (better => m <= n)
    BY <1>5
  <2> HIDE DEF m, n, better
  <2>2. /\ Complement(m) \in Int /\ Complement(n) \in Int
        /\ better => Complement(n) <= Complement(m)
    BY <2>1, ComplementOrdered
  <2> QED BY <2>2 DEF m, n
<1>8. /\ SlaPoints(p, r) \in Int /\ SlaPoints(q, s) \in Int
      /\ better => SlaPoints(q, s) <= SlaPoints(p, r)
  BY SlaOrdered
<1>9. /\ Independence(p) \in Int /\ Independence(q) \in Int
      /\ better => Independence(q) <= Independence(p)
  BY IndependenceOrdered
<1>10. x \in Int /\ y \in Int /\ (better => y <= x)
  <2> HIDE DEF better
  <2> QED BY <1>2, <1>3, <1>4, <1>6, <1>7, <1>8, <1>9
<1> HIDE DEF x, y
<1>11. Rounded(x, 100) \in Int /\ Rounded(y, 100) \in Int /\ (better => Rounded(y, 100) <= Rounded(x, 100))
  <2> HIDE DEF better
  <2> QED BY <1>10 DEF Rounded
<1> QED
  BY <1>1, <1>11, ThousandClamped

-----------------------------------------------------------------------------
(* The invariant and the theorems.                                         *)

RegistryKnown ==
    /\ IsFiniteSet(registry)
    /\ \A e \in registry : e \in Evidence /\ e.asked <= MaxPathDecisions /\ e.age <= elapsed

ConclusionKnown == conclusion # None => conclusion \in Conclusions /\ Doubted(conclusion)

AnswerKnown ==
    answer # None => \/ "trust" \in DOMAIN answer /\ answer.trust \in TrustOutcomes
                     \/ "path" \in DOMAIN answer /\ answer.path \in PathOutcomes

Pairs == {Discovered(kind) : kind \in Devices}

PendingKnown ==
    pending # None => pending \in [paths : Pairs, readings : [Candidates -> Readings]]

IInv ==
    /\ RegistryKnown
    /\ elapsed \in 0..MaxAge
    /\ ConclusionKnown
    /\ AnswerKnown
    /\ AutoIsEarned
    /\ PendingKnown

LEMMA DevicesArePairs ==
    Pairs \subseteq [primary : Path, backup : Path]
  BY PipelineAssumption DEF Pairs, Discovered, Kinds, Path

LEMMA ReadingsAreMeasured ==
    \A r \in Readings : Measured(r)
  BY PipelineAssumption DEF Measured

LEMMA NoneHasNoAnswer == "trust" \notin DOMAIN None
  BY DEF None

LEMMA InitInvariant == Init => IInv
  BY FS_EmptySet, PipelineAssumption, NoneHasNoAnswer
     DEF Init, IInv, RegistryKnown, ConclusionKnown, AnswerKnown, AutoIsEarned, PendingKnown

LEMMA RegistryReadable == RegistryKnown => Readable(registry)
  BY DEF RegistryKnown, Readable

LEMMA RegistryStep == IInv /\ [Next]_vars => RegistryKnown'
<1> SUFFICES ASSUME IInv, [Next]_vars
             PROVE  RegistryKnown'
  OBVIOUS
<1>1. ASSUME NEW report \in Reports, Register(report)
      PROVE  RegistryKnown'
  <2>1. registry' = registry \cup {report} /\ elapsed' = elapsed
    BY <1>1 DEF Register
  <2>2. report \in Evidence /\ report.age = 0 /\ report.asked = 0
    BY PipelineAssumption
  <2>3. elapsed \in Nat /\ MaxPathDecisions \in Nat
    BY PipelineAssumption DEF IInv
  <2>4. IsFiniteSet(registry')
    BY <2>1, FS_AddElement DEF IInv, RegistryKnown
  <2> QED
    BY <2>1, <2>2, <2>3, <2>4 DEF IInv, RegistryKnown
<1>2. ASSUME NEW seconds \in Ages, Pass(seconds)
      PROVE  RegistryKnown'
  <2> DEFINE older == [e \in registry |-> [e EXCEPT !.age = @ + seconds]]
  <2>1. registry' = {older[e] : e \in registry} /\ elapsed' = elapsed + seconds
    BY <1>2 DEF Pass
  <2>2. seconds \in Nat /\ elapsed \in Nat
    BY PipelineAssumption DEF IInv
  <2>3. \A e \in registry : older[e] \in Evidence /\ older[e].asked = e.asked
                                                  /\ older[e].age = e.age + seconds
    BY <2>2 DEF IInv, RegistryKnown, Evidence
  <2> HIDE DEF older
  <2>4. IsFiniteSet(registry')
    BY <2>1, ImageFinite DEF IInv, RegistryKnown
  <2>5. \A e \in registry : e.age \in Nat
    BY DEF IInv, RegistryKnown, Evidence
  <2> QED
    BY <2>1, <2>2, <2>3, <2>4, <2>5 DEF IInv, RegistryKnown
<1>3. CASE PathEvaluate
  <2> PICK r \in [Candidates -> Readings] :
            registry' = registry \cup {Unread(c, r[c]) : c \in Candidates}
    BY <1>3 DEF PathEvaluate
  <2> DEFINE read == {Unread(c, r[c]) : c \in Candidates}
  <2>1. registry' = registry \cup read /\ elapsed' = elapsed /\ Asked < MaxPathDecisions
    BY <1>3 DEF PathEvaluate
  <2>2. Asked \in Nat
    <3>1. IsFiniteSet({e \in registry : e.empty})
      BY FS_Subset DEF IInv, RegistryKnown
    <3>2. Cardinality({e \in registry : e.empty}) \in Nat
      BY <3>1, FS_CardinalityType
    <3> QED BY <3>2 DEF Asked
  <2>3. MaxPathDecisions \in Nat /\ elapsed \in Nat
    BY PipelineAssumption DEF IInv
  <2>4. \A c \in Candidates : /\ Unread(c, r[c]) \in Evidence
                              /\ Unread(c, r[c]).asked = Asked + 1 /\ Unread(c, r[c]).age = 0
    <3> TAKE c \in Candidates
    <3>1. c \in Names /\ "TelemetryAgent" \in Names /\ "telemetry" \in Names
      BY PipelineAssumption
    <3>2. HealthConfidence(r[c]) \in 0..100
      <4>1. Measured(r[c])
        BY ReadingsAreMeasured
      <4>2. HealthConfidence(r[c]) \in 10..100
        BY <4>1, HealthConfidenceOrdered
      <4> QED BY <4>2
    <3> HIDE DEF read
    <3> QED BY <2>2, <3>1, <3>2 DEF Unread, Evidence
  <2>5. IsFiniteSet(read)
    <3>1. read = {Unread("primary", r["primary"])} \cup {Unread("backup", r["backup"])}
      BY DEF Candidates
    <3>2. IsFiniteSet({Unread("primary", r["primary"])})
      BY FS_Singleton
    <3> HIDE DEF read
    <3> QED BY <3>1, <3>2, FS_AddElement
  <2>6. IsFiniteSet(registry')
    <3> HIDE DEF read
    <3> QED BY <2>1, <2>5, FS_Union DEF IInv, RegistryKnown
  <2>7. \A e \in read : e \in Evidence /\ e.asked <= MaxPathDecisions /\ e.age <= elapsed
    BY <2>1, <2>2, <2>3, <2>4
  <2> HIDE DEF read
  <2> QED
    BY <2>1, <2>6, <2>7 DEF IInv, RegistryKnown
<1>4. CASE Reason \/ Trust \/ PathConclude \/ UNCHANGED vars
  BY <1>4 DEF Reason, Trust, PathConclude, vars, IInv, RegistryKnown
<1> QED
  BY <1>1, <1>2, <1>3, <1>4 DEF Next

LEMMA ConclusionStep == IInv /\ [Next]_vars => ConclusionKnown'
<1> SUFFICES ASSUME IInv, [Next]_vars
             PROVE  ConclusionKnown'
  OBVIOUS
<1>1. conclusion' \in {conclusion, Conclusion(registry)}
  BY DEF Next, Register, Pass, Reason, Trust, PathEvaluate, PathConclude, vars
<1>2. Conclusion(registry) \in Conclusions /\ Doubted(Conclusion(registry))
  BY RegistryReadable, ConclusionSound DEF IInv
<1> QED
  BY <1>1, <1>2 DEF IInv, ConclusionKnown, Doubted

LEMMA PendingStep == IInv /\ [Next]_vars => PendingKnown'
<1> SUFFICES ASSUME IInv, [Next]_vars
             PROVE  PendingKnown'
  OBVIOUS
<1>1. CASE pending' = pending \/ pending' = None
  BY <1>1 DEF IInv, PendingKnown
<1>2. CASE PathEvaluate
  BY <1>2 DEF PathEvaluate, PendingKnown, Pairs
<1> QED
  BY <1>1, <1>2 DEF Next, Register, Pass, Reason, Trust, PathConclude, vars

(* The answer a TrustAgent gives rests on a conclusion that earned it.     *)
LEMMA AnswerStep == IInv /\ [Next]_vars => AnswerKnown' /\ AutoIsEarned'
<1> SUFFICES ASSUME IInv, [Next]_vars
             PROVE  AnswerKnown' /\ AutoIsEarned'
  OBVIOUS
<1>1. CASE answer' = answer
  BY <1>1 DEF IInv, AnswerKnown, AutoIsEarned
<1>2. CASE Trust
  <2> DEFINE c == conclusion'
             outcome == EvaluateTrust(c, registry)
  <2>1. answer' = [trust |-> outcome, contradictions |-> c.contradictions, supported |-> c.supported]
    BY <1>2 DEF Trust
  <2>2. c \in Conclusions /\ Doubted(c)
    <3>1. CASE conclusion = None
      BY <1>2, <3>1, RegistryReadable, ConclusionSound DEF Trust, IInv
    <3>2. CASE conclusion # None
      BY <1>2, <3>2 DEF Trust, IInv, ConclusionKnown
    <3> QED BY <3>1, <3>2
  <2>3. outcome \in TrustOutcomes
    BY DEF EvaluateTrust, TrustOutcomes
  <2>4. Readable(registry)
    BY RegistryReadable DEF IInv
  <2> HIDE DEF c
  <2>5. outcome = "AUTO_ELIGIBLE" => c.contradictions <= 1 /\ c.supported >= 3
    BY <2>2, <2>4, GateIsEarned
  <2> HIDE DEF outcome
  <2> QED
    BY <2>1, <2>3, <2>5 DEF AnswerKnown, AutoIsEarned
<1>3. CASE PathConclude
  <2>1. PICK p : answer' = [path |-> p] /\ p \in PathOutcomes
    BY <1>3 DEF PathConclude, Recommend, PathOutcomes
  <2> QED BY <2>1 DEF AnswerKnown, AutoIsEarned
<1> QED
  BY <1>1, <1>2, <1>3 DEF Next, Register, Pass, Reason, PathEvaluate, vars

(* For any evidence, readings, ages and bounds.                            *)
THEOREM Invariance == Spec => []IInv
<1>1. IInv /\ [Next]_vars => IInv'
  <2> SUFFICES ASSUME IInv, [Next]_vars
               PROVE  IInv'
    OBVIOUS
  <2>1. elapsed' \in 0..MaxAge
    BY PipelineAssumption
       DEF IInv, Next, Register, Pass, Reason, Trust, PathEvaluate, PathConclude, vars
  <2> QED
    BY <2>1, RegistryStep, ConclusionStep, PendingStep, AnswerStep DEF IInv
<1> QED
  BY <1>1, InitInvariant, PTL DEF Spec

(* What is done without a human rests on a conclusion with at most one     *)
(* contradiction and evidence for at least three causes, whatever the      *)
(* agents report, in any order, and however old the conclusion is.         *)
THEOREM AutonomyIsEarned == Spec => []AutoIsEarned
<1>1. IInv => AutoIsEarned
  BY DEF IInv
<1> QED
  BY <1>1, Invariance, PTL

(* Scores stay within their scales for any reading of telemetry.           *)
THEOREM TypeCorrect == Spec => []TypeOK
<1>1. ASSUME IInv
      PROVE  TypeOK
  <2>1. \A e \in registry : e \in Evidence /\ e.asked <= MaxPathDecisions /\ e.age <= MaxAge
    BY <1>1, PipelineAssumption DEF IInv, RegistryKnown, Evidence
  <2>2. ASSUME pending # None, NEW c \in Candidates
        PROVE  {Health(pending.readings[c]), PathScore(pending.paths[c], pending.readings[c])} \subseteq 0..1000
    <3> DEFINE r == pending.readings[c]
               p == pending.paths[c]
    <3>1. r \in Readings /\ p \in Path
      BY <1>1, <2>2, DevicesArePairs DEF IInv, PendingKnown, Candidates
    <3>2. Measured(r)
      BY <3>1, ReadingsAreMeasured
    <3> HIDE DEF r, p
    <3>3. /\ Health(r) \in Int /\ 0 <= Health(r) /\ Health(r) <= 1000
          /\ PathScore(p, r) \in Int /\ 0 <= PathScore(p, r) /\ PathScore(p, r) <= 1000
      BY <3>1, <3>2, HealthOrdered, PathScoreOrdered
    <3> DEFINE scale == 0..1000
    <3>4. Health(r) \in scale /\ PathScore(p, r) \in scale
      BY <3>3
    <3> HIDE DEF scale
    <3>5. {Health(r), PathScore(p, r)} \subseteq scale
      BY <3>4
    <3> QED BY <3>5 DEF r, p, scale
  <2>3. conclusion # None =>
            conclusion \in [cause : Causes, margin : 0..95, contradictions : Nat,
                            confidence : 10..100, supported : 0..5]
    BY <1>1 DEF IInv, ConclusionKnown, Conclusions
  <2> QED
    BY <1>1, <2>1, <2>2, <2>3 DEF IInv, AnswerKnown, TypeOK
<1> QED
  BY <1>1, Invariance, PTL

(* A path that is no better in any reading never displaces the one in use. *)
THEOREM NoWorsePath == Spec => []NoWorsePathRecommended
<1>1. ASSUME IInv
      PROVE  NoWorsePathRecommended
  <2> SUFFICES ASSUME pending # None,
                      Dominates(pending.paths.primary, pending.readings.primary,
                                pending.paths.backup, pending.readings.backup),
                      NEW trust \in TrustOutcomes
               PROVE  Recommend(pending.paths, pending.readings, trust) # "RECOMMEND_ALTERNATIVE"
    BY DEF NoWorsePathRecommended
  <2> DEFINE p == pending.paths.primary
             q == pending.paths.backup
             r == pending.readings.primary
             s == pending.readings.backup
  <2>1. p \in Path /\ q \in Path /\ r \in Readings /\ s \in Readings
    BY <1>1, DevicesArePairs DEF IInv, PendingKnown, Candidates
  <2>2. NoWorse(r, s) /\ p.spofs <= q.spofs /\ p.sla >= q.sla
    BY DEF Dominates, NoWorse
  <2>3. PathScore(q, s) <= PathScore(p, r) /\ PathScore(q, s) \in Int /\ PathScore(p, r) \in Int
    <3>1. Measured(r) /\ Measured(s)
      BY <2>1, ReadingsAreMeasured
    <3> HIDE DEF p, q, r, s
    <3> QED BY <2>1, <2>2, <3>1, PathScoreOrdered
  <2>4. TopPath(pending.paths, pending.readings) = "primary"
    BY <2>3 DEF TopPath
  <2> QED BY <2>4 DEF Recommend
<1> QED
  BY <1>1, Invariance, PTL
=============================================================================
