----------------------------- MODULE DoctorProofs -----------------------------
(***************************************************************************)
(* The safety properties of vis-doctor, for every machine, every set of    *)
(* CPUs and every outcome of their scans.                                  *)
(***************************************************************************)
EXTENDS Doctor, FiniteSetTheorems, WellFoundedInduction, TLAPS

(* Lemmas about the operators of DoctorAnalysis and Inspection. *)

(* A nonempty set of naturals has a least member.                          *)
LEMMA HasLeast ==
  ASSUME NEW S \in SUBSET Nat, S # {}
  PROVE  \E n \in S : \A y \in S : n <= y
<1>1. PICK n \in S : \A y \in S : ~(<<y, n>> \in OpToRel(<, Nat))
  BY NatLessThanWellFounded, WFMin, Zenon
<1>2. \A a, b \in Nat : a < b => <<a, b>> \in OpToRel(<, Nat)
  BY SMT DEF OpToRel
<1>3. \A y \in S : ~(y < n)
  BY <1>1, <1>2
<1>4. \A y \in S : n <= y
  BY <1>3
<1>. QED BY <1>4

(* A finite set of naturals is bounded: of the subsets that are not, the   *)
(* smallest would have a member to spare.                                  *)
LEMMA FiniteIsBounded ==
  ASSUME NEW S \in SUBSET Nat, IsFiniteSet(S)
  PROVE  \E n \in Nat : \A x \in S : x <= n
<1> DEFINE Unbounded == {T \in SUBSET S : \A n \in Nat : \E x \in T : ~(x <= n)}
           Sizes == {Cardinality(T) : T \in Unbounded}
<1>. SUFFICES ASSUME S \in Unbounded PROVE FALSE
  OBVIOUS
<1>1. \A T \in SUBSET S : IsFiniteSet(T) /\ Cardinality(T) \in Nat
  BY FS_Subset, FS_CardinalityType
<1>2. PICK T \in Unbounded : \A U \in Unbounded : Cardinality(T) <= Cardinality(U)
  <2>1. Sizes \in SUBSET Nat /\ Sizes # {}
    BY <1>1
  <2>2. PICK k \in Sizes : \A j \in Sizes : k <= j
    BY <2>1, HasLeast
  <2>. QED BY <2>2
<1>3. PICK x \in T : TRUE
  <2>1. 0 \in Nat
    OBVIOUS
  <2>. QED BY <1>2, <2>1
<1> DEFINE U == T \ {x}
<1>4. U \in SUBSET S /\ Cardinality(U) = Cardinality(T) - 1
  BY <1>1, <1>3, FS_RemoveElement
<1>5. PICK n \in Nat : \A y \in U : y <= n
  <2>1. ~(Cardinality(T) <= Cardinality(U))
    <3>. HIDE DEF U, Unbounded, Sizes
    <3>1. Cardinality(T) \in Nat
      BY <1>1 DEF Unbounded
    <3>. QED BY <1>4, <3>1
  <2>2. U \notin Unbounded
    BY <1>2, <2>1, Zenon
  <2>. QED BY <1>4, <2>2
<1> DEFINE m == IF x <= n THEN n ELSE x
<1>6. x \in Nat /\ \A y \in T : y \in Nat
  BY <1>3
<1>7. m \in Nat /\ \A y \in T : y <= m
  BY <1>5, <1>6
<1>. QED BY <1>2, <1>7

(* A nonempty finite set of naturals has a greatest member.                *)
LEMMA HasGreatest ==
  ASSUME NEW S \in SUBSET Nat, IsFiniteSet(S), S # {}
  PROVE  \E n \in S : \A x \in S : x <= n
<1> DEFINE Bounds == {n \in Nat : \A x \in S : x <= n}
<1>1. Bounds \in SUBSET Nat /\ Bounds # {}
  BY FiniteIsBounded
<1>2. PICK b \in Bounds : \A n \in Bounds : b <= n
  BY <1>1, HasLeast
<1>3. b \in S
  <2>. SUFFICES ASSUME b \notin S PROVE FALSE
    OBVIOUS
  <2>1. \A x \in S : x < b
    BY <1>2
  <2>2. b \in Nat \ {0}
    <3>1. PICK x \in S : x < b
      BY <2>1
    <3>. QED BY <3>1
  <2>3. b - 1 \in Nat /\ \A x \in S : x <= b - 1
    BY <2>1, <2>2
  <2>. QED BY <1>2, <2>2, <2>3
<1>. QED BY <1>2, <1>3

(* The largest rate is a natural number and no less than any (the loop     *)
(* over the scans in vis_doctor_analyze).                                  *)
LEMMA MaxRateIsGreatest ==
  ASSUME NEW scans, IsFiniteSet(DOMAIN scans), \A c \in DOMAIN scans : scans[c].rate \in Nat
  PROVE  /\ MaxRate(scans) \in {scans[c].rate : c \in DOMAIN scans} \cup {0}
         /\ \A c \in DOMAIN scans : scans[c].rate <= MaxRate(scans)
<1> DEFINE D == DOMAIN scans
           rate == [c \in D |-> scans[c].rate]
           Rates == {scans[c].rate : c \in D}
<1>1. rate \in Surjection(D, Rates)
  BY DEF Surjection
<1>2. IsFiniteSet(Rates \cup {0})
  BY <1>1, FS_Surjection, FS_AddElement
<1>3. Rates \cup {0} \in SUBSET Nat
  OBVIOUS
<1>4. PICK r \in Rates \cup {0} : \A x \in Rates \cup {0} : x <= r
  BY <1>2, <1>3, HasGreatest
<1>5. \A c \in D : scans[c].rate <= r
  BY <1>4
<1>. QED BY <1>4, <1>5, Zenon DEF MaxRate

----------------------------------------------------------------------------
(* Sets of CPUs are finite sets of naturals. *)
LEMMA CpusAreNumbers ==
  ASSUME InspectionAssumption, DoctorAnalysisAssumption, NEW S \in SUBSET CpuIds
  PROVE  S \in SUBSET Nat /\ IsFiniteSet(S) /\ Cardinality(S) \in Nat
BY FS_Subset, FS_CardinalityType DEF InspectionAssumption, DoctorAnalysisAssumption

(* Of CPUs there are, the first n >= 1 are not none. *)
LEMMA FirstCpusNonempty ==
  ASSUME InspectionAssumption, DoctorAnalysisAssumption,
         NEW S \in SUBSET CpuIds, S # {}, NEW n \in Nat \ {0}
  PROVE  FirstCpus(S, n) # {}
<1>1. PICK c \in S : \A d \in S : c <= d
  BY CpusAreNumbers, HasLeast
<1>2. {d \in S : d < c} = {}
  <2>1. S \in SUBSET Nat
    BY CpusAreNumbers
  <2>2. \A d \in S : ~(d < c)
    BY <1>1, <2>1
  <2>. QED BY <2>2
<1>3. Cardinality({d \in S : d < c}) < n
  BY <1>2, FS_EmptySet
<1>. QED BY <1>3 DEF FirstCpus

(* When the first n leave a CPU out there are n of them, all before it     *)
(* (the break of sibling_aware_primary_candidates and of first_cpu_ids).   *)
LEMMA FirstCpusFull ==
  ASSUME InspectionAssumption, DoctorAnalysisAssumption,
         NEW S \in SUBSET CpuIds, NEW n \in Nat \ {0}, NEW c \in S \ FirstCpus(S, n)
  PROVE  /\ Cardinality(FirstCpus(S, n)) = n
         /\ \A d \in FirstCpus(S, n) : d < c
<1> DEFINE F == FirstCpus(S, n)
           Below(x) == {d \in S : d < x}
<1>1. S \in SUBSET Nat /\ F \in SUBSET S /\ IsFiniteSet(S)
  BY CpusAreNumbers DEF FirstCpus
<1>2. \A x : IsFiniteSet(Below(x)) /\ Cardinality(Below(x)) \in Nat
  BY CpusAreNumbers
<1>3. \A x \in S : x \in F <=> Cardinality(Below(x)) < n
  BY DEF FirstCpus
<1>4. \A x, y \in S : x <= y => Cardinality(Below(x)) <= Cardinality(Below(y))
  <2>. SUFFICES ASSUME NEW x \in S, NEW y \in S, x <= y
                PROVE  Cardinality(Below(x)) <= Cardinality(Below(y))
    OBVIOUS
  <2>1. x \in Nat /\ y \in Nat /\ \A d \in S : d \in Nat
    BY <1>1
  <2>2. \A d \in S : d < x => d < y
    BY <2>1
  <2>3. Below(x) \in SUBSET Below(y)
    BY <2>2
  <2>. QED BY <1>2, <2>3, FS_Subset
<1>5. \A d \in F, y \in S \ F : d < y
  <2>. SUFFICES ASSUME NEW d \in F, NEW y \in S \ F, ~(d < y) PROVE FALSE
    OBVIOUS
  <2>1. y <= d
    <3>1. d \in Nat /\ y \in Nat
      BY <1>1
    <3>. QED BY <3>1
  <2>2. Cardinality(Below(y)) <= Cardinality(Below(d))
    BY <1>1, <1>4, <2>1
  <2>3. Cardinality(Below(d)) < n /\ ~(Cardinality(Below(y)) < n)
    BY <1>1, <1>3
  <2>4. Cardinality(Below(d)) \in Nat /\ Cardinality(Below(y)) \in Nat
    BY <1>2
  <2>. QED
    <3>. HIDE DEF Below, F
    <3>. QED BY <2>2, <2>3, <2>4
<1>6. PICK k \in S \ F : \A y \in S \ F : k <= y
  <2>1. S \ F \in SUBSET Nat /\ S \ F # {}
    BY <1>1
  <2>. QED BY <2>1, HasLeast
<1>7. Below(k) = F
  <2>1. \A y \in S : y < k => y \in F
    BY <1>1, <1>6
  <2>. QED BY <1>1, <1>5, <1>6, <2>1
<1>8. n <= Cardinality(F)
  <2>1. ~(Cardinality(Below(k)) < n) /\ Cardinality(Below(k)) \in Nat
    BY <1>2, <1>3, <1>6
  <2>. QED BY <1>7, <2>1
<1>9. Cardinality(F) <= n
  <2>1. IsFiniteSet(F) /\ Cardinality(F) \in Nat
    BY <1>2, <1>7
  <2>2. F # {}
    BY <1>8, FS_EmptySet
  <2>3. PICK m \in F : \A y \in F : y <= m
    BY <1>1, <2>1, <2>2, HasGreatest
  <2>4. F \ {m} \in SUBSET Below(m)
    <3>1. m \in Nat /\ \A y \in F : y \in Nat /\ y \in S
      BY <1>1
    <3>2. \A y \in F \ {m} : y \in S /\ y < m
      <4>. HIDE DEF F
      <4>. QED BY <2>3, <3>1
    <3>. QED BY <3>2
  <2>5. Cardinality(F \ {m}) = Cardinality(F) - 1
    BY <2>1, FS_RemoveElement
  <2>6. Cardinality(F \ {m}) <= Cardinality(Below(m))
    BY <1>2, <2>4, FS_Subset
  <2>7. Cardinality(Below(m)) < n /\ Cardinality(Below(m)) \in Nat
    BY <1>1, <1>2, <1>3
  <2>. QED
    <3>. HIDE DEF F, Below
    <3>. QED BY <2>1, <2>5, <2>6, <2>7
<1>. QED
  <2>1. Cardinality(F) \in Nat
    BY <1>2, <1>7
  <2>2. Cardinality(F) = n
    <3>. HIDE DEF F
    <3>. QED BY <1>8, <1>9, <2>1
  <2>. QED BY <1>5, <2>2

----------------------------------------------------------------------------
(* The rows of a scan. *)
RowType == [status : STRING, rate : Nat, contaminated : Nat, clean : BOOLEAN,
            class : {"", Lower, Higher}]

AreScans(scans) ==
  /\ DOMAIN scans \in SUBSET CpuIds
  /\ \A c \in DOMAIN scans : scans[c] \in RowType

(* What the classes are for: the CPUs outside of the lower one are those   *)
(* that accept at least half as many samples as any other.                 *)
ClassesAreRight(scans) ==
  \A c \in DOMAIN scans :
    scans[c].class # Lower <=> \A d \in DOMAIN scans : scans[d].rate <= 2 * scans[c].rate

SameButClass(a, b) ==
  /\ a.status = b.status /\ a.rate = b.rate
  /\ a.contaminated = b.contaminated /\ a.clean = b.clean

(* The classification of the rows (vis_doctor_analyze) is right and changes *)
(* nothing else.                                                            *)
LEMMA ClassifiedIsRight ==
  ASSUME InspectionAssumption, DoctorAnalysisAssumption, NEW scans, AreScans(scans)
  PROVE  /\ DOMAIN Classified(scans) = DOMAIN scans
         /\ AreScans(Classified(scans))
         /\ \A c \in DOMAIN scans : SameButClass(Classified(scans)[c], scans[c])
         /\ ClassesAreRight(Classified(scans))
<1> DEFINE D == DOMAIN scans
           max == MaxRate(scans)
           new == Classified(scans)
<1>1. DOMAIN new = D
  BY DEF Classified
<1>2. \A c \in D : new[c] = [scans[c] EXCEPT !.class = Class(scans[c], max)]
  BY DEF Classified
<1>3. \A c \in D : scans[c].rate \in Nat
  BY DEF AreScans, RowType
<1>4. IsFiniteSet(D)
  BY CpusAreNumbers DEF AreScans
<1>5. /\ max \in {scans[c].rate : c \in D} \cup {0}
      /\ \A c \in D : scans[c].rate <= max
  BY <1>3, <1>4, MaxRateIsGreatest
<1>6. \A c \in D : /\ new[c] \in RowType /\ SameButClass(new[c], scans[c])
                   /\ new[c].class = Class(scans[c], max)
  <2>. SUFFICES ASSUME NEW c \in D
                PROVE  /\ new[c] \in RowType /\ SameButClass(new[c], scans[c])
                       /\ new[c].class = Class(scans[c], max)
    OBVIOUS
  <2>1. scans[c] \in RowType
    BY DEF AreScans
  <2>2. Class(scans[c], max) \in {Lower, Higher}
    BY DEF Class
  <2>. HIDE DEF new, max
  <2>. QED BY <1>2, <2>1, <2>2 DEF RowType, SameButClass
<1>7. \A c \in D : Class(scans[c], max) # Lower <=>
                   \A d \in D : scans[d].rate <= 2 * scans[c].rate
  <2>. SUFFICES ASSUME NEW c \in D
                PROVE  Class(scans[c], max) # Lower <=>
                       \A d \in D : scans[d].rate <= 2 * scans[c].rate
    OBVIOUS
  <2>1. Class(scans[c], max) # Lower <=> ~(max > 0 /\ 2 * scans[c].rate < max)
    BY DEF Class, Lower, Higher
  <2>2. max \in Nat
    BY <1>3, <1>5
  <2>. HIDE DEF max
  <2>3. CASE max = 0
    BY <1>3, <1>5, <2>1, <2>3
  <2>4. CASE max > 0
    <3>1. PICK d \in D : max = scans[d].rate
      BY <1>5, <2>4
    <3>. QED BY <1>3, <1>5, <2>1, <2>2, <2>4, <3>1
  <2>. QED BY <2>2, <2>3, <2>4
<1>8. AreScans(new)
  BY <1>1, <1>6 DEF AreScans
<1>9. ClassesAreRight(new)
  <2>. HIDE DEF new, max
  <2>1. \A c \in D : new[c].rate = scans[c].rate
    BY <1>6 DEF SameButClass
  <2>. QED BY <1>1, <1>6, <1>7, <2>1 DEF ClassesAreRight
<1>. QED BY <1>1, <1>6, <1>8, <1>9

(* A candidate, primary or secondary, is clean and fast enough, and is     *)
(* neither avoided nor contaminated (clean_higher_throughput_scans).       *)
LEMMA CandidatesAreClean ==
  ASSUME NEW scans, ClassesAreRight(scans), NEW key,
         NEW c \in PrimaryCandidates(scans, key) \cup FirstCpus(CleanHigher(scans), SecondaryLimit)
  PROVE  /\ c \in CleanHigher(scans) /\ c \in DOMAIN scans
         /\ scans[c].clean
         /\ \A d \in DOMAIN scans : scans[d].rate <= 2 * scans[c].rate
         /\ c \notin LowerClass(scans)
<1>1. c \in CleanHigher(scans)
  BY DEF PrimaryCandidates, FirstCpus, FirstOfCores
<1>2. c \in DOMAIN scans /\ scans[c].clean /\ scans[c].class # Lower
  BY <1>1 DEF CleanHigher
<1>. QED BY <1>1, <1>2 DEF ClassesAreRight, LowerClass

(* The primary list has no two CPUs with one key, and leaves out a clean   *)
(* CPU only for one with its key, or because it is full                    *)
(* (sibling_aware_primary_candidates).                                     *)
LEMMA OneOfEachCore ==
  ASSUME InspectionAssumption, DoctorAnalysisAssumption, NEW scans, AreScans(scans), NEW key
  PROVE  LET p == PrimaryCandidates(scans, key) IN
         /\ \A c, d \in p : c # d => key[c] # key[d]
         /\ \A c \in CleanHigher(scans) \ p :
              \/ \E d \in p : d < c /\ key[d] = key[c]
              \/ Cardinality(p) = PrimaryLimit /\ \A d \in p : d < c
<1> DEFINE S == CleanHigher(scans)
           F == FirstOfCores(S, key)
           p == PrimaryCandidates(scans, key)
<1>1. S \in SUBSET CpuIds /\ S \in SUBSET Nat
  <2>1. S \in SUBSET CpuIds
    BY DEF CleanHigher, AreScans
  <2>. QED BY <2>1, CpusAreNumbers
<1>2. F \in SUBSET S /\ p = FirstCpus(F, PrimaryLimit) /\ p \in SUBSET F
  BY DEF FirstOfCores, PrimaryCandidates, FirstCpus
<1>3. \A c, d \in F : d < c => key[d] # key[c]
  BY DEF FirstOfCores
<1>4. PrimaryLimit \in Nat \ {0}
  BY DEF DoctorAnalysisAssumption
<1>5. \A c \in F \ p : Cardinality(p) = PrimaryLimit /\ \A d \in p : d < c
  <2>. HIDE DEF F
  <2>. QED BY <1>1, <1>2, <1>4, FirstCpusFull
<1>6. \A c, d \in p : c # d => key[c] # key[d]
  <2>. SUFFICES ASSUME NEW c \in p, NEW d \in p, c # d PROVE key[c] # key[d]
    OBVIOUS
  <2>. HIDE DEF S, F, p
  <2>1. c \in F /\ d \in F /\ c \in Nat /\ d \in Nat
    BY <1>1, <1>2
  <2>2. c < d \/ d < c
    BY <2>1
  <2>. QED BY <1>3, <2>1, <2>2
<1>7. ASSUME NEW c \in S \ p
      PROVE  \/ \E d \in p : d < c /\ key[d] = key[c]
             \/ Cardinality(p) = PrimaryLimit /\ \A d \in p : d < c
  <2> DEFINE K == {x \in S : key[x] = key[c]}
  <2>1. PICK d \in K : \A x \in K : d <= x
    <3>1. K \in SUBSET Nat /\ K # {}
      BY <1>1
    <3>. QED BY <3>1, HasLeast
  <2>2. d \in Nat /\ d \in S /\ c \in Nat /\ d <= c /\ key[d] = key[c]
    BY <1>1, <2>1
  <2>3. d \in F
    <3>1. \A x \in S : x < d => key[x] # key[d]
      <4>. SUFFICES ASSUME NEW x \in S, x < d, key[x] = key[d] PROVE FALSE
        OBVIOUS
      <4>1. x \in K /\ x \in Nat
        BY <1>1, <2>2
      <4>. QED BY <2>1, <2>2, <4>1
    <3>. QED BY <2>2, <3>1 DEF FirstOfCores
  <2>4. CASE d \in p
    <3>1. d # c
      BY <2>4
    <3>2. d < c
      BY <2>2, <3>1
    <3>. QED BY <2>2, <2>4, <3>2
  <2>5. CASE d \notin p
    <3>1. Cardinality(p) = PrimaryLimit /\ \A e \in p : e < d
      BY <1>5, <2>3, <2>5
    <3>2. \A e \in p : e \in Nat
      BY <1>1, <1>2
    <3>. HIDE DEF p, F, S, K
    <3>3. \A e \in p : e < c
      BY <2>2, <3>1, <3>2
    <3>. QED BY <3>1, <3>3
  <2>. QED BY <2>4, <2>5
<1>. QED BY <1>6, <1>7

----------------------------------------------------------------------------
(* The fields of a report. *)
IsReport(r) ==
  r = [machine |-> r.machine, environment |-> r.environment, sensors |-> r.sensors,
       cpus |-> r.cpus, cores |-> r.cores, duration |-> r.duration,
       scan_ran |-> r.scan_ran, scans |-> r.scans, baseline |-> r.baseline,
       policy |-> r.policy, findings |-> r.findings, advice |-> r.advice]

(* What the analysis leaves alone. *)
SameFacts(a, b) ==
  /\ a.machine = b.machine /\ a.environment = b.environment /\ a.sensors = b.sensors
  /\ a.cpus = b.cpus /\ a.cores = b.cores /\ a.duration = b.duration
  /\ a.scan_ran = b.scan_ran /\ a.baseline = b.baseline

(* Policies and findings depend on nothing but the facts and the scans. *)
LEMMA PolicyOfFacts ==
  ASSUME NEW a, NEW b, SameFacts(a, b), a.scans = b.scans
  PROVE  PolicyOf(a) = PolicyOf(b) /\ FindingsOf(a) = FindingsOf(b)
BY Zenon DEF SameFacts, PolicyOf, FindingsOf, MachineFindings

(* An analysis writes its results into the report. *)
WithResults(r, p, f, a) == [r EXCEPT !.policy = p, !.findings = f, !.advice = a]

(* The results of an analysis change no fact it rests on.                  *)
LEMMA ResultsAreNoFacts ==
  ASSUME NEW r, IsReport(r), NEW p, NEW f, NEW a, NEW q,
         q = WithResults(r, p, f, a)
  PROVE  /\ IsReport(q) /\ SameFacts(q, r) /\ q.scans = r.scans
         /\ q.policy = p /\ q.findings = f
<1> DEFINE r1 == [r EXCEPT !.policy = p]
           r2 == [r1 EXCEPT !.findings = f]
           r3 == [r2 EXCEPT !.advice = a]
<1>1. IsReport(r1) /\ SameFacts(r1, r) /\ r1.scans = r.scans /\ r1.policy = p
  BY DEF IsReport, SameFacts
<1>. HIDE DEF r1
<1>2. /\ IsReport(r2) /\ SameFacts(r2, r1) /\ r2.scans = r1.scans
      /\ r2.policy = r1.policy /\ r2.findings = f
  BY <1>1 DEF IsReport, SameFacts
<1>. HIDE DEF r2
<1>3. /\ IsReport(r3) /\ SameFacts(r3, r2) /\ r3.scans = r2.scans
      /\ r3.policy = r2.policy /\ r3.findings = r2.findings
  BY <1>2 DEF IsReport, SameFacts
<1>. HIDE DEF r3
<1>4. SameFacts(r3, r)
  BY <1>1, <1>2, <1>3 DEF SameFacts
<1>5. q = r3
  BY DEF r1, r2, r3, WithResults
<1>. QED BY <1>1, <1>2, <1>3, <1>4, <1>5

(* An analysis of a scan classifies the rows, and its policy and findings  *)
(* are those of the report it leaves, whatever was in the report before    *)
(* (vis_doctor_analyze).                                                   *)
LEMMA AnalyzeScanned ==
  ASSUME NEW r, IsReport(r), r.scan_ran = TRUE, NEW q, q = Analyze(r)
  PROVE  /\ IsReport(q) /\ SameFacts(q, r) /\ q.scans = Classified(r.scans)
         /\ q.policy = PolicyOf(q) /\ q.findings = FindingsOf(q)
<1>1. PICK c : c = [r EXCEPT !.scans = Classified(r.scans)]
  OBVIOUS
<1>2. q = WithResults(c, PolicyOf(c), FindingsOf(c), AdviceOf(c))
  BY <1>1 DEF Analyze, WithResults
<1>3. IsReport(c) /\ SameFacts(c, r) /\ c.scans = Classified(r.scans)
  BY <1>1 DEF IsReport, SameFacts
<1>4. /\ IsReport(q) /\ SameFacts(q, c) /\ q.scans = c.scans
      /\ q.policy = PolicyOf(c) /\ q.findings = FindingsOf(c)
  BY <1>2, <1>3, ResultsAreNoFacts
<1>5. PolicyOf(q) = PolicyOf(c) /\ FindingsOf(q) = FindingsOf(c)
  BY <1>4, PolicyOfFacts
<1>6. SameFacts(q, r)
  BY <1>3, <1>4 DEF SameFacts
<1>. QED BY <1>3, <1>4, <1>5, <1>6

(* Without a scan there is no policy, only the warnings of the machine. *)
LEMMA AnalyzeUnscanned ==
  ASSUME NEW r, IsReport(r), r.scan_ran = FALSE, NEW q, q = Analyze(r)
  PROVE  /\ IsReport(q) /\ SameFacts(q, r) /\ q.scans = r.scans
         /\ q.policy = [NoPolicy EXCEPT !.warnings = MachineWarnings(r.machine, r.cpus)]
         /\ q.findings = MachineFindings(r)
<1> DEFINE p == [NoPolicy EXCEPT !.warnings = MachineWarnings(r.machine, r.cpus)]
<1>1. q = WithResults(r, p, MachineFindings(r), GeneralAdvice(r) \cup {<<"scan", {}>>})
  BY DEF Analyze, WithResults
<1>2. /\ IsReport(q) /\ SameFacts(q, r) /\ q.scans = r.scans
      /\ q.policy = p /\ q.findings = MachineFindings(r)
  <2>. HIDE DEF p
  <2>. QED BY <1>1, ResultsAreNoFacts
<1>. QED BY <1>2

----------------------------------------------------------------------------

(* The state of the run and of the file. *)
Control ==
  /\ pc \in {"idle", "inspect", "scan", "baseline", "write"}
  /\ options \in OptionsType \cup {NoOptions}
  /\ exit_code \in {0, 1, Killed}
  /\ runs \in 0 .. MaxRuns
  /\ pc = "inspect" => runs # 0
  /\ pc \in {"idle", "inspect"} => report = NoReport /\ measured = <<>>
  /\ pc \in {"scan", "baseline"} => report.scan_ran

SavedIsReadable ==
  /\ DOMAIN saved.scan \subseteq CpuIds
  /\ \A c \in DOMAIN saved.scan : saved.scan[c] \in Nat

(* Report r has a row for each CPU measured, with what was measured. *)
RowsAgree(r, m) ==
  /\ IsReport(r)
  /\ r.scan_ran \in BOOLEAN
  /\ r.cpus \subseteq CpuIds
  /\ DOMAIN r.scans = DOMAIN m /\ DOMAIN m \subseteq r.cpus
  /\ \A c \in DOMAIN m :
       m[c] \in Outcomes /\ r.scans[c] \in RowType /\ SameButClass(r.scans[c], ScanOf(m[c]))

(* What it says of the machine is what was found. *)
FactsAgree(r, same) ==
  /\ r.machine \in MachineType
  /\ r.environment = Environment(r.machine) /\ r.sensors = Sensors(r.machine)
  /\ same => \A c \in r.cpus : r.cores[c] = CoreKey(c, r.cpus)

(* Its results are those of its scans, if it has them. *)
IsAnalyzed(r) ==
  IF r.scan_ran
  THEN ClassesAreRight(r.scans) /\ r.policy = PolicyOf(r) /\ r.findings = FindingsOf(r)
  ELSE /\ r.policy = [NoPolicy EXCEPT !.warnings = MachineWarnings(r.machine, r.cpus)]
       /\ r.findings = MachineFindings(r)

(* It names the CPUs that dropped against the file. *)
IsCompared(r, file) ==
  /\ r.baseline.affected = AffectedCpus(file, r.scans)
  /\ r.baseline.affected # {} => r.baseline.pressure

IInv ==
  /\ Control
  /\ SavedIsReadable
  /\ RowsAgree(report, measured)
  /\ report.policy \in PolicyType
  /\ report.baseline.affected \subseteq report.cpus
  /\ pc \in {"scan", "baseline", "write"} => FactsAgree(report, steady)
  /\ pc \in {"baseline", "write"} => IsAnalyzed(report)
  /\ pc = "write" /\ report.scan_ran /\ options.baseline => IsCompared(report, saved)

----------------------------------------------------------------------------
(* Every warning is one of those there are. *)
LEMMA WhenIsTyped == \A b, w, x : x \in When(b, w) => x = w
BY Zenon DEF When

LEMMA WarningsAreKnown ==
  ASSUME NEW m, NEW cpus
  PROVE  MachineWarnings(m, cpus) \in SUBSET Warnings
<1>1. \A x \in MachineWarnings(m, cpus) :
        x \in {"limited_hardware_evidence", "partial_hardware_evidence", "smt_active",
              "powersave_governor", "existing_isolation", "no_persistent_hugepages",
              "thp_always_enabled", "swap_configured"}
  BY WhenIsTyped DEF MachineWarnings
<1>. QED BY <1>1 DEF Warnings

(* A policy lists CPUs there are. *)
LEMMA PoliciesAreTyped ==
  ASSUME NEW r, DOMAIN r.scans \in SUBSET CpuIds
  PROVE  PolicyOf(r) \in PolicyType
<1> DEFINE warnings == PolicyOf(r).warnings
           primary == PrimaryCandidates(r.scans, r.cores)
           secondary == FirstCpus(CleanHigher(r.scans), SecondaryLimit)
<1>1. \A x \in warnings :
        x \in MachineWarnings(r.machine, r.cpus) \cup
              {"smi_contaminated_windows_detected", "lower_throughput_cpu_class_detected",
               "short_scan_requires_longer_validation", "baseline_cpu_pressure_detected"}
  BY WhenIsTyped, Zenon DEF PolicyOf
<1>2. warnings \in SUBSET Warnings
  BY <1>1, WarningsAreKnown DEF Warnings
<1>3. primary \in SUBSET CpuIds
  BY DEF PrimaryCandidates, FirstCpus, FirstOfCores, CleanHigher
<1>4. secondary \in SUBSET CpuIds
  BY DEF FirstCpus, CleanHigher
<1>5. AvoidedCpus(r.scans) \in SUBSET CpuIds /\ Contaminated(r.scans) \in SUBSET CpuIds
  BY DEF AvoidedCpus, Contaminated, LowerClass
<1>6. PolicyOf(r) = [available |-> primary # {}, primary |-> primary, secondary |-> secondary,
                     avoid |-> AvoidedCpus(r.scans), contaminated |-> Contaminated(r.scans),
                     requires_longer_validation |-> r.duration < LongScan,
                     warnings |-> warnings]
  BY Zenon DEF PolicyOf
<1>. HIDE DEF primary, secondary, warnings
<1>. QED BY <1>2, <1>3, <1>4, <1>5, <1>6 DEF PolicyType

LEMMA NoPolicyIsTyped ==
  ASSUME NEW w \in SUBSET Warnings
  PROVE  [NoPolicy EXCEPT !.warnings = w] \in PolicyType
BY DEF NoPolicy, PolicyType

(* The CPUs that dropped are found by their rates. *)
LEMMA AffectedByRates ==
  ASSUME NEW a, NEW b, NEW file, DOMAIN a = DOMAIN b,
         \A c \in DOMAIN a : a[c].rate = b[c].rate
  PROVE  AffectedCpus(file, a) = AffectedCpus(file, b)
<1>1. Misread(file, a) = Misread(file, b) /\ OwnEntries(file, a) = OwnEntries(file, b)
  BY DEF Misread, OwnEntries
<1>2. OwnEntries(file, a) \in SUBSET DOMAIN a
  BY DEF OwnEntries
<1>. QED BY <1>1, <1>2 DEF AffectedCpus

(* The analysis leaves a report that still agrees with what was found and  *)
(* measured, and whose results are those of its scans.                     *)
LEMMA AnalysisIsFaithful ==
  ASSUME NEW r, NEW m, RowsAgree(r, m), NEW same, FactsAgree(r, same),
         NEW q, q = Analyze(r)
  PROVE  /\ RowsAgree(q, m) /\ FactsAgree(q, same) /\ SameFacts(q, r)
         /\ IsAnalyzed(q) /\ q.policy \in PolicyType
         /\ \A file : IsCompared(r, file) => IsCompared(q, file)
<1>1. CASE r.scan_ran = TRUE
  <2>1. /\ IsReport(q) /\ SameFacts(q, r) /\ q.scans = Classified(r.scans)
        /\ q.policy = PolicyOf(q) /\ q.findings = FindingsOf(q)
    BY <1>1, AnalyzeScanned DEF RowsAgree
  <2>2. AreScans(r.scans)
    BY DEF RowsAgree, AreScans
  <2>3. /\ DOMAIN q.scans = DOMAIN r.scans /\ AreScans(q.scans)
        /\ \A c \in DOMAIN r.scans : SameButClass(q.scans[c], r.scans[c])
        /\ ClassesAreRight(q.scans)
    BY <2>1, <2>2, ClassifiedIsRight, InspectionAssumption, DoctorAnalysisAssumption
  <2>4. RowsAgree(q, m)
    BY <2>1, <2>3 DEF RowsAgree, SameFacts, SameButClass, AreScans
  <2>5. FactsAgree(q, same)
    BY <2>1 DEF FactsAgree, SameFacts
  <2>6. IsAnalyzed(q)
    BY <1>1, <2>1, <2>3 DEF IsAnalyzed, SameFacts
  <2>7. q.policy \in PolicyType
    BY <2>1, <2>2, <2>3, PoliciesAreTyped DEF AreScans
  <2>8. ASSUME NEW file, IsCompared(r, file) PROVE IsCompared(q, file)
    <3>1. AffectedCpus(file, q.scans) = AffectedCpus(file, r.scans)
      BY <2>3, AffectedByRates DEF SameButClass
    <3>. QED BY <2>1, <2>8, <3>1 DEF IsCompared, SameFacts
  <2>. QED BY <2>1, <2>4, <2>5, <2>6, <2>7, <2>8
<1>2. CASE r.scan_ran = FALSE
  <2>1. /\ IsReport(q) /\ SameFacts(q, r) /\ q.scans = r.scans
        /\ q.policy = [NoPolicy EXCEPT !.warnings = MachineWarnings(r.machine, r.cpus)]
        /\ q.findings = MachineFindings(r)
    BY <1>2, AnalyzeUnscanned DEF RowsAgree
  <2>2. RowsAgree(q, m) /\ FactsAgree(q, same)
    BY <2>1 DEF RowsAgree, FactsAgree, SameFacts
  <2>3. IsAnalyzed(q)
    BY <1>2, <2>1 DEF IsAnalyzed, SameFacts, MachineFindings
  <2>4. q.policy \in PolicyType
    BY <2>1, WarningsAreKnown, NoPolicyIsTyped
  <2>5. \A file : IsCompared(r, file) => IsCompared(q, file)
    BY <2>1 DEF IsCompared, SameFacts
  <2>. QED BY <2>1, <2>2, <2>3, <2>4, <2>5
<1>. QED BY <1>1, <1>2 DEF RowsAgree

----------------------------------------------------------------------------
(* Before a scan there is nothing to agree with. *)
LEMMA NothingAgrees ==
  /\ RowsAgree(NoReport, <<>>) /\ NoReport.policy \in PolicyType
  /\ NoReport.baseline.affected \subseteq NoReport.cpus
<1>1. DOMAIN <<>> = {}
  OBVIOUS
<1>2. IsReport(NoReport)
  BY DEF IsReport, NoReport
<1>3. /\ NoReport.cpus = {} /\ NoReport.scans = <<>> /\ NoReport.scan_ran = FALSE
      /\ NoReport.policy = NoPolicy /\ NoReport.baseline = NoBaseline
  BY DEF NoReport
<1>4. NoPolicy \in PolicyType
  BY DEF NoPolicy, PolicyType
<1>5. NoBaseline.affected = {}
  BY DEF NoBaseline
<1>. QED BY <1>1, <1>2, <1>3, <1>4, <1>5 DEF RowsAgree

LEMMA InitHolds == Init => IInv
<1>. SUFFICES ASSUME Init PROVE IInv
  OBVIOUS
<1>1. /\ pc = "idle" /\ report = NoReport /\ measured = <<>> /\ saved = NoFile
      /\ options = NoOptions /\ exit_code = 0 /\ runs = 0
  BY DEF Init
<1>2. Control
  BY <1>1, DoctorAssumption DEF Control
<1>3. SavedIsReadable
  <2>1. saved.scan = <<>> /\ DOMAIN <<>> = {}
    BY <1>1 DEF NoFile
  <2>. QED BY <2>1 DEF SavedIsReadable
<1>. QED BY <1>1, <1>2, <1>3, NothingAgrees DEF IInv

(* A process that ended leaves no report but the one it wrote. *)
LEMMA ExitKeeps ==
  ASSUME NEW code \in {0, 1, Killed}, Exit(code), runs' \in 0 .. MaxRuns, SavedIsReadable'
  PROVE  IInv'
<1>1. /\ pc' = "idle" /\ report' = NoReport /\ measured' = <<>>
      /\ options' = NoOptions /\ exit_code' = code
  BY DEF Exit
<1>2. Control'
  BY <1>1 DEF Control
<1>. QED BY <1>1, <1>2, NothingAgrees DEF IInv

LEMMA StartKeeps == IInv /\ Start => IInv'
<1>. SUFFICES ASSUME IInv, Start PROVE IInv'
  OBVIOUS
<1>1. /\ pc = "idle" /\ runs' = runs + 1 /\ runs' \in 0 .. MaxRuns /\ runs' # 0
      /\ report = NoReport /\ measured = <<>> /\ saved' = saved
  BY DoctorAssumption DEF Start, IInv, Control
<1>2. SavedIsReadable'
  BY <1>1 DEF IInv, SavedIsReadable
<1>3. CASE \E code \in {0, 1} : Exit(code)
  BY <1>1, <1>2, <1>3, ExitKeeps
<1>4. ASSUME NEW o \in OptionsType,
             pc' = "inspect", options' = o, exit_code' = 0, UNCHANGED <<report, measured, steady>>
      PROVE  IInv'
  <2>1. Control'
    BY <1>1, <1>4 DEF Control
  <2>. QED BY <1>1, <1>2, <1>4, <2>1, NothingAgrees DEF IInv
<1>. QED BY <1>3, <1>4 DEF Start

(* What an inspection finds agrees with the machine, and the cores with    *)
(* the CPUs when these stayed the same.                                    *)
LEMMA InspectedIsFaithful ==
  ASSUME NEW m \in MachineType, NEW online \in SUBSET CpuIds,
         NEW during, DOMAIN during = ListedOnline(online),
         NEW same, same = (online = DOMAIN during /\ \A c \in online : during[c] = online),
         NEW r, r = Inspected(m, during)
  PROVE  /\ RowsAgree(r, <<>>) /\ FactsAgree(r, same) /\ IsAnalyzed(r)
         /\ r.policy \in PolicyType /\ r.scan_ran = FALSE
         /\ r.baseline.affected \subseteq r.cpus
<1> DEFINE cpus == DOMAIN during
           cores == [c \in cpus |-> CoreKey(c, during[c])]
           r1 == [NoReport EXCEPT !.machine = m]
           r2 == [r1 EXCEPT !.environment = Environment(m)]
           r3 == [r2 EXCEPT !.sensors = Sensors(m)]
           r4 == [r3 EXCEPT !.cpus = cpus]
           found == [r4 EXCEPT !.cores = cores]
<1>1. r = Analyze(found)
  BY DEF Inspected
<1>2. cpus \subseteq CpuIds
  BY DEF ListedOnline
<1>3. same => \A c \in cpus : cores[c] = CoreKey(c, cpus)
  OBVIOUS
<1>. HIDE DEF cpus, cores
<1>4. /\ IsReport(found)
      /\ found.machine = m /\ found.environment = Environment(m) /\ found.sensors = Sensors(m)
      /\ found.cpus = cpus /\ found.cores = cores
      /\ found.scan_ran = FALSE /\ found.scans = <<>> /\ found.baseline = NoBaseline
  <2>0. /\ IsReport(NoReport)
        /\ NoReport.scan_ran = FALSE /\ NoReport.scans = <<>>
        /\ NoReport.baseline = NoBaseline
    BY DEF IsReport, NoReport
  <2>1. /\ IsReport(r1) /\ r1.machine = m
        /\ r1.scan_ran = FALSE /\ r1.scans = <<>> /\ r1.baseline = NoBaseline
    BY <2>0 DEF IsReport
  <2>. HIDE DEF r1
  <2>2. /\ IsReport(r2) /\ r2.machine = m /\ r2.environment = Environment(m)
        /\ r2.scan_ran = FALSE /\ r2.scans = <<>> /\ r2.baseline = NoBaseline
    BY <2>1 DEF IsReport
  <2>. HIDE DEF r2
  <2>3. /\ IsReport(r3) /\ r3.machine = m /\ r3.environment = Environment(m)
        /\ r3.sensors = Sensors(m)
        /\ r3.scan_ran = FALSE /\ r3.scans = <<>> /\ r3.baseline = NoBaseline
    BY <2>2 DEF IsReport
  <2>. HIDE DEF r3
  <2>4. /\ IsReport(r4) /\ r4.machine = m /\ r4.environment = Environment(m)
        /\ r4.sensors = Sensors(m) /\ r4.cpus = cpus
        /\ r4.scan_ran = FALSE /\ r4.scans = <<>> /\ r4.baseline = NoBaseline
    BY <2>3 DEF IsReport
  <2>. HIDE DEF r4
  <2>. QED BY <2>4 DEF IsReport
<1>. HIDE DEF found
<1>5. RowsAgree(found, <<>>) /\ FactsAgree(found, same)
  <2>1. DOMAIN <<>> = {}
    OBVIOUS
  <2>. QED BY <1>2, <1>3, <1>4, <2>1 DEF RowsAgree, FactsAgree
<1>7. /\ RowsAgree(r, <<>>) /\ FactsAgree(r, same) /\ SameFacts(r, found)
      /\ IsAnalyzed(r) /\ r.policy \in PolicyType
  BY <1>1, <1>5, AnalysisIsFaithful
<1>8. r.scan_ran = FALSE /\ r.baseline.affected = {}
  BY <1>4, <1>7 DEF SameFacts, NoBaseline
<1>. QED BY <1>7, <1>8

LEMMA InspectKeeps == IInv /\ Inspect => IInv'
<1>. SUFFICES ASSUME IInv, Inspect PROVE IInv'
  OBVIOUS
<1>0. PICK m \in Machines[runs], online \in OnlineSets[runs] :
        \E during \in [ListedOnline(online) -> OnlineSets[runs]] :
          /\ steady' = (online = DOMAIN during /\ \A c \in online : during[c] = online)
          /\ report' = IF options.scan
                       THEN [Inspected(m, during) EXCEPT
                               !.duration = options.duration, !.scan_ran = TRUE]
                       ELSE Inspected(m, during)
  BY DEF Inspect
<1>1. PICK during \in [ListedOnline(online) -> OnlineSets[runs]] :
        /\ steady' = (online = DOMAIN during /\ \A c \in online : during[c] = online)
        /\ report' = IF options.scan
                     THEN [Inspected(m, during) EXCEPT
                             !.duration = options.duration, !.scan_ran = TRUE]
                     ELSE Inspected(m, during)
  BY <1>0
<1>2. /\ pc = "inspect" /\ pc' = (IF options.scan THEN "scan" ELSE "write")
      /\ UNCHANGED <<options, measured, saved, exit_code, runs>>
      /\ measured = <<>> /\ runs \in 1 .. MaxRuns /\ SavedIsReadable
  BY DoctorAssumption DEF Inspect, IInv, Control
<1>3. m \in MachineType /\ online \in SUBSET CpuIds
  BY <1>2, DoctorAssumption
<1>4. PICK r : r = Inspected(m, during)
  OBVIOUS
<1>5. /\ RowsAgree(r, <<>>) /\ FactsAgree(r, steady') /\ IsAnalyzed(r)
      /\ r.policy \in PolicyType /\ r.scan_ran = FALSE
      /\ r.baseline.affected \subseteq r.cpus
  BY <1>1, <1>3, <1>4, InspectedIsFaithful
<1>6. SavedIsReadable'
  BY <1>2 DEF SavedIsReadable
<1>7. CASE options.scan
  <2>1. report' = [r EXCEPT !.duration = options.duration, !.scan_ran = TRUE]
    BY <1>1, <1>4, <1>7
  <2>2. /\ IsReport(report') /\ report'.cpus = r.cpus /\ report'.scans = r.scans
        /\ report'.machine = r.machine /\ report'.environment = r.environment
        /\ report'.sensors = r.sensors /\ report'.cores = r.cores
        /\ report'.policy = r.policy /\ report'.baseline = r.baseline
        /\ report'.scan_ran = TRUE
    BY <1>5, <2>1 DEF RowsAgree, IsReport
  <2>3. RowsAgree(report', <<>>)
    BY <1>5, <2>2 DEF RowsAgree
  <2>4. FactsAgree(report', steady')
    BY <1>5, <2>2 DEF FactsAgree
  <2>5. Control'
    BY <1>2, <1>7, <2>2 DEF IInv, Control
  <2>6. pc' = "scan" /\ measured' = <<>>
    BY <1>2, <1>7
  <2>. QED BY <1>5, <1>6, <2>2, <2>3, <2>4, <2>5, <2>6 DEF IInv
<1>8. CASE ~options.scan
  <2>1. report' = r /\ pc' = "write" /\ measured' = <<>>
    BY <1>1, <1>2, <1>4, <1>8
  <2>2. Control'
    BY <1>2, <2>1 DEF IInv, Control
  <2>. QED BY <1>5, <1>6, <2>1, <2>2 DEF IInv
<1>. QED BY <1>7, <1>8

(* The row of a CPU has what was measured. *)
LEMMA RowsAreTyped ==
  ASSUME NEW m \in Outcomes
  PROVE  ScanOf(m) \in RowType
<1>1. m \in OutcomeType
  BY DoctorAssumption
<1>2. CASE m.status = "VIS_OK"
  <2>1. IsClean(m) \in BOOLEAN
    BY <1>1 DEF OutcomeType, IsClean
  <2>. QED BY <1>1, <1>2, <2>1 DEF OutcomeType, ScanOf, RowType
<1>3. CASE m.status # "VIS_OK"
  BY <1>1, <1>3 DEF OutcomeType, ScanOf, RowType
<1>. QED BY <1>2, <1>3

LEMMA ScanCpuKeeps == IInv /\ ScanCpu => IInv'
<1>. SUFFICES ASSUME IInv, ScanCpu PROVE IInv'
  OBVIOUS
<1>1. PICK c \in FirstCpus(Unscanned, 1), m \in Outcomes :
        /\ report' = [report EXCEPT !.scans = WithRow(@, c, ScanOf(m))]
        /\ measured' = WithRow(measured, c, m)
  BY DEF ScanCpu
<1>2. /\ pc = "scan" /\ UNCHANGED <<pc, options, steady, saved, exit_code, runs>>
      /\ SavedIsReadable /\ FactsAgree(report, steady) /\ RowsAgree(report, measured)
      /\ report.policy \in PolicyType /\ report.baseline.affected \subseteq report.cpus
  BY DEF ScanCpu, IInv
<1>3. c \in report.cpus
  BY <1>1 DEF FirstCpus, Unscanned
<1> DEFINE scans == WithRow(report.scans, c, ScanOf(m))
<1>4. /\ DOMAIN scans = {c} \cup DOMAIN report.scans
      /\ DOMAIN measured' = {c} \cup DOMAIN measured
      /\ scans[c] = ScanOf(m) /\ measured'[c] = m
      /\ \A d \in DOMAIN report.scans \ {c} : scans[d] = report.scans[d]
      /\ \A d \in DOMAIN measured \ {c} : measured'[d] = measured[d]
  BY <1>1 DEF WithRow
<1>. HIDE DEF scans
<1>5. /\ IsReport(report') /\ report'.scans = scans
      /\ report'.machine = report.machine /\ report'.environment = report.environment
      /\ report'.sensors = report.sensors /\ report'.cpus = report.cpus
      /\ report'.cores = report.cores /\ report'.scan_ran = report.scan_ran
      /\ report'.policy = report.policy /\ report'.baseline = report.baseline
  <2>1. report' = [report EXCEPT !.scans = scans]
    BY <1>1 DEF scans
  <2>. QED BY <1>2, <2>1 DEF RowsAgree, IsReport
<1>6. RowsAgree(report', measured')
  <2>1. \A d \in DOMAIN measured' :
          /\ measured'[d] \in Outcomes /\ scans[d] \in RowType
          /\ SameButClass(scans[d], ScanOf(measured'[d]))
    <3>. SUFFICES ASSUME NEW d \in DOMAIN measured'
                  PROVE  /\ measured'[d] \in Outcomes /\ scans[d] \in RowType
                         /\ SameButClass(scans[d], ScanOf(measured'[d]))
      OBVIOUS
    <3>1. CASE d = c
      BY <1>4, <3>1, RowsAreTyped DEF SameButClass
    <3>2. CASE d # c
      <4>1. measured'[d] = measured[d] /\ scans[d] = report.scans[d] /\ d \in DOMAIN measured
        BY <1>2, <1>4, <3>2 DEF RowsAgree
      <4>. QED BY <1>2, <4>1 DEF RowsAgree
    <3>. QED BY <3>1, <3>2
  <2>2. DOMAIN scans = DOMAIN measured' /\ DOMAIN measured' \subseteq report.cpus
    BY <1>2, <1>3, <1>4 DEF RowsAgree
  <2>. QED BY <1>2, <1>5, <2>1, <2>2 DEF RowsAgree
<1>7. FactsAgree(report', steady')
  BY <1>2, <1>5 DEF FactsAgree
<1>8. Control' /\ SavedIsReadable'
  BY <1>2, <1>5 DEF IInv, Control, SavedIsReadable
<1>. QED BY <1>2, <1>5, <1>6, <1>7, <1>8 DEF IInv

LEMMA IllegalInstructionKeeps == IInv /\ IllegalInstruction => IInv'
<1>. SUFFICES ASSUME IInv, IllegalInstruction PROVE IInv'
  OBVIOUS
<1>1. Exit(Killed) /\ saved' = saved /\ runs' = runs /\ runs \in 0 .. MaxRuns
  BY DEF IllegalInstruction, IInv, Control
<1>2. SavedIsReadable'
  BY <1>1 DEF IInv, SavedIsReadable
<1>. QED BY <1>1, <1>2, ExitKeeps

LEMMA FinishScanKeeps == IInv /\ FinishScan => IInv'
<1>. SUFFICES ASSUME IInv, FinishScan PROVE IInv'
  OBVIOUS
<1>1. /\ pc = "scan" /\ report' = Analyze(report)
      /\ pc' = (IF options.baseline THEN "baseline" ELSE "write")
      /\ UNCHANGED <<options, measured, steady, saved, exit_code, runs>>
  BY DEF FinishScan
<1>2. /\ RowsAgree(report, measured) /\ FactsAgree(report, steady)
      /\ report.baseline.affected \subseteq report.cpus /\ report.scan_ran
  BY <1>1 DEF IInv, Control
<1>3. /\ RowsAgree(report', measured) /\ FactsAgree(report', steady)
      /\ SameFacts(report', report) /\ IsAnalyzed(report') /\ report'.policy \in PolicyType
  BY <1>1, <1>2, AnalysisIsFaithful
<1>4. report'.baseline.affected \subseteq report'.cpus /\ report'.scan_ran
  BY <1>2, <1>3 DEF SameFacts
<1>5. Control' /\ SavedIsReadable'
  BY <1>1, <1>4 DEF IInv, Control, SavedIsReadable
<1>6. ~(pc' = "write" /\ options'.baseline)
  BY <1>1
<1>. QED BY <1>1, <1>3, <1>4, <1>5, <1>6 DEF IInv

LEMMA LoadBaselineKeeps == IInv /\ LoadBaseline => IInv'
<1>. SUFFICES ASSUME IInv, LoadBaseline PROVE IInv'
  OBVIOUS
<1>1. /\ pc = "baseline" /\ UNCHANGED <<saved, runs>> /\ runs \in 0 .. MaxRuns
      /\ RowsAgree(report, measured) /\ FactsAgree(report, steady) /\ report.scan_ran
  BY DEF LoadBaseline, IInv, Control
<1>2. SavedIsReadable'
  BY <1>1 DEF IInv, SavedIsReadable
<1>3. CASE CanCompare(saved, report.scans)
  <2>1. PICK b : b = BaselineOf(saved, report.scans)
    OBVIOUS
  <2>2. PICK r : r = [report EXCEPT !.baseline = b]
    OBVIOUS
  <2>3. /\ report' = Analyze(r) /\ pc' = "write"
        /\ UNCHANGED <<options, measured, steady, exit_code>>
    BY <1>3, <2>1, <2>2 DEF LoadBaseline
  <2>4. b.affected = AffectedCpus(saved, report.scans) /\ (b.affected # {} => b.pressure)
    BY <2>1, Zenon DEF BaselineOf
  <2>5. /\ IsReport(r) /\ r.baseline = b /\ r.scans = report.scans
        /\ r.machine = report.machine /\ r.environment = report.environment
        /\ r.sensors = report.sensors /\ r.cpus = report.cpus
        /\ r.cores = report.cores /\ r.scan_ran = report.scan_ran
    BY <1>1, <2>2 DEF RowsAgree, IsReport
  <2>6. RowsAgree(r, measured) /\ FactsAgree(r, steady) /\ IsCompared(r, saved)
    BY <1>1, <2>4, <2>5 DEF RowsAgree, FactsAgree, IsCompared
  <2>7. /\ RowsAgree(report', measured) /\ FactsAgree(report', steady)
        /\ SameFacts(report', r) /\ IsAnalyzed(report') /\ report'.policy \in PolicyType
        /\ IsCompared(report', saved)
    BY <2>3, <2>6, AnalysisIsFaithful
  <2>8. report'.baseline.affected \subseteq report'.cpus
    <3>1. AffectedCpus(saved, report.scans) \subseteq DOMAIN report.scans
      BY DEF AffectedCpus, OwnEntries
    <3>. QED BY <1>1, <2>4, <2>5, <2>7, <3>1 DEF SameFacts, RowsAgree
  <2>9. Control'
    BY <1>1, <2>3 DEF IInv, Control
  <2>. QED BY <1>1, <1>2, <2>3, <2>7, <2>8, <2>9 DEF IInv
<1>4. CASE ~CanCompare(saved, report.scans)
  <2>1. Exit(1)
    BY <1>4 DEF LoadBaseline
  <2>. QED BY <1>1, <1>2, <2>1, ExitKeeps
<1>. QED BY <1>3, <1>4

LEMMA WriteKeeps == IInv /\ Write => IInv'
<1>. SUFFICES ASSUME IInv, Write PROVE IInv'
  OBVIOUS
<1>1. PICK code \in {0, 1} : Exit(code)
  BY DEF Write
<1>2. runs' \in 0 .. MaxRuns
  BY DEF Write, IInv, Control
<1>3. SavedIsReadable'
  <2>1. CASE saved' = saved
    BY <2>1 DEF IInv, SavedIsReadable
  <2>2. ASSUME NEW n, saved' = SavedReport(report, n) PROVE SavedIsReadable'
    <3>1. saved'.scan = [c \in FirstCpus(DOMAIN report.scans, n) |-> report.scans[c].rate]
      BY <2>2 DEF SavedReport
    <3>2. FirstCpus(DOMAIN report.scans, n) \subseteq DOMAIN report.scans
      BY DEF FirstCpus
    <3>3. /\ DOMAIN report.scans \subseteq CpuIds
          /\ \A c \in DOMAIN report.scans : report.scans[c].rate \in Nat
      BY DEF IInv, RowsAgree, RowType
    <3>. QED BY <3>1, <3>2, <3>3 DEF SavedIsReadable
  <2>. QED BY <2>1, <2>2 DEF Write
<1>. QED BY <1>1, <1>2, <1>3, ExitKeeps

LEMMA NextKeeps == IInv /\ [Next]_vars => IInv'
<1>1. IInv /\ UNCHANGED vars => IInv'
  BY DEF vars, IInv, Control, SavedIsReadable
<1>. QED
  BY <1>1, StartKeeps, InspectKeeps, ScanCpuKeeps, IllegalInstructionKeeps,
     FinishScanKeeps, LoadBaselineKeeps, WriteKeeps DEF Next

THEOREM Invariance == Spec => []IInv
BY InitHolds, NextKeeps, PTL DEF Spec

----------------------------------------------------------------------------
(* What a row says of a run that succeeded, and of one that did not. *)
LEMMA RowsSayWhatWasMeasured ==
  ASSUME IInv, NEW c \in DOMAIN measured
  PROVE  /\ measured[c].rate \in Nat /\ measured[c].contaminated \in Nat
         /\ report.scans[c].rate \in Nat /\ report.scans[c].contaminated \in Nat
         /\ report.scans[c].rate = IF Succeeded(c) THEN measured[c].rate ELSE 0
         /\ report.scans[c].contaminated = IF Succeeded(c) THEN measured[c].contaminated ELSE 0
         /\ report.scans[c].clean <=> Succeeded(c) /\ IsClean(measured[c])
<1>1. /\ measured[c] \in OutcomeType /\ report.scans[c] \in RowType
      /\ SameButClass(report.scans[c], ScanOf(measured[c]))
  BY DoctorAssumption DEF IInv, RowsAgree
<1>2. IsClean(measured[c]) \in BOOLEAN
  BY <1>1 DEF OutcomeType, IsClean
<1>3. CASE Succeeded(c)
  BY <1>1, <1>2, <1>3 DEF Succeeded, ScanOf, SameButClass, OutcomeType, RowType
<1>4. CASE ~Succeeded(c)
  BY <1>1, <1>2, <1>4 DEF Succeeded, ScanOf, SameButClass, OutcomeType, RowType
<1>. QED BY <1>3, <1>4

(* The rows that the analysis makes candidates are those of the fit CPUs.  *)
LEMMA CandidatesAreFit ==
  ASSUME IInv, Reporting
  PROVE  CleanHigher(report.scans) = {c \in DOMAIN measured : Fit(c)}
<1>1. /\ ClassesAreRight(report.scans) /\ DOMAIN report.scans = DOMAIN measured
  BY DEF IInv, Reporting, IsAnalyzed, RowsAgree
<1>2. ASSUME NEW c \in DOMAIN measured
      PROVE  (report.scans[c].clean /\ report.scans[c].class # Lower) <=> Fit(c)
  <2>1. report.scans[c].clean <=> Succeeded(c) /\ IsClean(measured[c])
    BY RowsSayWhatWasMeasured
  <2>2. report.scans[c].class # Lower <=>
          \A d \in DOMAIN measured : report.scans[d].rate <= 2 * report.scans[c].rate
    BY <1>1 DEF ClassesAreRight
  <2>3. ASSUME Succeeded(c)
        PROVE  (\A d \in DOMAIN measured : report.scans[d].rate <= 2 * report.scans[c].rate)
               <=> \A d \in DOMAIN measured :
                     Succeeded(d) => 2 * measured[c].rate >= measured[d].rate
    <3>1. report.scans[c].rate = measured[c].rate /\ measured[c].rate \in Nat
      BY <2>3, RowsSayWhatWasMeasured
    <3>2. ASSUME NEW d \in DOMAIN measured
          PROVE  report.scans[d].rate <= 2 * measured[c].rate
                 <=> (Succeeded(d) => 2 * measured[c].rate >= measured[d].rate)
      <4>1. /\ report.scans[d].rate = (IF Succeeded(d) THEN measured[d].rate ELSE 0)
            /\ measured[d].rate \in Nat
        BY RowsSayWhatWasMeasured
      <4>2. CASE Succeeded(d)
        BY <3>1, <4>1, <4>2
      <4>3. CASE ~Succeeded(d)
        BY <3>1, <4>1, <4>3
      <4>. QED BY <4>2, <4>3
    <3>. QED BY <3>1, <3>2
  <2>. QED BY <2>1, <2>2, <2>3 DEF Fit, IsClean
<1>. QED BY <1>1, <1>2 DEF CleanHigher

(* The lists of the policy of a report. *)
LEMMA PolicyLists ==
  ASSUME IInv, Reporting
  PROVE  /\ report.policy.primary = PrimaryCandidates(report.scans, report.cores)
         /\ report.policy.secondary = FirstCpus(CleanHigher(report.scans), SecondaryLimit)
         /\ report.policy.avoid = AvoidedCpus(report.scans)
         /\ report.policy.contaminated = Contaminated(report.scans)
         /\ report.policy.available = (report.policy.primary # {})
         /\ report.policy.primary \cup report.policy.secondary \subseteq CleanHigher(report.scans)
<1>1. report.policy = PolicyOf(report)
  BY DEF IInv, Reporting, IsAnalyzed
<1> DEFINE short == report.duration < LongScan
           primary == PrimaryCandidates(report.scans, report.cores)
           secondary == FirstCpus(CleanHigher(report.scans), SecondaryLimit)
           available == primary # {}
           warnings == PolicyOf(report).warnings
<1>2. report.policy =
        [available |-> available, primary |-> primary, secondary |-> secondary,
         avoid |-> AvoidedCpus(report.scans), contaminated |-> Contaminated(report.scans),
         requires_longer_validation |-> short, warnings |-> warnings]
  BY <1>1, Zenon DEF PolicyOf
<1>4. /\ report.policy.primary = primary /\ report.policy.secondary = secondary
      /\ report.policy.avoid = AvoidedCpus(report.scans)
      /\ report.policy.contaminated = Contaminated(report.scans)
      /\ report.policy.available = available
  <2>. HIDE DEF short, primary, secondary, available, warnings
  <2>. QED BY <1>2
<1>3. /\ PrimaryCandidates(report.scans, report.cores) \subseteq CleanHigher(report.scans)
      /\ FirstCpus(CleanHigher(report.scans), SecondaryLimit) \subseteq CleanHigher(report.scans)
  BY DEF PrimaryCandidates, FirstCpus, FirstOfCores
<1>. QED BY <1>3, <1>4

(* A fit CPU is neither contaminated nor of the lower class. *)
LEMMA FitIsNotAvoided ==
  ASSUME IInv, Reporting, NEW c \in CleanHigher(report.scans)
  PROVE  c \notin report.policy.avoid \cup report.policy.contaminated
<1>1. c \in DOMAIN measured /\ report.scans[c].clean /\ report.scans[c].class # Lower
  BY DEF CleanHigher, IInv, RowsAgree
<1>2. report.scans[c].contaminated = 0
  <2>1. Succeeded(c) /\ IsClean(measured[c])
    BY <1>1, RowsSayWhatWasMeasured
  <2>2. report.scans[c].contaminated = measured[c].contaminated
    BY <1>1, <2>1, RowsSayWhatWasMeasured
  <2>. QED BY <2>1, <2>2 DEF IsClean
<1>3. c \notin LowerClass(report.scans) /\ c \notin Contaminated(report.scans)
  BY <1>1, <1>2 DEF LowerClass, Contaminated
<1>. QED BY <1>3, PolicyLists DEF AvoidedCpus

(* Every CPU a policy assigns was measured fit in this very scan, and no   *)
(* list contradicts another (clean_higher_throughput_scans,                *)
(* vis_doctor_analyze).                                                    *)
THEOREM AssignedCpusAreFit == Spec => []PolicyIsSafe
<1>1. IInv => PolicyIsSafe
  <2>. SUFFICES ASSUME IInv, Reporting,
                       NEW c \in report.policy.primary \cup report.policy.secondary
                PROVE  /\ c \in DOMAIN measured /\ Fit(c)
                       /\ c \notin report.policy.avoid \cup report.policy.contaminated
    BY DEF PolicyIsSafe
  <2>1. c \in CleanHigher(report.scans)
    BY PolicyLists
  <2>. QED BY <2>1, CandidatesAreFit, FitIsNotAvoided
<1>. QED BY <1>1, Invariance, PTL

(* The primary list has one CPU of each core with a fit one, the lowest,   *)
(* until it is full (sibling_aware_primary_candidates, physical_core_key). *)
THEOREM PrimaryHasOneOfEachCore == Spec => []PrimaryIsSiblingAware
<1>1. IInv => PrimaryIsSiblingAware
  <2>. SUFFICES ASSUME IInv, Reporting, steady
                PROVE  LET p == report.policy.primary IN
                       /\ \A c, d \in p : c # d => CoreOf[c] # CoreOf[d]
                       /\ \A c \in DOMAIN measured \ p :
                            Fit(c) => \/ \E d \in p : d < c /\ CoreOf[d] = CoreOf[c]
                                      \/ /\ Cardinality(p) = PrimaryLimit
                                         /\ \A d \in p : d < c
    BY DEF PrimaryIsSiblingAware
  <2> DEFINE p == report.policy.primary
             S == CleanHigher(report.scans)
             key == report.cores
  <2>1. AreScans(report.scans) /\ DOMAIN report.scans \subseteq report.cpus
    BY DEF IInv, RowsAgree, AreScans
  <2>2. p = PrimaryCandidates(report.scans, key) /\ p \subseteq S
    BY PolicyLists
  <2>3. S = {c \in DOMAIN measured : Fit(c)} /\ S \subseteq report.cpus
    BY <2>1, CandidatesAreFit DEF CleanHigher
  <2>4. \A c \in report.cpus : key[c] = CoreKey(c, report.cpus)
    BY DEF IInv, FactsAgree, Reporting
  <2>5. \A c, d \in report.cpus : key[c] = key[d] <=> CoreOf[c] = CoreOf[d]
    BY <2>4 DEF CoreKey
  <2>6. /\ \A c, d \in p : c # d => key[c] # key[d]
        /\ \A c \in S \ p :
             \/ \E d \in p : d < c /\ key[d] = key[c]
             \/ Cardinality(p) = PrimaryLimit /\ \A d \in p : d < c
    BY <2>1, <2>2, OneOfEachCore, InspectionAssumption, DoctorAnalysisAssumption
  <2>. HIDE DEF p, S, key
  <2>7. /\ \A c, d \in p : c # d => CoreOf[c] # CoreOf[d]
        /\ \A c \in DOMAIN measured \ p :
             Fit(c) => \/ \E d \in p : d < c /\ CoreOf[d] = CoreOf[c]
                       \/ Cardinality(p) = PrimaryLimit /\ \A d \in p : d < c
    BY <2>2, <2>3, <2>5, <2>6
  <2>. QED BY <2>7 DEF p
<1>. QED BY <1>1, Invariance, PTL

(* vis-run accepts both lists of a policy that calls itself available, and *)
(* none of another (vis_doctor_analyze against vis_run_select_cpus).       *)
THEOREM AvailablePoliciesAreUsable == Spec => []PolicyIsUsable
<1>1. IInv => PolicyIsUsable
  <2>. SUFFICES ASSUME IInv, pc = "write", NEW source \in {"primary", "secondary"}
                PROVE  report.policy.available <=> Selectable(report.policy, source)
    BY DEF PolicyIsUsable
  <2>1. CASE ~report.scan_ran
    <3>1. report.policy.available = FALSE
      BY <2>1 DEF IInv, IsAnalyzed, NoPolicy
    <3>. QED BY <3>1 DEF Selectable, ListedCpus
  <2>2. CASE report.scan_ran
    <3>1. Reporting
      BY <2>2 DEF Reporting
    <3> DEFINE S == CleanHigher(report.scans)
               p == report.policy.primary
               q == report.policy.secondary
    <3>2. S \in SUBSET CpuIds
      BY DEF CleanHigher, IInv, RowsAgree
    <3>3. /\ q = FirstCpus(S, SecondaryLimit) /\ report.policy.available = (p # {})
          /\ p \cup q \subseteq S
      BY <3>1, PolicyLists
    <3>4. p # {} => q # {}
      <4>1. S # {} => FirstCpus(S, SecondaryLimit) # {}
        <5>. HIDE DEF S
        <5>. QED BY <3>2, FirstCpusNonempty, InspectionAssumption, DoctorAnalysisAssumption
      <4>. QED BY <3>3, <4>1
    <3>5. (p \cup q) \cap report.policy.contaminated = {}
      BY <3>1, <3>3, FitIsNotAvoided
    <3>6. CASE source = "primary"
      BY <3>3, <3>5, <3>6 DEF Selectable, ListedCpus
    <3>7. CASE source = "secondary"
      BY <3>3, <3>4, <3>5, <3>7 DEF Selectable, ListedCpus
    <3>. QED BY <3>6, <3>7
  <2>. QED BY <2>1, <2>2
<1>. QED BY <1>1, Invariance, PTL

(* The warnings of a policy. *)
LEMMA PolicyWarnings ==
  ASSUME NEW r
  PROVE  PolicyOf(r).warnings =
           MachineWarnings(r.machine, r.cpus)
           \cup When(Contaminated(r.scans) # {}, "smi_contaminated_windows_detected")
           \cup When(LowerClass(r.scans) # {}, "lower_throughput_cpu_class_detected")
           \cup When(r.duration < LongScan, "short_scan_requires_longer_validation")
           \cup When(r.baseline.pressure, "baseline_cpu_pressure_detected")
<1> DEFINE p == PolicyOf(r)
           short == r.duration < LongScan
           primary == PrimaryCandidates(r.scans, r.cores)
           secondary == FirstCpus(CleanHigher(r.scans), SecondaryLimit)
           available == primary # {}
           warnings == MachineWarnings(r.machine, r.cpus)
             \cup When(Contaminated(r.scans) # {}, "smi_contaminated_windows_detected")
             \cup When(LowerClass(r.scans) # {}, "lower_throughput_cpu_class_detected")
             \cup When(short, "short_scan_requires_longer_validation")
             \cup When(r.baseline.pressure, "baseline_cpu_pressure_detected")
<1>1. p = [available |-> available, primary |-> primary, secondary |-> secondary,
           avoid |-> AvoidedCpus(r.scans), contaminated |-> Contaminated(r.scans),
           requires_longer_validation |-> short, warnings |-> warnings]
  BY Zenon DEF PolicyOf
<1>2. p.warnings = warnings
  <2>. HIDE DEF p, short, primary, secondary, available, warnings
  <2>. QED BY <1>1
<1>. QED BY <1>2

LEMMA WhenHolds == \A b, w : b => w \in When(b, w)
BY Zenon DEF When

(* A CPU whose successful scan met contaminated windows is avoided, warned *)
(* of, a finding, and an event in every attestation (vis_doctor_analyze,   *)
(* add_policy_warning_events).                                             *)
THEOREM ContaminationIsExplicit == Spec => []MeasuredContaminationIsExplicit
<1>1. IInv => MeasuredContaminationIsExplicit
  <2>. SUFFICES ASSUME IInv, Reporting, NEW c \in DOMAIN measured,
                       Succeeded(c), measured[c].contaminated > 0
                PROVE  /\ c \in report.policy.avoid \cap report.policy.contaminated
                       /\ WarningEvent.smi_contaminated_windows_detected
                             \in PolicyEvents(report.policy)
                       /\ \E f \in report.findings : f[1] = "smi" /\ c \in f[2]
    BY DEF MeasuredContaminationIsExplicit
  <2>1. c \in Contaminated(report.scans)
    <3>1. report.scans[c].contaminated = measured[c].contaminated
      BY RowsSayWhatWasMeasured
    <3>. QED BY <3>1 DEF Contaminated, IInv, RowsAgree
  <2>2. Contaminated(report.scans) # {}
    BY <2>1
  <2>3. c \in report.policy.avoid \cap report.policy.contaminated
    BY <2>1, PolicyLists DEF AvoidedCpus
  <2>4. "smi_contaminated_windows_detected" \in report.policy.warnings
    BY <2>2, WhenHolds, PolicyWarnings, Zenon DEF IInv, Reporting, IsAnalyzed
  <2>5. WarningEvent.smi_contaminated_windows_detected \in PolicyEvents(report.policy)
    <3>1. "smi_contaminated_windows_detected" \in DOMAIN WarningEvent
      BY DEF WarningEvent
    <3>2. WarningEvent["smi_contaminated_windows_detected"] \in PolicyEvents(report.policy)
      BY <2>4, <3>1, Zenon DEF PolicyEvents
    <3>. QED BY <3>2
  <2>6. <<"smi", Contaminated(report.scans)>> \in report.findings
    BY <2>2, WhenHolds, Zenon DEF IInv, Reporting, IsAnalyzed, FindingsOf
  <2>. QED BY <2>1, <2>3, <2>5, <2>6
<1>. QED BY <1>1, Invariance, PTL

(* A CPU that dropped by 40 % against the saved report is named, and the   *)
(* policy warns (vis_doctor_load_baseline).                                *)
THEOREM DropsAreReported == Spec => []DropIsReported
<1>1. IInv => DropIsReported
  <2>. SUFFICES ASSUME IInv, Reporting, options.baseline,
                       NEW c \in DOMAIN saved.scan \cap DOMAIN measured,
                       saved.scan[c] > 0, 5 * report.scans[c].rate <= 3 * saved.scan[c]
                PROVE  /\ "baseline_cpu_pressure_detected" \in report.policy.warnings
                       /\ \E f \in report.findings : f[1] = "cpu_pressure" /\ c \in f[2]
    BY DEF DropIsReported
  <2>1. IsCompared(report, saved) /\ DOMAIN report.scans = DOMAIN measured
    BY DEF IInv, Reporting, RowsAgree
  <2>2. Dropped(saved.scan[c], report.scans[c].rate)
    <3>1. saved.scan[c] \in Nat /\ report.scans[c].rate \in Nat
      BY RowsSayWhatWasMeasured DEF IInv, SavedIsReadable
    <3>. QED BY <3>1 DEF Dropped
  <2>3. c \in report.baseline.affected
    BY <2>1, <2>2 DEF IsCompared, AffectedCpus, OwnEntries
  <2>4. report.baseline.pressure
    BY <2>1, <2>3 DEF IsCompared
  <2>5. "baseline_cpu_pressure_detected" \in report.policy.warnings
    BY <2>4, WhenHolds, PolicyWarnings, Zenon DEF IInv, Reporting, IsAnalyzed
  <2>6. <<"cpu_pressure", report.baseline.affected>> \in report.findings
    BY <2>4, WhenHolds, Zenon DEF IInv, Reporting, IsAnalyzed, FindingsOf
  <2>. QED BY <2>3, <2>5, <2>6
<1>. QED BY <1>1, Invariance, PTL

(* What a report that is written warns of the machine. *)
LEMMA HardwareWarnings ==
  ASSUME IInv, pc = "write", NEW w \in {"limited_hardware_evidence", "partial_hardware_evidence"}
  PROVE  /\ w \in report.policy.warnings <=>
              w \in MachineWarnings(report.machine, report.cpus)
         /\ w \in report.policy.warnings => <<w, {}>> \in report.findings
<1> DEFINE mine == MachineWarnings(report.machine, report.cpus)
<1>1. CASE report.scan_ran
  <2>1. report.policy = PolicyOf(report) /\ report.findings = FindingsOf(report)
    BY <1>1 DEF IInv, IsAnalyzed
  <2>2. mine \subseteq report.policy.warnings
    BY <2>1, PolicyWarnings
  <2>3. w \in report.policy.warnings => w \in mine
    BY <2>1, PolicyWarnings, WhenIsTyped
  <2>4. w \in mine => <<w, {}>> \in report.findings
    BY <2>1 DEF FindingsOf, MachineFindings
  <2>. QED BY <2>2, <2>3, <2>4
<1>2. CASE ~report.scan_ran
  <2>1. report.policy.warnings = mine /\ report.findings = MachineFindings(report)
    BY <1>2 DEF IInv, IsAnalyzed, NoPolicy
  <2>. QED BY <2>1 DEF MachineFindings
<1>. QED BY <1>1, <1>2

(* The machine's evidence is strong unless something limits it, and else   *)
(* there is a warning of it (detect_environment, vis_doctor_analyze).      *)
LEMMA EvidenceOfMachine ==
  ASSUME NEW m \in MachineType, NEW cpus
  PROVE  LET strong == Environment(m).quality = "strong"
             hardware == {"limited_hardware_evidence", "partial_hardware_evidence"}
         IN
         /\ strong <=> Environment(m).limitations = {}
         /\ strong <=> MachineWarnings(m, cpus) \cap hardware = {}
         /\ strong => Sensors(m).msr.quality = "strong"
<1> DEFINE strong == EvidenceQuality(m) = "strong"
           bare == Mode(m) = "bare_metal"
<1>1. m.rdtscp \in BOOLEAN /\ m.root \in BOOLEAN /\ HasMsr(m) \in BOOLEAN
  BY DEF MachineType, HasMsr
<1>2. strong <=> m.rdtscp /\ bare /\ m.root /\ HasMsr(m)
  <2>. HIDE DEF bare
  <2>. QED BY <1>1 DEF EvidenceQuality, bare
<1>3. Environment(m).quality = EvidenceQuality(m)
  BY DEF Environment
<1>4. Environment(m).limitations = {} <=> strong
  <2>1. \A b \in BOOLEAN : \A w : When(b, w) = {} <=> ~b
    BY DEF When
  <2>2. Environment(m).limitations =
          When(~bare, Mode(m)) \cup When(~m.root, "root")
          \cup When(~HasMsr(m), "msr") \cup When(~m.rdtscp, "rdtscp")
    BY DEF Environment
  <2>. QED BY <1>1, <1>2, <2>1, <2>2
<1>5. MachineWarnings(m, cpus) \cap {"limited_hardware_evidence", "partial_hardware_evidence"} = {}
      <=> strong
  <2>1. ~bare => "limited_hardware_evidence" \in MachineWarnings(m, cpus)
    BY WhenHolds DEF MachineWarnings
  <2>2. bare /\ ~strong => "partial_hardware_evidence" \in MachineWarnings(m, cpus)
    BY WhenHolds DEF MachineWarnings
  <2>3. strong => bare
    BY <1>2
  <2>4. \A w, x : When(FALSE, w) = {}
    BY DEF When
  <2>5. ASSUME strong,
               NEW w \in {"limited_hardware_evidence", "partial_hardware_evidence"}
        PROVE  w \notin MachineWarnings(m, cpus)
    <3>1. (Mode(m) # "bare_metal") = FALSE
      BY <2>3, <2>5
    <3>2. (Mode(m) = "bare_metal" /\ EvidenceQuality(m) # "strong") = FALSE
      BY <2>5
    <3>. HIDE DEF bare, strong
    <3>. QED BY <2>4, <3>1, <3>2, WhenIsTyped DEF MachineWarnings
  <2>. QED BY <2>1, <2>2, <2>3, <2>5
<1>6. strong => MsrSensor(m).quality = "strong"
  BY <1>1, <1>2 DEF MsrSensor, Sensor
<1>7. Sensors(m).msr = MsrSensor(m)
  BY DEF Sensors
<1>. QED BY <1>3, <1>4, <1>5, <1>6, <1>7

(* A sensor that can be read has a quality, a strong one no limitation     *)
(* (detect_sensors).                                                       *)
IsQualified(s) ==
  /\ s.available => s.quality # "unavailable"
  /\ s.quality = "strong" => s.limitations = {}

LEMMA SensorsAreQualified ==
  ASSUME NEW m \in MachineType
  PROVE  \A s \in DOMAIN Sensors(m) : IsQualified(Sensors(m)[s])
<1>0. \A w : When(FALSE, w) = {}
  BY DEF When
<1>1. IsQualified(MsrSensor(m))
  <2>1. m.rdtscp \in BOOLEAN /\ m.root \in BOOLEAN /\ HasMsr(m) \in BOOLEAN
    BY DEF MachineType, HasMsr
  <2>2. CASE m.root /\ HasMsr(m) /\ m.rdtscp
    <3>1. (~HasMsr(m)) = FALSE /\ (~m.root) = FALSE /\ (~m.rdtscp) = FALSE
      BY <2>1, <2>2
    <3>2. MsrSensor(m).quality = "strong"
      BY <2>1, <2>2 DEF MsrSensor, Sensor
    <3>3. MsrSensor(m).limitations = {}
      BY <1>0, <3>1 DEF MsrSensor, Sensor
    <3>. QED BY <3>2, <3>3 DEF IsQualified
  <2>3. CASE ~HasMsr(m) /\ ~m.rdtscp
    BY <2>1, <2>3 DEF MsrSensor, Sensor, IsQualified
  <2>4. CASE ~(m.root /\ HasMsr(m) /\ m.rdtscp) /\ ~(~HasMsr(m) /\ ~m.rdtscp)
    BY <2>1, <2>4 DEF MsrSensor, Sensor, IsQualified
  <2>. QED BY <2>1, <2>2, <2>3, <2>4
<1>2. ASSUME NEW path PROVE IsQualified(PathSensor(m, path))
  <2>1. CASE path \in m.exists /\ path \in m.readable
    BY <1>0, <2>1 DEF PathSensor, Sensor, IsQualified, When
  <2>2. CASE ~(path \in m.exists /\ path \in m.readable)
    BY <2>2 DEF PathSensor, Sensor, IsQualified
  <2>. QED BY <2>1, <2>2
<1>3. IsQualified(TracefsSensor(m))
  BY DEF TracefsSensor, Sensor, IsQualified
<1>4. ASSUME NEW tool PROVE IsQualified(ToolSensor(m, tool))
  BY DEF ToolSensor, Sensor, IsQualified
<1>5. /\ DOMAIN Sensors(m) = {"msr", "sysfs", "procfs", "tracefs", "rtla", "perf"}
      /\ Sensors(m).msr = MsrSensor(m)
      /\ Sensors(m).sysfs = PathSensor(m, "/sys/devices/system/cpu")
      /\ Sensors(m).procfs = PathSensor(m, "/proc")
      /\ Sensors(m).tracefs = TracefsSensor(m)
      /\ Sensors(m).rtla = ToolSensor(m, "rtla") /\ Sensors(m).perf = ToolSensor(m, "perf")
  BY DEF Sensors
<1>. QED BY <1>1, <1>2, <1>3, <1>4, <1>5

(* A report says how far it may be trusted, with one analysis as with      *)
(* three (detect_environment, detect_sensors, vis_doctor_analyze).         *)
THEOREM EvidenceSaysItsQuality == Spec => []EvidenceIsQualified
<1>1. IInv => EvidenceIsQualified
  <2>. SUFFICES ASSUME IInv, pc = "write" PROVE EvidenceIsQualified
    BY DEF EvidenceIsQualified
  <2> DEFINE m == report.machine
             hardware == {"limited_hardware_evidence", "partial_hardware_evidence"}
  <2>1. /\ m \in MachineType /\ report.environment = Environment(m)
        /\ report.sensors = Sensors(m)
    BY DEF IInv, FactsAgree
  <2>2. report.policy.warnings \cap hardware = {}
        <=> MachineWarnings(m, report.cpus) \cap hardware = {}
    BY HardwareWarnings
  <2>3. \A w \in report.policy.warnings \cap hardware : <<w, {}>> \in report.findings
    BY HardwareWarnings
  <2>4. \A s \in DOMAIN report.sensors : IsQualified(report.sensors[s])
    BY <2>1, SensorsAreQualified
  <2>. QED BY <2>1, <2>2, <2>3, <2>4, EvidenceOfMachine DEF EvidenceIsQualified, IsQualified
<1>. QED BY <1>1, Invariance, PTL

(* The type of the variables: one row for each CPU measured, of CPUs that  *)
(* are listed (vis_doctor_scan_all).                                       *)
THEOREM TypeCorrectness == Spec => []TypeOK
<1>1. IInv => TypeOK
  <2>. SUFFICES ASSUME IInv PROVE TypeOK
    OBVIOUS
  <2>1. ASSUME NEW c \in DOMAIN measured PROVE report.scans[c] \in ScanType
    <3>1. /\ measured[c] \in Outcomes /\ report.scans[c] \in RowType
          /\ report.scans[c].status = ScanOf(measured[c]).status
      BY DEF IInv, RowsAgree, SameButClass
    <3>2. ScanOf(measured[c]).status = measured[c].status
      BY DEF ScanOf
    <3>3. report.scans[c].status \in {m.status : m \in Outcomes}
      BY <3>1, <3>2
    <3>. QED BY <3>1, <3>3 DEF RowType, ScanType
  <2>. QED BY <2>1 DEF IInv, TypeOK, Control, RowsAgree, SavedIsReadable
<1>. QED BY <1>1, Invariance, PTL
=============================================================================
