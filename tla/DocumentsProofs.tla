--------------------------- MODULE DocumentsProofs ---------------------------
(***************************************************************************)
(* The safety properties of the two files, for every report of Doctor,     *)
(* every command line and every point at which a file may be cut off.      *)
(***************************************************************************)
EXTENDS Documents, FiniteSetTheorems, SequenceTheorems, WellFoundedInduction, TLAPS

(* A set of naturals that holds 0, and with every n its successor, holds   *)
(* all; a nonempty one has a least member.                                 *)
LEMMA HasLeast ==
  ASSUME NEW S \in SUBSET Nat, S # {}
  PROVE  \E n \in S : \A y \in S : n <= y
<1>1. PICK n \in S : \A y \in S : ~(<<y, n>> \in OpToRel(<, Nat))
  BY NatLessThanWellFounded, WFMin, Zenon
<1>2. \A a, b \in Nat : a < b => <<a, b>> \in OpToRel(<, Nat)
  BY SMT DEF OpToRel
<1>3. \A y \in S : ~(y < n)
  BY <1>1, <1>2
<1>4. \A y \in S : n <= y
  BY <1>3
<1>. QED BY <1>4

LEMMA MinIsLeast ==
  ASSUME NEW S \in SUBSET Nat, S # {}
  PROVE  Min(S) \in S /\ \A y \in S : Min(S) <= y
BY HasLeast, Zenon DEF Min

LEMMA Induction ==
  ASSUME NEW G, 0 \in G, \A n \in Nat : n \in G => n + 1 \in G
  PROVE  \A n \in Nat : n \in G
<1>. DEFINE Bad == {n \in Nat : n \notin G}
<1>1. SUFFICES ASSUME Bad # {} PROVE FALSE
  OBVIOUS
<1>2. PICK n \in Bad : \A y \in Bad : n <= y
  BY <1>1, HasLeast
<1>3. n # 0 /\ n - 1 \in Nat /\ n = (n - 1) + 1
  BY <1>2
<1>4. n - 1 \in G
  BY <1>2, <1>3
<1>. QED BY <1>2, <1>3, <1>4

----------------------------------------------------------------------------
(* A finite set put into a sequence is in it once, and nothing else is.    *)
LEMMA SetToSeqListsIt ==
  ASSUME NEW S, IsFiniteSet(S)
  PROVE  /\ SetToSeq(S) \in [1 .. Cardinality(S) -> S] /\ IsInjective(SetToSeq(S))
         /\ Cardinality(S) \in Nat
         /\ SetToSeq(S) \in Seq(S) /\ Len(SetToSeq(S)) = Cardinality(S)
         /\ {SetToSeq(S)[i] : i \in 1 .. Len(SetToSeq(S))} = S
<1>. DEFINE n == Cardinality(S)
<1>1. n \in Nat /\ IsFiniteSet(1 .. n) /\ Cardinality(1 .. n) = n
  BY FS_CardinalityType, FS_Interval
<1>2. PICK f : f \in Bijection(1 .. n, S)
  BY FS_CardinalityType DEF ExistsBijection
<1>3. f \in [1 .. n -> S] /\ IsInjective(f)
  BY <1>2 DEF Bijection, Injection, Surjection, IsInjective
<1>4. SetToSeq(S) \in [1 .. n -> S] /\ IsInjective(SetToSeq(S))
  BY <1>3, Zenon DEF SetToSeq
<1>. HIDE DEF n
<1>. DEFINE g == SetToSeq(S)
<1>5. g \in Injection(1 .. n, S)
  BY <1>4 DEF Injection, IsInjective
<1>6. {g[i] : i \in 1 .. n} = S
  <2>. DEFINE T == {g[i] : i \in 1 .. n}
  <2>1. T \in SUBSET S
    BY <1>4
  <2>2. g \in Bijection(1 .. n, T)
    BY <1>4, <1>5 DEF Bijection, Injection, Surjection, IsInjective
  <2>3. Cardinality(T) = n
    BY <1>1, <2>2, FS_CountingElements DEF ExistsBijection
  <2>4. T = S
    BY <2>1, <2>3, FS_Subset DEF n
  <2>. QED BY <2>4
<1>7. g \in Seq(S) /\ Len(g) = n
  BY <1>1, <1>4
<1>. QED BY <1>1, <1>4, <1>6, <1>7 DEF n

----------------------------------------------------------------------------
(* Joining sequences: the function that FlattenSeq recurses by.            *)
Cat(a, b) == a \o b
Join(f, s, i) == IF i = 1 THEN s[i] ELSE Cat(f[i - 1], s[i])
IsFlat(f, s, n) == f = [i \in 1 .. n |-> Join(f, s, i)]

LEMMA FlattenIsRecursive ==
  ASSUME NEW s, Len(s) # 0
  PROVE  FlattenSeq(s) = (CHOOSE f : IsFlat(f, s, Len(s)))[Len(s)]
BY DEF FlattenSeq, IsFlat, Join, Cat

LEMMA FlatExists ==
  ASSUME NEW s
  PROVE  \A n \in Nat : \E f : IsFlat(f, s, n)
<1>. DEFINE G == {n \in Nat : \E f : IsFlat(f, s, n)}
<1>1. 0 \in G
  <2>1. IsFlat([i \in 1 .. 0 |-> Join(s, s, i)], s, 0)
    BY DEF IsFlat
  <2>. QED BY <2>1
<1>2. ASSUME NEW n \in Nat, n \in G PROVE n + 1 \in G
  <2>1. PICK f : f = [i \in 1 .. n |-> Join(f, s, i)]
    BY <1>2 DEF IsFlat
  <2>. DEFINE g == [i \in 1 .. n + 1 |-> Join(f, s, i)]
  <2>2. \A i \in 1 .. n : g[i] = f[i]
    BY <2>1
  <2>. HIDE DEF g
  <2>3. \A i \in 1 .. n + 1 : Join(g, s, i) = Join(f, s, i)
    <3>. SUFFICES ASSUME NEW i \in 1 .. n + 1 PROVE Join(g, s, i) = Join(f, s, i)
      OBVIOUS
    <3>1. i # 1 => i - 1 \in 1 .. n
      OBVIOUS
    <3>2. i # 1 => g[i - 1] = f[i - 1]
      BY <2>2, <3>1
    <3>. QED BY <3>2, Zenon DEF Join
  <2>4. g = [i \in 1 .. n + 1 |-> Join(g, s, i)]
    BY <2>3, Zenon DEF g
  <2>. QED BY <2>4 DEF IsFlat
<1>. HIDE DEF G
<1>3. \A n \in Nat : n \in G
  BY <1>1, <1>2, Induction
<1>. QED BY <1>3 DEF G

LEMMA FlatUnfolds ==
  ASSUME NEW s, NEW f, NEW n \in Nat, IsFlat(f, s, n), NEW i \in 1 .. n
  PROVE  f[i] = Join(f, s, i)
BY DEF IsFlat

LEMMA FlatIsUnique ==
  ASSUME NEW s, NEW t, NEW f, NEW g, NEW n \in Nat, NEW m \in Nat, n <= m,
         IsFlat(f, s, n), IsFlat(g, t, m), \A i \in 1 .. n : s[i] = t[i]
  PROVE  \A i \in 1 .. n : f[i] = g[i]
<1>. DEFINE G == {k \in Nat : k \in 1 .. n => f[k] = g[k]}
<1>1. 0 \in G
  OBVIOUS
<1>2. ASSUME NEW k \in Nat, k \in G PROVE k + 1 \in G
  <2>1. SUFFICES ASSUME k + 1 \in 1 .. n PROVE f[k + 1] = g[k + 1]
    OBVIOUS
  <2>2. f[k + 1] = Join(f, s, k + 1) /\ g[k + 1] = Join(g, t, k + 1)
    BY <2>1, FlatUnfolds
  <2>3. s[k + 1] = t[k + 1]
    BY <2>1
  <2>4. k + 1 # 1 => f[k + 1 - 1] = g[k + 1 - 1]
    BY <1>2, <2>1
  <2>. QED BY <2>1, <2>2, <2>3, <2>4 DEF Join
<1>. HIDE DEF G
<1>3. \A k \in Nat : k \in G
  BY <1>1, <1>2, Induction
<1>. QED BY <1>3 DEF G

(* What FlattenSeq makes of a sequence with one more member. *)
LEMMA FlattenAppend ==
  ASSUME NEW T, NEW s \in Seq(Seq(T)), NEW x \in Seq(T)
  PROVE  FlattenSeq(Append(s, x)) = IF s = <<>> THEN x ELSE FlattenSeq(s) \o x
<1>. DEFINE t == Append(s, x)
            n == Len(s)
<1>1. n \in Nat /\ Len(t) = n + 1 /\ t[n + 1] = x /\ \A i \in 1 .. n : s[i] = t[i]
  OBVIOUS
<1>2. PICK g : IsFlat(g, t, n + 1) /\ FlattenSeq(t) = g[n + 1]
  <2>0. n + 1 \in Nat
    BY <1>1
  <2>. HIDE DEF t, n
  <2>1. \E g : IsFlat(g, t, n + 1)
    BY <2>0, FlatExists
  <2>2. FlattenSeq(t) = (CHOOSE g : IsFlat(g, t, n + 1))[n + 1]
    BY <1>1, FlattenIsRecursive
  <2>. QED BY <2>1, <2>2
<1>3. g[n + 1] = IF n + 1 = 1 THEN t[n + 1] ELSE Cat(g[n], t[n + 1])
  <2>. HIDE DEF t, n
  <2>1. g[n + 1] = Join(g, t, n + 1)
    BY <1>1, <1>2, FlatUnfolds
  <2>. QED BY <1>1, <2>1 DEF Join
<1>4. CASE s = <<>>
  BY <1>1, <1>2, <1>3, <1>4
<1>5. CASE s # <<>>
  <2>1. n # 0 /\ n + 1 # 1
    BY <1>1, <1>5
  <2>2. PICK f : IsFlat(f, s, n) /\ FlattenSeq(s) = f[n]
    <3>1. \E f : IsFlat(f, s, n)
      BY <1>1, FlatExists
    <3>2. FlattenSeq(s) = (CHOOSE f : IsFlat(f, s, n))[n]
      BY <2>1, FlattenIsRecursive
    <3>. QED BY <3>1, <3>2
  <2>. HIDE DEF t, n
  <2>3. \A i \in 1 .. n : f[i] = g[i]
    BY <1>1, <1>2, <2>2, FlatIsUnique
  <2>4. f[n] = g[n]
    BY <1>1, <2>1, <2>3
  <2>. QED BY <1>1, <1>2, <1>3, <1>5, <2>1, <2>2, <2>4 DEF t, Cat
<1>. QED BY <1>4, <1>5

----------------------------------------------------------------------------
(* The tokens there are: of marks, of every string that a program writes   *)
(* and of the words of the workloads.                                      *)
MarkName == {"comma", "colon", "open_brace", "close_brace", "open_bracket", "close_bracket"}

PolicyKeys ==
  {"available", "profile", "cpu_policy", "primary_cpus", "secondary_cpus", "avoid_cpus",
   "contaminated_cpus", "smt_policy", "lower_throughput_policy",
   "requires_longer_validation", "warnings"}

SearchedKeys ==
  {"recommended_runtime_policy", "assigned_cpus", "exit_code", "verdict", "escaped_cpus",
   "severity"}

PolicyValues ==
  {"strict", "sibling_aware_primary", "avoid_sibling_sharing_for_first_profile",
   "not_applicable", "no_lower_throughput_class_detected", "avoid_for_first_profile"}
  \cup PolicyWarnings

DoctorNames ==
  {"vis_doctor_report", "schema_version", "generator", "generated_at", "machine", "hostname",
   "kernel", "logical_cpus", "isolated_cpus", "nohz_full_cpus", "thp_enabled",
   "thp_defrag", "khugepaged_defrag", "mem_available_kb", "swap_total_kb", "swap_free_kb",
   "anon_hugepages_kb", "hugepages_total", "hugepages_free", "environment", "mode",
   "evidence_quality", "root_user", "msr_device_available", "rdtscp_supported",
   "hypervisor_detected", "container_detected", "limitations", "reasons", "quality",
   "source", "capabilities", "msr", "tsc", "sensors", "baseline_comparison", "path",
   "compared_cpus", "global_drop_ratio", "pressure_detected", "affected_cpus", "cpus", "cpu",
   "baseline_accepted_per_sec", "current_accepted_per_sec", "drop_ratio",
   "candidate_summary", "all_clean_higher_throughput", "id", "core_id", "numa_node",
   "siblings", "governor", "driver", "scan", "status", "accepted_samples",
   "accepted_per_sec", "contaminated_windows", "msr_delta", "p99", "p99_9", "p99_99", "max",
   "clean_candidate", "throughput_class", "findings", "category", "message", "evidence",
   "recommendations", "risk", "action", "reason", "why_it_matters", "safe_suggestion",
   "advanced_suggestion", "advanced_risk", "expected_effect", "validation_command",
   "ai_context", "any"}

AttestationNames ==
  {"vis_run_attestation", "schema_version", "generator", "policy_source", "cpu_source",
   "primary", "secondary", "workload", "argv", "started", "dry_run", "affinity_applied",
   "status", "observation", "mode", "samples", "observed_process_samples",
   "observed_thread_samples", "affinity_escapes", "pid", "tid", "cpus_allowed_list",
   "events", "category", "action", "result", "evidence", "recommendation",
   "failed_actions", "strengthened_recommendations", "any", "exited", "signaled",
   "unknown", "error", "warning", "info", "policy", "affinity", "process", "runtime_affinity",
   "validation", "cpu_frequency", "isolation", "memory", "cpu_topology", "smi", "failed",
   "read_failed", "nonzero_exit", "escape_detected", "accepted_with_warning",
   "not_applicable_to_cpu_run", "policy_enforced", "DRY_RUN", "WORKLOAD_FAILED",
   "FAILED_BEFORE_WORKLOAD", "POLICY_REJECTED", "CONTROLLED_WITH_WARNINGS", "CONTROLLED"}

Common == DoctorNames \cup AttestationNames \cup PolicyValues

Phrase ==
  Common \cup PolicyKeys \cup SearchedKeys \cup {w[1].text : w \in Words}
  \cup MarkName \cup {"none", "true", "false"}

Token == [kind : {"mark", "string", "number", "word", "broken"}, text : Phrase, n : Nat]

(* Lists of parts with commas between them. *)
LEMMA TokenTypes ==
  /\ \A m \in Phrase \cup MarkName : Mark(m) \in Token /\ String(m) \in Token
  /\ \A b \in BOOLEAN : Word(b) \in Token
  /\ \A n \in Nat : Number(n) \in Token
  /\ {Broken, Comma, Colon, OpenBrace, CloseBrace, OpenBracket, CloseBracket} \subseteq Token
<1>1. \A m \in Phrase \cup MarkName : Mark(m) \in Token /\ String(m) \in Token
  BY DEF Mark, String, Token, Phrase
<1>2. \A b \in BOOLEAN : Word(b) \in Token
  BY DEF Word, Token, Phrase
<1>3. \A n \in Nat : Number(n) \in Token
  BY DEF Number, Token, Phrase
<1>4. Broken \in Token
  BY DEF Broken, Token, Phrase
<1>. QED
  BY <1>1, <1>2, <1>3, <1>4
     DEF MarkName, Comma, Colon, OpenBrace, CloseBrace, OpenBracket, CloseBracket

LEMMA ListedEmpty == Listed(<<>>) = <<>>
<1>1. [i \in DOMAIN <<>> |-> IF i = 1 THEN <<>>[i] ELSE <<Comma>> \o <<>>[i]] = <<>>
  OBVIOUS
<1>2. FlattenSeq(<<>>) = <<>>
  BY DEF FlattenSeq
<1>. QED BY <1>1, <1>2 DEF Listed

LEMMA ListedAppend ==
  ASSUME NEW s \in Seq(Seq(Token)), NEW x \in Seq(Token)
  PROVE  Listed(Append(s, x)) =
           IF s = <<>> THEN x ELSE Listed(s) \o (<<Comma>> \o x)
<1>. DEFINE P(t) == [i \in DOMAIN t |-> IF i = 1 THEN t[i] ELSE <<Comma>> \o t[i]]
            y == IF s = <<>> THEN x ELSE <<Comma>> \o x
<1>1. Comma \in Token
  BY TokenTypes
<1>2. <<Comma>> \in Seq(Token)
  BY <1>1
<1>3. Len(s) \in Nat /\ DOMAIN s = 1 .. Len(s) /\ \A i \in 1 .. Len(s) : s[i] \in Seq(Token)
  OBVIOUS
<1>. HIDE DEF Token
<1>4. y \in Seq(Token) /\ \A i \in 1 .. Len(s) : <<Comma>> \o s[i] \in Seq(Token)
  BY <1>2, <1>3
<1>5. P(s) \in Seq(Seq(Token)) /\ Len(P(s)) = Len(s)
  BY <1>3, <1>4
<1>6. P(Append(s, x)) = Append(P(s), y)
  <2>1. DOMAIN Append(s, x) = 1 .. Len(s) + 1 /\ Append(s, x)[Len(s) + 1] = x
        /\ \A i \in 1 .. Len(s) : Append(s, x)[i] = s[i]
    BY <1>3
  <2>2. DOMAIN Append(P(s), y) = 1 .. Len(s) + 1 /\ Append(P(s), y)[Len(s) + 1] = y
        /\ \A i \in 1 .. Len(s) : Append(P(s), y)[i] = P(s)[i]
    BY <1>3, <1>5
  <2>3. \A i \in 1 .. Len(s) + 1 : P(Append(s, x))[i] = Append(P(s), y)[i]
    <3>1. s = <<>> <=> Len(s) = 0
      OBVIOUS
    <3>2. P(Append(s, x))[Len(s) + 1] = y
      BY <1>3, <2>1, <3>1
    <3>3. \A i \in 1 .. Len(s) : P(Append(s, x))[i] = P(s)[i]
      BY <1>3, <2>1
    <3>. QED BY <1>3, <2>2, <3>2, <3>3
  <2>4. Append(P(s), y) = [i \in 1 .. Len(s) + 1 |-> Append(P(s), y)[i]]
    BY <1>3, <1>4, <1>5
  <2>5. P(Append(s, x)) = [i \in 1 .. Len(s) + 1 |-> P(Append(s, x))[i]]
    BY <2>1
  <2>. HIDE DEF P, y
  <2>. QED BY <2>3, <2>4, <2>5
<1>7. P(s) = <<>> <=> s = <<>>
  BY <1>3, <1>5
<1>. HIDE DEF P
<1>8. FlattenSeq(Append(P(s), y)) = IF P(s) = <<>> THEN y ELSE FlattenSeq(P(s)) \o y
  BY <1>4, <1>5, FlattenAppend
<1>. QED BY <1>6, <1>7, <1>8 DEF P, Listed

LEMMA CommaText == <<Comma>> \in Seq(Token) /\ Len(<<Comma>>) = 1 /\ <<Comma>>[1] = Comma
BY TokenTypes

(* Texts that can be put together, with names from C and without braces:   *)
(* what holds of such a class holds of all the text that is written so.    *)
Class(Q, C) ==
  /\ Q \in SUBSET Seq(Token) /\ C \in SUBSET Phrase
  /\ <<>> \in Q /\ \A a, b \in Q : a \o b \in Q
  /\ \A t \in {Comma, OpenBracket, CloseBracket, Broken} : <<t>> \in Q
  /\ \A s \in C : <<String(s)>> \in Q
  /\ \A n \in Nat : <<Number(n)>> \in Q
  /\ \A b \in BOOLEAN : <<Word(b)>> \in Q
  /\ \A s \in C : \A v \in Q : v # <<>> => <<String(s), Colon>> \o v \in Q

(* ... and with them. *)
Braced(Q) == <<OpenBrace>> \in Q /\ <<CloseBrace>> \in Q

(* A sequence is that of its members but the last, and the last.           *)
LEMMA SequenceGrows ==
  ASSUME NEW T, NEW s \in Seq(T), s # <<>>
  PROVE  /\ Len(s) - 1 \in Nat
         /\ SubSeq(s, 1, Len(s) - 1) \in Seq(T)
         /\ Len(SubSeq(s, 1, Len(s) - 1)) = Len(s) - 1
         /\ s[Len(s)] \in T
         /\ s = Append(SubSeq(s, 1, Len(s) - 1), s[Len(s)])
         /\ s = SubSeq(s, 1, Len(s) - 1) \o <<s[Len(s)]>>
<1>1. Len(s) \in Nat \ {0}
  BY EmptySeq
<1>. DEFINE n == Len(s) - 1
            t == SubSeq(s, 1, n)
<1>2. n \in Nat /\ \A i \in 1 .. n : s[i] \in T
  BY <1>1
<1>3. t \in Seq(T) /\ Len(t) = n /\ \A i \in 1 .. n : t[i] = s[i]
  <2>. HIDE DEF n
  <2>1. /\ SubSeq(s, 1, n) \in Seq(T) /\ Len(SubSeq(s, 1, n)) = (IF 1 <= n THEN n - 1 + 1 ELSE 0)
        /\ \A i \in 1 .. n - 1 + 1 : SubSeq(s, 1, n)[i] = s[1 + i - 1]
    BY <1>2, SubSeqProperties
  <2>. QED BY <1>2, <2>1
<1>4. s[Len(s)] \in T
  BY <1>1
<1>. HIDE DEF t
<1>5. s = Append(t, s[Len(s)])
  <2>1. Append(t, s[Len(s)]) \in Seq(T) /\ Len(Append(t, s[Len(s)])) = n + 1
        /\ \A i \in 1 .. n : Append(t, s[Len(s)])[i] = s[i]
        /\ Append(t, s[Len(s)])[n + 1] = s[n + 1]
    BY <1>1, <1>2, <1>3, <1>4
  <2>. QED BY <1>1, <2>1, SeqEqual
<1>6. Append(t, s[Len(s)]) = t \o <<s[Len(s)]>>
  BY <1>3, <1>4, AppendIsConcat
<1>. QED BY <1>1, <1>2, <1>3, <1>4, <1>5, <1>6 DEF t

(* A list of texts of a class is one. *)
LEMMA ListedIn ==
  ASSUME NEW Q, NEW C, Class(Q, C)
  PROVE  \A s \in Seq(Q) : Listed(s) \in Q
<1>. DEFINE G == {n \in Nat : \A s \in Seq(Q) : Len(s) = n => Listed(s) \in Q}
<1>1. 0 \in G
  <2>1. \A s \in Seq(Q) : Len(s) = 0 => s = <<>>
    BY EmptySeq
  <2>. QED BY <2>1, ListedEmpty DEF Class
<1>2. ASSUME NEW n \in Nat, n \in G PROVE n + 1 \in G
  <2>1. SUFFICES ASSUME NEW s \in Seq(Q), Len(s) = n + 1 PROVE Listed(s) \in Q
    OBVIOUS
  <2>. DEFINE t == SubSeq(s, 1, Len(s) - 1)
              x == s[Len(s)]
  <2>2. s # <<>>
    BY <2>1, EmptySeq
  <2>3. t \in Seq(Q) /\ Len(t) = n /\ x \in Q /\ s = Append(t, x)
    BY <2>1, <2>2, SequenceGrows
  <2>. HIDE DEF t, x
  <2>4. Listed(t) \in Q
    BY <1>2, <2>3
  <2>5. t \in Seq(Seq(Token)) /\ x \in Seq(Token)
    BY <2>3, SeqMonotonic DEF Class
  <2>6. Listed(s) = IF t = <<>> THEN x ELSE Listed(t) \o (<<Comma>> \o x)
    BY <2>3, <2>5, ListedAppend
  <2>7. <<Comma>> \in Q
    BY DEF Class
  <2>8. Listed(t) \o (<<Comma>> \o x) \in Q
    BY <2>3, <2>4, <2>7 DEF Class
  <2>. QED BY <2>3, <2>6, <2>8
<1>. HIDE DEF G
<1>3. \A n \in Nat : n \in G
  BY <1>1, <1>2, Induction
<1>4. \A s \in Seq(Q) : Len(s) \in Nat
  OBVIOUS
<1>. QED BY <1>3, <1>4 DEF G

(* Texts are put together in any order. *)
LEMMA TextsJoin ==
  \A a, b, c \in Seq(Token) : (a \o b) \o c = a \o (b \o c)
BY ConcatAssociative

(* Two lists in one. *)
LEMMA ListedJoins ==
  ASSUME NEW s \in Seq(Seq(Token)), s # <<>>
  PROVE  \A t \in Seq(Seq(Token)) :
           t # <<>> => Listed(s \o t) = Listed(s) \o (<<Comma>> \o Listed(t))
<1>. DEFINE Joined(t) == Listed(s \o t) = Listed(s) \o (<<Comma>> \o Listed(t))
            G == {n \in Nat : \A t \in Seq(Seq(Token)) : t # <<>> /\ Len(t) = n => Joined(t)}
<1>0. Class(Seq(Token), {})
  BY TokenTypes DEF Class
<1>1. 0 \in G
  BY EmptySeq
<1>2. ASSUME NEW n \in Nat, n \in G PROVE n + 1 \in G
  <2>1. SUFFICES ASSUME NEW t \in Seq(Seq(Token)), t # <<>>, Len(t) = n + 1
                 PROVE  Joined(t)
    OBVIOUS
  <2>. DEFINE u == SubSeq(t, 1, Len(t) - 1)
              x == t[Len(t)]
  <2>2. u \in Seq(Seq(Token)) /\ Len(u) = n /\ x \in Seq(Token) /\ t = Append(u, x)
    BY <2>1, SequenceGrows
  <2>. HIDE DEF u, x, Joined
  <2>3. s \o t = Append(s \o u, x) /\ s \o u \in Seq(Seq(Token)) /\ s \o u # <<>>
    <3>1. s \o (u \o <<x>>) = (s \o u) \o <<x>>
      BY <2>2, ConcatAssociative
    <3>2. s \o u \in Seq(Seq(Token)) /\ s \o u # <<>>
      BY <2>2, ConcatProperties, ConcatEqualIffEmpty
    <3>3. t = u \o <<x>> /\ Append(s \o u, x) = (s \o u) \o <<x>>
      BY <2>2, <3>2, AppendIsConcat
    <3>. QED BY <3>1, <3>2, <3>3
  <2>4. Listed(s \o t) = Listed(s \o u) \o (<<Comma>> \o x)
    BY <2>2, <2>3, ListedAppend
  <2>5. Listed(t) = IF u = <<>> THEN x ELSE Listed(u) \o (<<Comma>> \o x)
    BY <2>2, ListedAppend
  <2>6. CASE u = <<>>
    <3>1. s \o u = s
      BY <2>6, ConcatEmptySeq
    <3>. QED BY <2>4, <2>5, <2>6, <3>1 DEF Joined
  <2>7. CASE u # <<>>
    <3>1. Joined(u)
      BY <1>2, <2>2, <2>7
    <3>2. Listed(s) \in Seq(Token) /\ Listed(u) \in Seq(Token)
      BY <1>0, <2>2, ListedIn
    <3>. DEFINE c == <<Comma>> \o x
    <3>3. c \in Seq(Token) /\ <<Comma>> \o Listed(u) \in Seq(Token)
      BY <2>2, <3>2, CommaText, ConcatProperties
    <3>. HIDE DEF c
    <3>4. (Listed(s) \o (<<Comma>> \o Listed(u))) \o c
          = Listed(s) \o ((<<Comma>> \o Listed(u)) \o c)
      BY <3>2, <3>3, CommaText, TextsJoin
    <3>5. (<<Comma>> \o Listed(u)) \o c = <<Comma>> \o (Listed(u) \o c)
      BY <3>2, <3>3, CommaText, ConcatAssociative
    <3>. QED BY <2>4, <2>5, <2>7, <3>1, <3>4, <3>5 DEF Joined, c
  <2>. QED BY <2>6, <2>7
<1>. HIDE DEF G, Joined
<1>3. \A n \in Nat : n \in G
  BY <1>1, <1>2, Induction
<1>4. \A t \in Seq(Seq(Token)) : Len(t) \in Nat
  OBVIOUS
<1>. QED BY <1>3, <1>4 DEF G, Joined

(* In text there is x, behind a text of class Q and before one of class R. *)
Split(text, a, x, b) == text = (a \o x) \o b
Around(text, x, Q, R) == \E a \in Q, b \in R : Split(text, a, x, b)

LEMMA AroundNests ==
  ASSUME NEW Q, NEW R, NEW C, NEW D, Class(Q, C), Class(R, D), NEW text, NEW x,
         NEW y \in Seq(Token), Around(text, x, Q, R), Around(x, y, Q, R)
  PROVE  Around(text, y, Q, R)
<1>1. PICK a \in Q, b \in R : text = (a \o x) \o b
  BY DEF Around, Split
<1>2. PICK c \in Q, d \in R : x = (c \o y) \o d
  BY DEF Around, Split
<1>3. a \in Seq(Token) /\ b \in Seq(Token) /\ c \in Seq(Token) /\ d \in Seq(Token)
  BY DEF Class
<1>4. a \o c \in Q /\ d \o b \in R
  BY DEF Class
<1>5. c \o y \in Seq(Token) /\ a \o c \in Seq(Token) /\ d \o b \in Seq(Token)
      /\ (a \o c) \o y \in Seq(Token)
  BY <1>3, ConcatProperties
<1>6. a \o ((c \o y) \o d) = (a \o (c \o y)) \o d
  <2>. DEFINE u == c \o y
  <2>1. u \in Seq(Token)
    BY <1>5
  <2>. HIDE DEF u
  <2>2. (a \o u) \o d = a \o (u \o d)
    BY <1>3, <2>1
  <2>. QED BY <2>2 DEF u
<1>7. a \o (c \o y) = (a \o c) \o y
  BY <1>3, TextsJoin
<1>8. (((a \o c) \o y) \o d) \o b = ((a \o c) \o y) \o (d \o b)
  <2>. DEFINE u == (a \o c) \o y
  <2>1. u \in Seq(Token)
    BY <1>5
  <2>. HIDE DEF u
  <2>2. (u \o d) \o b = u \o (d \o b)
    BY <1>3, <2>1, TextsJoin
  <2>. QED BY <2>2 DEF u
<1>9. text = ((a \o c) \o y) \o (d \o b)
  BY <1>1, <1>2, <1>6, <1>7, <1>8, Zenon
<1>. QED BY <1>4, <1>9, Zenon DEF Around, Split

(* A part of a list. *)
LEMMA AroundPart ==
  ASSUME NEW Q, NEW R, NEW C, NEW D, Class(Q, C), Class(R, D),
         NEW s \in Seq(Q), NEW x \in Seq(Token), NEW t \in Seq(R)
  PROVE  Around(Listed((s \o <<x>>) \o t), x, Q, R)
<1>1. s \in Seq(Seq(Token)) /\ t \in Seq(Seq(Token)) /\ <<x>> \in Seq(Seq(Token))
  BY SeqMonotonic DEF Class
<1>2. Listed(s) \in Q /\ Listed(t) \in R
  BY ListedIn
<1>3. Listed(s) \in Seq(Token) /\ Listed(t) \in Seq(Token)
  BY <1>2 DEF Class
<1>. DEFINE a == IF s = <<>> THEN <<>> ELSE Listed(s) \o <<Comma>>
            b == IF t = <<>> THEN <<>> ELSE <<Comma>> \o Listed(t)
<1>4. a \in Q /\ b \in R
  <2>1. <<Comma>> \in Q /\ <<Comma>> \in R /\ <<>> \in Q /\ <<>> \in R
    BY DEF Class
  <2>2. Listed(s) \o <<Comma>> \in Q /\ <<Comma>> \o Listed(t) \in R
    BY <1>2, <2>1 DEF Class
  <2>. QED BY <2>1, <2>2
<1>5. Listed(s \o <<x>>) = a \o x /\ a \o x \in Seq(Token)
  <2>1. Append(s, x) = s \o <<x>>
    BY <1>1, AppendIsConcat
  <2>2. Listed(s \o <<x>>) = IF s = <<>> THEN x ELSE Listed(s) \o (<<Comma>> \o x)
    BY <1>1, <2>1, ListedAppend
  <2>3. Listed(s) \o (<<Comma>> \o x) = (Listed(s) \o <<Comma>>) \o x
    BY <1>3, CommaText, TextsJoin
  <2>4. <<>> \o x = x
    BY ConcatEmptySeq
  <2>5. a \o x \in Seq(Token)
    BY <1>4, ConcatProperties DEF Class
  <2>. QED BY <2>2, <2>3, <2>4, <2>5
<1>6. Listed((s \o <<x>>) \o t) = (a \o x) \o b
  <2>1. s \o <<x>> \in Seq(Seq(Token)) /\ s \o <<x>> # <<>>
    BY <1>1, ConcatProperties, ConcatEqualIffEmpty
  <2>2. CASE t = <<>>
    <3>1. (s \o <<x>>) \o t = s \o <<x>> /\ (a \o x) \o <<>> = a \o x
      BY <1>5, <2>1, <2>2, ConcatEmptySeq
    <3>. QED BY <1>5, <2>2, <3>1
  <2>3. CASE t # <<>>
    BY <1>1, <1>5, <2>1, <2>3, ListedJoins
  <2>. QED BY <2>2, <2>3
<1>. HIDE DEF a, b
<1>. QED BY <1>4, <1>6 DEF Around, Split

----------------------------------------------------------------------------
(* What is written with texts and names of a class is of it.               *)
LEMMA BracketedIsNotEmpty ==
  ASSUME NEW o \in Token, NEW e \in Token, NEW s \in Seq(Token)
  PROVE  /\ <<o>> \o s \o <<e>> \in Seq(Token) /\ <<o>> \o s \o <<e>> # <<>>
         /\ <<o>> \o s \o <<e>> = (<<o>> \o s) \o <<e>>
OBVIOUS

LEMMA FieldIn ==
  ASSUME NEW Q, NEW C, Class(Q, C), NEW key \in C, NEW v \in Q, v # <<>>
  PROVE  Field(key, v) \in Q /\ Field(key, v) # <<>>
<1>1. Field(key, v) \in Q
  BY DEF Class, Field
<1>2. v \in Seq(Token) /\ key \in Phrase
  BY DEF Class
<1>3. String(key) \in Token /\ Colon \in Token
  BY <1>2, TokenTypes
<1>4. <<String(key), Colon>> \o v # <<>>
  BY <1>2, <1>3
<1>. QED BY <1>1, <1>4 DEF Field

LEMMA ArrayIn ==
  ASSUME NEW Q, NEW C, Class(Q, C), NEW s \in Seq(Q)
  PROVE  Array(s) \in Q /\ Array(s) # <<>>
<1>1. Listed(s) \in Q /\ <<OpenBracket>> \in Q /\ <<CloseBracket>> \in Q
  BY ListedIn DEF Class
<1>2. <<OpenBracket>> \o Listed(s) \in Q
  BY <1>1 DEF Class
<1>3. (<<OpenBracket>> \o Listed(s)) \o <<CloseBracket>> \in Q
  BY <1>1, <1>2 DEF Class
<1>4. Listed(s) \in Seq(Token) /\ OpenBracket \in Token /\ CloseBracket \in Token
  BY <1>1, TokenTypes DEF Class
<1>. QED BY <1>3, <1>4, BracketedIsNotEmpty DEF Array

LEMMA ObjectIn ==
  ASSUME NEW Q, NEW C, Class(Q, C), Braced(Q), NEW s \in Seq(Q)
  PROVE  Object(s) \in Q /\ Object(s) # <<>>
<1>1. Listed(s) \in Q /\ <<OpenBrace>> \in Q /\ <<CloseBrace>> \in Q
  BY ListedIn DEF Braced
<1>2. <<OpenBrace>> \o Listed(s) \in Q
  BY <1>1 DEF Class
<1>3. (<<OpenBrace>> \o Listed(s)) \o <<CloseBrace>> \in Q
  BY <1>1, <1>2 DEF Class
<1>4. Listed(s) \in Seq(Token) /\ OpenBrace \in Token /\ CloseBrace \in Token
  BY <1>1, TokenTypes DEF Class
<1>. QED BY <1>3, <1>4, BracketedIsNotEmpty DEF Object

LEMMA TextIn ==
  ASSUME NEW Q, NEW C, Class(Q, C), NEW key \in C
  PROVE  /\ \A s \in C : Text(key, s) \in Q
         /\ \A b \in BOOLEAN : Flag(key, b) \in Q
         /\ \A n \in Nat : Count(key, n) \in Q
<1>1. \A s \in C : <<String(s)>> \in Q
  BY DEF Class
<1>2. \A b \in BOOLEAN : <<Word(b)>> \in Q
  BY DEF Class
<1>3. \A n \in Nat : <<Number(n)>> \in Q
  BY DEF Class
<1>4. \A t : <<t>> # <<>>
  OBVIOUS
<1>5. \A s \in C : Text(key, s) \in Q
  BY <1>1, <1>4, FieldIn DEF Text
<1>6. \A b \in BOOLEAN : Flag(key, b) \in Q
  BY <1>2, <1>4, FieldIn DEF Flag
<1>7. \A n \in Nat : Count(key, n) \in Q
  BY <1>3, <1>4, FieldIn DEF Count
<1>. QED BY <1>5, <1>6, <1>7

LEMMA NumbersIn ==
  ASSUME NEW Q, NEW C, Class(Q, C), NEW key \in C
  PROVE  /\ \A s \in Seq(Nat) : Numbers(key, s) \in Q
         /\ \A s \in Seq(C) : Strings(key, s) \in Q
<1>1. ASSUME NEW s \in Seq(Nat) PROVE Numbers(key, s) \in Q
  <2>. DEFINE items == [i \in DOMAIN s |-> <<Number(s[i])>>]
  <2>1. \A i \in 1 .. Len(s) : <<Number(s[i])>> \in Q
    BY DEF Class
  <2>2. items \in Seq(Q)
    BY <2>1
  <2>. HIDE DEF items
  <2>3. Array(items) \in Q /\ Array(items) # <<>>
    BY <2>2, ArrayIn
  <2>. QED BY <2>3, FieldIn DEF Numbers, items
<1>2. ASSUME NEW s \in Seq(C) PROVE Strings(key, s) \in Q
  <2>. DEFINE items == [i \in DOMAIN s |-> <<String(s[i])>>]
  <2>1. \A i \in 1 .. Len(s) : <<String(s[i])>> \in Q
    BY DEF Class
  <2>2. items \in Seq(Q)
    BY <2>1
  <2>. HIDE DEF items
  <2>3. Array(items) \in Q /\ Array(items) # <<>>
    BY <2>2, ArrayIn
  <2>. QED BY <2>3, FieldIn DEF Strings, items
<1>. QED BY <1>1, <1>2

LEMMA TextsIn ==
  ASSUME NEW Q, NEW C, Class(Q, C), "any" \in C, NEW keys \in Seq(C)
  PROVE  Texts(keys) \in Seq(Q) /\ Flags(keys) \in Seq(Q) /\ Counts(keys) \in Seq(Q)
<1>1. ASSUME NEW key \in C
      PROVE  Text(key, "any") \in Q /\ Flag(key, TRUE) \in Q /\ Count(key, 1) \in Q
  BY TextIn
<1>2. DOMAIN keys = 1 .. Len(keys) /\ Len(keys) \in Nat
      /\ \A i \in 1 .. Len(keys) : keys[i] \in C
  OBVIOUS
<1>6. \A i \in 1 .. Len(keys) :
        Text(keys[i], "any") \in Q /\ Flag(keys[i], TRUE) \in Q /\ Count(keys[i], 1) \in Q
  BY <1>1, <1>2
<1>3. [i \in 1 .. Len(keys) |-> Text(keys[i], "any")] \in Seq(Q)
  <2>1. [i \in 1 .. Len(keys) |-> Text(keys[i], "any")] \in [1 .. Len(keys) -> Q]
    BY <1>6, Zenon
  <2>. QED BY <1>2, <2>1, SeqDef, Zenon
<1>4. [i \in 1 .. Len(keys) |-> Flag(keys[i], TRUE)] \in Seq(Q)
  <2>1. [i \in 1 .. Len(keys) |-> Flag(keys[i], TRUE)] \in [1 .. Len(keys) -> Q]
    BY <1>6, Zenon
  <2>. QED BY <1>2, <2>1, SeqDef, Zenon
<1>5. [i \in 1 .. Len(keys) |-> Count(keys[i], 1)] \in Seq(Q)
  <2>1. [i \in 1 .. Len(keys) |-> Count(keys[i], 1)] \in [1 .. Len(keys) -> Q]
    BY <1>6, Zenon
  <2>. QED BY <1>2, <2>1, SeqDef, Zenon
<1>. QED BY <1>2, <1>3, <1>4, <1>5, Zenon DEF Texts, Flags, Counts

(* Regrouping, of texts and with Cat. *)
LEMMA CatLaws ==
  /\ \A a, b \in Seq(Token) : Cat(a, b) \in Seq(Token)
  /\ \A a, b, c \in Seq(Token) : Cat(Cat(a, b), c) = Cat(a, Cat(b, c))
<1>1. \A a, b \in Seq(Token) : Cat(a, b) \in Seq(Token)
  BY DEF Cat
<1>2. \A a, b, c \in Seq(Token) : Cat(Cat(a, b), c) = Cat(a, Cat(b, c))
  BY TextsJoin DEF Cat
<1>. QED BY <1>1, <1>2

Regrouped(k, o, a, x, b, c) ==
  /\ (o \o ((a \o x) \o b)) \o c = ((o \o a) \o x) \o (b \o c)
  /\ k \o (((o \o a) \o x) \o (b \o c)) = (((k \o o) \o a) \o x) \o (b \o c)

LEMMA Regroup ==
  \A k, o, a, x, b, c \in Seq(Token) : Regrouped(k, o, a, x, b, c)
<1>. SUFFICES ASSUME NEW k \in Seq(Token), NEW o \in Seq(Token), NEW a \in Seq(Token),
                     NEW x \in Seq(Token), NEW b \in Seq(Token), NEW c \in Seq(Token)
     PROVE /\ Cat(Cat(o, Cat(Cat(a, x), b)), c) = Cat(Cat(Cat(o, a), x), Cat(b, c))
           /\ Cat(k, Cat(Cat(Cat(o, a), x), Cat(b, c)))
              = Cat(Cat(Cat(Cat(k, o), a), x), Cat(b, c))
  BY Zenon DEF Cat, Regrouped
<1>1. Cat(Cat(o, Cat(Cat(a, x), b)), c) = Cat(Cat(Cat(o, a), x), Cat(b, c))
  BY CatLaws
<1>2. Cat(Cat(o, a), x) \in Seq(Token) /\ Cat(o, a) \in Seq(Token) /\ Cat(b, c) \in Seq(Token)
  BY CatLaws
<1>3. Cat(k, Cat(o, a)) = Cat(Cat(k, o), a)
  BY CatLaws
<1>4. Cat(k, Cat(Cat(o, a), x)) = Cat(Cat(k, Cat(o, a)), x)
  BY <1>2, CatLaws
<1>5. Cat(k, Cat(Cat(Cat(o, a), x), Cat(b, c))) = Cat(Cat(k, Cat(Cat(o, a), x)), Cat(b, c))
  BY <1>2, CatLaws
<1>. QED BY <1>1, <1>3, <1>4, <1>5, Zenon

(* The fields of an object, or the items of an array, that is a field.     *)
LEMMA AroundBracketed ==
  ASSUME NEW Q, NEW R, NEW C, NEW D, Class(Q, C), Class(R, D),
         NEW open \in Token, NEW close \in Token, <<open>> \in Q, <<close>> \in R,
         NEW key \in C, NEW l, NEW x \in Seq(Token), Around(l, x, Q, R)
  PROVE  /\ Around((<<open>> \o l) \o <<close>>, x, Q, R)
         /\ Around(Field(key, (<<open>> \o l) \o <<close>>), x, Q, R)
<1>1. PICK a \in Q, b \in R : l = (a \o x) \o b
  BY DEF Around, Split
<1>. DEFINE k == <<String(key), Colon>>
            o == <<open>>
            c == <<close>>
<1>2. o # <<>>
  OBVIOUS
<1>3. Field(key, o) \in Q
  BY <1>2, FieldIn
<1>4. key \in Phrase
  BY DEF Class
<1>5. String(key) \in Token /\ Colon \in Token
  BY <1>4, TokenTypes
<1>6. k \in Seq(Token) /\ o \in Seq(Token) /\ c \in Seq(Token)
  BY <1>5
<1>7. a \in Seq(Token) /\ b \in Seq(Token)
  BY DEF Class
<1>. HIDE DEF k, o, c
<1>8. o \o a \in Q /\ (k \o o) \o a \in Q /\ b \o c \in R
  BY <1>1, <1>3 DEF Class, k, o, c, Field
<1>9. /\ (o \o l) \o c = ((o \o a) \o x) \o (b \o c)
      /\ k \o ((o \o l) \o c) = (((k \o o) \o a) \o x) \o (b \o c)
  <2>1. k \in Seq(Token) /\ o \in Seq(Token) /\ c \in Seq(Token)
        /\ a \in Seq(Token) /\ b \in Seq(Token) /\ x \in Seq(Token)
    BY <1>6, <1>7
  <2>2. /\ (o \o ((a \o x) \o b)) \o c = ((o \o a) \o x) \o (b \o c)
        /\ k \o (((o \o a) \o x) \o (b \o c)) = (((k \o o) \o a) \o x) \o (b \o c)
    <3>1. Regrouped(k, o, a, x, b, c)
      BY <2>1, Regroup
    <3>. QED BY <3>1, Zenon DEF Regrouped
  <2>. QED BY <1>1, <2>2, Zenon
<1>10. Around((o \o l) \o c, x, Q, R)
  BY <1>8, <1>9, Zenon DEF Around, Split
<1>11. Around(k \o ((o \o l) \o c), x, Q, R)
  BY <1>8, <1>9, Zenon DEF Around, Split
<1>. QED BY <1>10, <1>11, Zenon DEF k, o, c, Field

LEMMA AroundObject ==
  ASSUME NEW Q, NEW R, NEW C, NEW D, Class(Q, C), Class(R, D), Braced(Q), Braced(R),
         NEW key \in C, NEW s, NEW x \in Seq(Token), Around(Listed(s), x, Q, R)
  PROVE  /\ Around(Object(s), x, Q, R)
         /\ Around(Field(key, Object(s)), x, Q, R)
<1>1. OpenBrace \in Token /\ CloseBrace \in Token
  BY TokenTypes
<1>2. <<OpenBrace>> \in Q /\ <<CloseBrace>> \in R
  BY DEF Braced
<1>. QED BY <1>1, <1>2, AroundBracketed DEF Object

LEMMA AroundArray ==
  ASSUME NEW Q, NEW R, NEW C, NEW D, Class(Q, C), Class(R, D),
         NEW key \in C, NEW s, NEW x \in Seq(Token), Around(Listed(s), x, Q, R)
  PROVE  /\ Around(Array(s), x, Q, R)
         /\ Around(Field(key, Array(s)), x, Q, R)
<1>1. OpenBracket \in Token /\ CloseBracket \in Token
  BY TokenTypes
<1>2. <<OpenBracket>> \in Q /\ <<CloseBracket>> \in R
  BY DEF Class
<1>. QED BY <1>1, <1>2, AroundBracketed DEF Array

----------------------------------------------------------------------------
(* The classes that are used: texts of a set of tokens.                    *)
LEMMA SeqIsClass ==
  ASSUME NEW X \in SUBSET Token, NEW C \in SUBSET Phrase,
         {Comma, Colon, OpenBracket, CloseBracket, Broken} \subseteq X,
         \A s \in C : String(s) \in X,
         \A n \in Nat : Number(n) \in X,
         \A b \in BOOLEAN : Word(b) \in X
  PROVE  Class(Seq(X), C)
<1>1. Seq(X) \in SUBSET Seq(Token)
  BY SeqMonotonic
<1>2. <<>> \in Seq(X) /\ \A a, b \in Seq(X) : a \o b \in Seq(X)
  BY ConcatProperties
<1>3. \A t \in X : <<t>> \in Seq(X)
  OBVIOUS
<1>4. \A t \in {Comma, OpenBracket, CloseBracket, Broken} : <<t>> \in Seq(X)
  BY <1>3
<1>5. \A s \in C : <<String(s), Colon>> \in Seq(X)
  <2>1. \A t, u \in X : <<t, u>> \in Seq(X)
    OBVIOUS
  <2>. QED BY <2>1
<1>6. \A s \in C : \A v \in Seq(X) : v # <<>> => <<String(s), Colon>> \o v \in Seq(X)
  BY <1>2, <1>5
<1>7. /\ \A s \in C : <<String(s)>> \in Seq(X)
      /\ \A n \in Nat : <<Number(n)>> \in Seq(X)
      /\ \A b \in BOOLEAN : <<Word(b)>> \in Seq(X)
  BY <1>3
<1>. QED BY <1>1, <1>2, <1>4, <1>6, <1>7 DEF Class

(* Texts without a string, and without braces. *)
Others(key) == Token \ {String(key)}
Without(key) == Seq(Others(key))
Unbraced == Token \ {OpenBrace, CloseBrace}
Flat == Seq(Unbraced)

LEMMA WithoutIsClass ==
  ASSUME NEW key \in Phrase
  PROVE  Class(Without(key), Phrase \ {key}) /\ Braced(Without(key))
<1>1. Others(key) \in SUBSET Token
  BY DEF Others
<1>2. \A m : String(key) # Mark(m)
  BY DEF String, Mark
<1>3. {Comma, Colon, OpenBrace, CloseBrace, OpenBracket, CloseBracket, Broken}
      \subseteq Others(key)
  <2>1. String(key) # Broken
    BY DEF String, Broken
  <2>2. /\ String(key) # Comma /\ String(key) # Colon /\ String(key) # OpenBrace
        /\ String(key) # CloseBrace /\ String(key) # OpenBracket /\ String(key) # CloseBracket
    BY <1>2 DEF Comma, Colon, OpenBrace, CloseBrace, OpenBracket, CloseBracket
  <2>. QED BY <2>1, <2>2, TokenTypes DEF Others
<1>4. \A s \in Phrase \ {key} : String(s) \in Others(key)
  <2>1. \A s : String(s) = String(key) => s = key
    BY DEF String
  <2>. QED BY <2>1, TokenTypes DEF Others
<1>5. \A n \in Nat : Number(n) \in Others(key)
  <2>1. \A n : Number(n) # String(key)
    BY DEF Number, String
  <2>. QED BY <2>1, TokenTypes DEF Others
<1>6. \A b \in BOOLEAN : Word(b) \in Others(key)
  <2>1. \A b : Word(b) # String(key)
    BY DEF Word, String
  <2>. QED BY <2>1, TokenTypes DEF Others
<1>7. Class(Seq(Others(key)), Phrase \ {key})
  BY <1>1, <1>3, <1>4, <1>5, <1>6, SeqIsClass
<1>8. Braced(Seq(Others(key)))
  BY <1>3 DEF Braced
<1>. QED BY <1>7, <1>8 DEF Without

LEMMA MarksDiffer ==
  /\ OpenBrace # CloseBrace /\ Comma # OpenBrace /\ Comma # CloseBrace
  /\ Colon # OpenBrace /\ Colon # CloseBrace
  /\ OpenBracket # OpenBrace /\ OpenBracket # CloseBrace
  /\ CloseBracket # OpenBrace /\ CloseBracket # CloseBrace
  /\ Comma # CloseBracket
BY DEF Mark, Comma, Colon, OpenBrace, CloseBrace, OpenBracket, CloseBracket

LEMMA FlatIsClass == Class(Flat, Phrase)
<1>1. Unbraced \in SUBSET Token /\ Phrase \in SUBSET Phrase
  BY DEF Unbraced
<1>2. {Comma, Colon, OpenBracket, CloseBracket, Broken} \subseteq Unbraced
  <2>1. Broken # OpenBrace /\ Broken # CloseBrace
    BY DEF Broken, Mark, OpenBrace, CloseBrace
  <2>. QED BY <2>1, MarksDiffer, TokenTypes DEF Unbraced
<1>3. /\ \A s : String(s) # OpenBrace /\ String(s) # CloseBrace
      /\ \A n : Number(n) # OpenBrace /\ Number(n) # CloseBrace
      /\ \A b : Word(b) # OpenBrace /\ Word(b) # CloseBrace
  BY DEF String, Number, Word, Mark, OpenBrace, CloseBrace
<1>4. /\ \A s \in Phrase : String(s) \in Unbraced
      /\ \A n \in Nat : Number(n) \in Unbraced
      /\ \A b \in BOOLEAN : Word(b) \in Unbraced
  BY <1>3, TokenTypes DEF Unbraced
<1>5. Class(Seq(Unbraced), Phrase)
  BY <1>1, <1>2, <1>4, SeqIsClass
<1>. QED BY <1>5 DEF Flat

LEMMA AllIsClass == Class(Seq(Token), Phrase) /\ Braced(Seq(Token))
<1>1. Token \in SUBSET Token /\ Phrase \in SUBSET Phrase
  OBVIOUS
<1>2. Class(Seq(Token), Phrase)
  BY <1>1, TokenTypes, SeqIsClass
<1>3. Braced(Seq(Token))
  BY TokenTypes DEF Braced
<1>. QED BY <1>2, <1>3

----------------------------------------------------------------------------
(* A part of a document: what a reader finds in the file of one.           *)
PartOf(text, doc) ==
  /\ text \in Seq(Token) /\ Len(text) <= Len(doc)
  /\ \A i \in 1 .. Len(text) :
       text[i] = doc[i] \/ (i = Len(text) /\ text[i] \in Stumps(doc[i]))

LEMMA StumpsAreTokens ==
  ASSUME NEW t \in Token, NEW u \in Stumps(t)
  PROVE  /\ u \in Token /\ (u = Broken \/ u.kind = "number")
         /\ t.kind \in {"string", "word", "number"}
         /\ \A m : u # Mark(m) /\ t # Mark(m) /\ u # String(m)
<1>1. \A d \in {10, 100} : t.n \div d \in Nat
  <2>1. t.n \in Nat
    BY DEF Token
  <2>. QED BY <2>1
<1>2. \A n : Number(n).kind = "number"
  BY DEF Number
<1>3. Broken \in Token /\ \A n \in Nat : Number(n) \in Token
  BY TokenTypes
<1>4. CASE t.kind \in {"string", "word"}
  <2>1. u = Broken
    BY <1>4 DEF Stumps
  <2>. QED BY <1>3, <1>4, <2>1 DEF Broken, Mark, String
<1>5. CASE t.kind = "number"
  <2>1. PICK d \in {10, 100} : u = Number(t.n \div d)
    BY <1>5 DEF Stumps
  <2>2. u \in Token /\ u.kind = "number"
    BY <1>1, <1>2, <1>3, <2>1
  <2>. QED BY <1>5, <2>2 DEF Mark, String
<1>6. CASE t.kind \notin {"string", "word", "number"}
  BY <1>6 DEF Stumps
<1>. QED BY <1>4, <1>5, <1>6

LEMMA ReadableIsPart ==
  ASSUME NEW doc \in Seq(Token), NEW text \in Readable(doc)
  PROVE  PartOf(text, doc)
<1>1. PICK n \in 0 .. Len(doc) : text \in OnDisk(doc, n)
  BY DEF Readable
<1>2. n \in Nat /\ Len(doc) \in Nat /\ n <= Len(doc) /\ \A i \in 1 .. n : doc[i] \in Token
  BY <1>1
<1>. DEFINE w == SubSeq(doc, 1, n)
<1>3. w \in Seq(Token) /\ Len(w) = n /\ \A i \in 1 .. n : w[i] = doc[i]
  <2>1. /\ SubSeq(doc, 1, n) \in Seq(Token)
        /\ Len(SubSeq(doc, 1, n)) = (IF 1 <= n THEN n - 1 + 1 ELSE 0)
        /\ \A i \in 1 .. n - 1 + 1 : SubSeq(doc, 1, n)[i] = doc[1 + i - 1]
    BY <1>2, SubSeqProperties
  <2>. QED BY <1>2, <2>1
<1>. HIDE DEF w
<1>4. CASE text = w
  BY <1>2, <1>3, <1>4 DEF PartOf
<1>5. CASE n < Len(doc) /\ \E u \in Stumps(doc[n + 1]) : text = Append(w, u)
  <2>1. PICK u \in Stumps(doc[n + 1]) : text = Append(w, u)
    BY <1>5
  <2>2. doc[n + 1] \in Token
    BY <1>2, <1>5
  <2>3. u \in Token
    BY <2>1, <2>2, StumpsAreTokens
  <2>4. text \in Seq(Token) /\ Len(text) = n + 1 /\ text[n + 1] = u
        /\ \A i \in 1 .. n : text[i] = w[i]
    BY <1>2, <1>3, <2>1, <2>3
  <2>. QED BY <1>2, <1>3, <1>5, <2>1, <2>4 DEF PartOf
<1>. QED BY <1>1, <1>4, <1>5, Zenon DEF OnDisk, w

(* A mark or a string that is found in a part is in the document.          *)
LEMMA PartHits ==
  ASSUME NEW doc \in Seq(Token), NEW text, PartOf(text, doc), NEW i \in 1 .. Len(text)
  PROVE  /\ \A m : text[i] = Mark(m) <=> doc[i] = Mark(m)
         /\ \A m : text[i] = String(m) => text[i] = doc[i]
         /\ i < Len(text) => text[i] = doc[i]
         /\ i \in 1 .. Len(doc)
<1>1. Len(text) \in Nat /\ Len(doc) \in Nat /\ Len(text) <= Len(doc)
  BY DEF PartOf
<1>2. i \in 1 .. Len(doc)
  BY <1>1
<1>3. doc[i] \in Token
  BY <1>2
<1>4. text[i] = doc[i] \/ (i = Len(text) /\ text[i] \in Stumps(doc[i]))
  BY DEF PartOf
<1>5. ASSUME text[i] \in Stumps(doc[i])
      PROVE  \A m : text[i] # Mark(m) /\ doc[i] # Mark(m) /\ text[i] # String(m)
  BY <1>3, <1>5, StumpsAreTokens
<1>. QED BY <1>1, <1>2, <1>4, <1>5

(* What First finds.                                                       *)
LEMMA FirstIs ==
  ASSUME NEW text \in Seq(Token), NEW token, NEW from \in Nat, NEW k
  PROVE  k \in First(text, token, from) <=>
           /\ k \in from .. Len(text) /\ text[k] = token
           /\ \A i \in from .. k - 1 : text[i] # token
<1>. DEFINE hits == {p \in from .. Len(text) : text[p] = token}
<1>1. Len(text) \in Nat /\ hits \in SUBSET Nat
  OBVIOUS
<1>2. hits # {} => Min(hits) \in hits /\ \A y \in hits : Min(hits) <= y
  BY <1>1, MinIsLeast
<1>3. First(text, token, from) = IF hits = {} THEN {} ELSE {Min(hits)}
  BY Zenon DEF First
<1>4. ASSUME k \in First(text, token, from)
      PROVE  /\ k \in from .. Len(text) /\ text[k] = token
             /\ \A i \in from .. k - 1 : text[i] # token
  <2>1. hits # {} /\ k = Min(hits)
    BY <1>3, <1>4
  <2>2. k \in hits /\ \A y \in hits : k <= y
    BY <1>2, <2>1
  <2>3. ASSUME NEW i \in from .. k - 1, text[i] = token PROVE FALSE
    <3>1. i \in hits
      BY <2>2, <2>3
    <3>. QED BY <2>2, <3>1
  <2>. QED BY <2>2, <2>3
<1>5. ASSUME k \in from .. Len(text), text[k] = token,
             \A i \in from .. k - 1 : text[i] # token
      PROVE  k \in First(text, token, from)
  <2>1. k \in hits
    BY <1>5
  <2>2. Min(hits) \in hits /\ Min(hits) <= k
    BY <1>2, <2>1
  <2>3. Min(hits) = k
    BY <1>1, <1>5, <2>2
  <2>. QED BY <1>3, <2>1, <2>3
<1>. QED BY <1>4, <1>5

(* A reader of a part finds a value where it is in the document or not     *)
(* at all.                                                                 *)
LEMMA PartFirst ==
  ASSUME NEW doc \in Seq(Token), NEW text, PartOf(text, doc), NEW from \in Nat \ {0}
  PROVE  /\ \A m : First(text, Mark(m), from) \subseteq First(doc, Mark(m), from)
         /\ \A m : First(text, String(m), from) \subseteq First(doc, String(m), from)
<1>1. text \in Seq(Token) /\ Len(text) <= Len(doc) /\ Len(text) \in Nat /\ Len(doc) \in Nat
  BY DEF PartOf
<1>2. ASSUME NEW token, token \in {Mark(m) : m \in {token.text}} \cup {String(m) : m \in {token.text}},
             NEW k \in First(text, token, from)
      PROVE  k \in First(doc, token, from)
  <2>1. /\ k \in from .. Len(text) /\ text[k] = token
        /\ \A i \in from .. k - 1 : text[i] # token
    BY <1>1, <1>2, FirstIs
  <2>2. k \in 1 .. Len(text) /\ k \in from .. Len(doc) /\ k \in Nat
    BY <1>1, <2>1
  <2>3. doc[k] = token
    BY <1>2, <2>1, <2>2, PartHits
  <2>4. ASSUME NEW i \in from .. k - 1 PROVE doc[i] # token
    <3>1. i \in 1 .. Len(text) /\ i < Len(text)
      BY <1>1, <2>2
    <3>2. text[i] = doc[i]
      BY <3>1, PartHits
    <3>. QED BY <2>1, <3>2
  <2>. QED BY <2>2, <2>3, <2>4, FirstIs
<1>3. \A m : Mark(m).text = m /\ String(m).text = m
  BY DEF Mark, String
<1>4. ASSUME NEW m PROVE First(text, Mark(m), from) \subseteq First(doc, Mark(m), from)
  BY <1>2, <1>3
<1>5. ASSUME NEW m PROVE First(text, String(m), from) \subseteq First(doc, String(m), from)
  BY <1>2, <1>3
<1>. QED BY <1>4, <1>5

LEMMA PartValueStart ==
  ASSUME NEW doc \in Seq(Token), NEW text, PartOf(text, doc), NEW key
  PROVE  /\ ValueStart(text, key) \subseteq ValueStart(doc, key)
         /\ ValueStart(text, key) \subseteq Nat \ {0}
<1>1. text \in Seq(Token) /\ Len(text) \in Nat
  BY DEF PartOf
<1>2. ASSUME NEW p \in ValueStart(text, key)
      PROVE  p \in ValueStart(doc, key) /\ p \in Nat \ {0}
  <2>1. PICK k \in First(text, String(key), 1) : p \in {c + 1 : c \in First(text, Colon, k + 1)}
    BY <1>2, Zenon DEF ValueStart
  <2>2. PICK c \in First(text, Colon, k + 1) : p = c + 1
    BY <2>1
  <2>3. k \in 1 .. Len(text)
    BY <1>1, FirstIs
  <2>4. k \in First(doc, String(key), 1)
    BY PartFirst
  <2>5. k + 1 \in Nat \ {0}
    BY <1>1, <2>3
  <2>6. c \in First(doc, Colon, k + 1)
    BY <2>5, PartFirst DEF Colon
  <2>7. c \in k + 1 .. Len(text)
    BY <1>1, <2>5, FirstIs
  <2>8. p \in Nat \ {0}
    BY <1>1, <2>2, <2>5, <2>7
  <2>9. p \in {d + 1 : d \in First(doc, Colon, k + 1)}
    BY <2>2, <2>6
  <2>10. p \in ValueStart(doc, key)
    BY <2>4, <2>9, Zenon DEF ValueStart
  <2>. QED BY <2>8, <2>10
<1>. QED BY <1>2

(* The value v of the key stands at p in a document. *)
Stands(doc, key, p, v) ==
  /\ doc \in Seq(Token) /\ ValueStart(doc, key) = {p}
  /\ Len(v) \in Nat /\ p \in Nat \ {0} /\ p + Len(v) <= Len(doc) + 1
  /\ \A i \in 1 .. Len(v) : doc[p + i - 1] = v[i]

(* A field is found where it stands, if its name is not in the text before. *)
LEMMA FieldFound ==
  ASSUME NEW key \in Phrase, NEW a \in Without(key), NEW v \in Seq(Token), NEW b \in Seq(Token),
         NEW doc, Split(doc, a, Field(key, v), b)
  PROVE  Stands(doc, key, Len(a) + 3, v)
<1>1. String(key) \in Token /\ Colon \in Token /\ String(key) # Colon
  <2>1. String(key) # Colon
    BY DEF String, Colon, Mark
  <2>. QED BY <2>1, TokenTypes
<1>2. a \in Seq(Token) /\ Len(a) \in Nat /\ \A i \in 1 .. Len(a) : a[i] # String(key)
  <2>1. Without(key) \subseteq Seq(Token)
    BY SeqMonotonic DEF Without, Others
  <2>2. a \in Seq(Others(key))
    BY DEF Without
  <2>3. \A i \in 1 .. Len(a) : a[i] \in Others(key)
    BY <2>2
  <2>. QED BY <2>1, <2>3 DEF Others
<1>. DEFINE f == Field(key, v)
<1>3. /\ f \in Seq(Token) /\ Len(f) = 2 + Len(v) /\ f[1] = String(key) /\ f[2] = Colon
      /\ \A i \in 1 .. Len(v) : f[2 + i] = v[i]
  BY <1>1 DEF Field
<1>. HIDE DEF f
<1>4. /\ a \o f \in Seq(Token) /\ Len(a \o f) = Len(a) + 2 + Len(v)
      /\ \A i \in 1 .. Len(a) : (a \o f)[i] = a[i]
      /\ \A i \in 1 .. Len(f) : (a \o f)[Len(a) + i] = f[i]
  <2>0. a \in Seq(Token) /\ f \in Seq(Token)
    BY <1>2, <1>3
  <2>1. /\ a \o f \in Seq(Token) /\ Len(a \o f) = Len(a) + Len(f)
        /\ \A i \in 1 .. Len(a) + Len(f) :
             (a \o f)[i] = IF i <= Len(a) THEN a[i] ELSE f[i - Len(a)]
    BY <2>0, ConcatProperties
  <2>2. Len(f) \in Nat /\ Len(a) \in Nat
    BY <1>2, <1>3
  <2>3. ASSUME NEW i \in 1 .. Len(f) PROVE (a \o f)[Len(a) + i] = f[i]
    <3>1. Len(a) + i \in 1 .. Len(a) + Len(f) /\ ~(Len(a) + i <= Len(a))
          /\ (Len(a) + i) - Len(a) = i
      BY <2>2
    <3>. QED BY <2>1, <3>1
  <2>4. ASSUME NEW i \in 1 .. Len(a) PROVE (a \o f)[i] = a[i]
    BY <2>1, <2>2
  <2>5. Len(a) + Len(f) = Len(a) + 2 + Len(v)
    BY <1>3, <2>2
  <2>. QED BY <2>1, <2>3, <2>4, <2>5
<1>5. Len(v) \in Nat /\ Len(b) \in Nat
  OBVIOUS
<1>. DEFINE g == a \o f
<1>. HIDE DEF g
<1>6. /\ doc \in Seq(Token) /\ Len(doc) = Len(g) + Len(b)
      /\ \A i \in 1 .. Len(g) : doc[i] = g[i]
  <2>1. g \in Seq(Token) /\ doc = g \o b
    BY <1>4, Zenon DEF g, f, Split
  <2>. QED BY <2>1
<1>7. /\ Len(doc) = Len(a) + 2 + Len(v) + Len(b)
      /\ \A i \in 1 .. Len(a) : doc[i] = a[i]
      /\ \A i \in 1 .. Len(f) : doc[Len(a) + i] = f[i]
  <2>1. \A i \in 1 .. Len(g) : doc[i] = g[i]
    BY <1>6
  <2>2. Len(g) = Len(a) + 2 + Len(v) /\ Len(f) = 2 + Len(v)
    BY <1>3, <1>4 DEF g
  <2>3. \A i \in 1 .. Len(a) : doc[i] = a[i]
    <3>1. \A i \in 1 .. Len(a) : i \in 1 .. Len(g)
      BY <1>2, <1>5, <2>2
    <3>. QED BY <1>4, <2>1, <3>1 DEF g
  <2>4. \A i \in 1 .. Len(f) : doc[Len(a) + i] = f[i]
    <3>1. \A i \in 1 .. Len(f) : Len(a) + i \in 1 .. Len(g)
      BY <1>2, <1>5, <2>2
    <3>. QED BY <1>4, <2>1, <3>1 DEF g
  <2>. QED BY <1>5, <1>6, <2>2, <2>3, <2>4
<1>8. doc[Len(a) + 1] = String(key) /\ doc[Len(a) + 2] = Colon
      /\ \A i \in 1 .. Len(v) : doc[Len(a) + 2 + i] = v[i]
  <2>1. 1 \in 1 .. Len(f) /\ 2 \in 1 .. Len(f) /\ \A i \in 1 .. Len(v) : 2 + i \in 1 .. Len(f)
    BY <1>3, <1>5
  <2>2. \A i \in 1 .. Len(v) : Len(a) + (2 + i) = Len(a) + 2 + i
    BY <1>2
  <2>. QED BY <1>3, <1>7, <2>1, <2>2
<1>9. First(doc, String(key), 1) = {Len(a) + 1}
  <2>1. ASSUME NEW k \in First(doc, String(key), 1) PROVE k = Len(a) + 1
    <3>1. /\ k \in 1 .. Len(doc) /\ doc[k] = String(key)
          /\ \A i \in 1 .. k - 1 : doc[i] # String(key)
      BY <1>6, FirstIs
    <3>2. k \notin 1 .. Len(a)
      BY <1>2, <1>7, <3>1
    <3>3. Len(a) + 1 \notin 1 .. k - 1
      BY <1>8, <3>1
    <3>. QED BY <1>2, <3>1, <3>2, <3>3
  <2>2. Len(a) + 1 \in First(doc, String(key), 1)
    <3>1. Len(a) + 1 \in 1 .. Len(doc)
      BY <1>2, <1>5, <1>7
    <3>2. \A i \in 1 .. (Len(a) + 1) - 1 : doc[i] # String(key)
      BY <1>2, <1>7
    <3>. QED BY <1>6, <1>8, <3>1, <3>2, FirstIs
  <2>. QED BY <2>1, <2>2
<1>10. First(doc, Colon, (Len(a) + 1) + 1) = {Len(a) + 2}
  <2>. DEFINE from == (Len(a) + 1) + 1
  <2>1. from \in Nat /\ from = Len(a) + 2 /\ from \in from .. Len(doc)
    BY <1>2, <1>5, <1>7
  <2>. HIDE DEF from
  <2>2. ASSUME NEW k \in First(doc, Colon, from) PROVE k = from
    <3>1. k \in from .. Len(doc) /\ \A i \in from .. k - 1 : doc[i] # Colon
      BY <1>6, <2>1, FirstIs
    <3>2. from \notin from .. k - 1
      BY <1>8, <2>1, <3>1
    <3>. QED BY <1>6, <2>1, <3>1, <3>2
  <2>3. from \in First(doc, Colon, from)
    <3>1. \A i \in from .. from - 1 : FALSE
      BY <2>1
    <3>. QED BY <1>6, <1>8, <2>1, <3>1, FirstIs
  <2>. QED BY <2>1, <2>2, <2>3 DEF from
<1>11. ValueStart(doc, key) = {Len(a) + 3}
  <2>1. ValueStart(doc, key) = {c + 1 : c \in First(doc, Colon, (Len(a) + 1) + 1)}
    BY <1>9, Zenon DEF ValueStart
  <2>2. (Len(a) + 2) + 1 = Len(a) + 3
    BY <1>2
  <2>. QED BY <1>10, <2>1, <2>2
<1>12. ASSUME NEW i \in 1 .. Len(v) PROVE doc[Len(a) + 3 + i - 1] = v[i]
  <2>1. Len(a) + 3 + i - 1 = Len(a) + 2 + i
    BY <1>2, <1>5
  <2>. QED BY <1>8, <2>1
<1>13. Len(a) + 3 \in Nat \ {0} /\ Len(a) + 3 + Len(v) <= Len(doc) + 1
  BY <1>2, <1>5, <1>7
<1>. QED BY <1>5, <1>6, <1>11, <1>12, <1>13, Zenon DEF Stands

(* A value that is a single token.                                         *)
LEMMA TokenFields ==
  ASSUME NEW key, NEW p, NEW t, NEW doc, Stands(doc, key, p, <<t>>)
  PROVE  /\ t.kind = "word" => BoolField(doc, key) = {t.text = "true"}
         /\ t.kind = "string" => StringField(doc, key) = {t.text}
         /\ t.kind = "number" => NumberField(doc, key) = {t.n}
<1>1. Len(<<t>>) = 1 /\ <<t>>[1] = t
  OBVIOUS
<1>2. /\ p \in Nat \ {0} /\ p + 1 <= Len(doc) + 1 /\ doc[p + 1 - 1] = t
      /\ Len(doc) \in Nat /\ DOMAIN doc = 1 .. Len(doc)
  BY <1>1 DEF Stands
<1>3. doc[p] = t /\ p \in DOMAIN doc
  BY <1>2
<1>4. \A kind : TokenAt(doc, p, kind) = IF t.kind = kind THEN {t} ELSE {}
  BY <1>3 DEF TokenAt
<1>5. ValueStart(doc, key) = {p}
  BY Zenon DEF Stands
<1>6. t.kind = "word" => BoolField(doc, key) = {t.text = "true"}
  <2>1. t.kind = "word" => UNION {TokenAt(doc, q, "word") : q \in ValueStart(doc, key)} = {t}
    BY <1>4, <1>5, Zenon
  <2>. QED BY <2>1 DEF BoolField
<1>7. t.kind = "string" => StringField(doc, key) = {t.text}
  <2>1. t.kind = "string" => UNION {TokenAt(doc, q, "string") : q \in ValueStart(doc, key)} = {t}
    BY <1>4, <1>5, Zenon
  <2>. QED BY <2>1 DEF StringField
<1>8. t.kind = "number" => NumberField(doc, key) = {t.n}
  <2>1. t.kind = "number" => UNION {TokenAt(doc, q, "number") : q \in ValueStart(doc, key)} = {t}
    BY <1>4, <1>5, Zenon
  <2>. QED BY <2>1 DEF NumberField
<1>. QED BY <1>6, <1>7, <1>8

----------------------------------------------------------------------------
LEMMA Positions ==
  ASSUME NEW T, NEW a \in Seq(T), NEW b \in Seq(T)
  PROVE  /\ a \o b \in Seq(T) /\ Len(a \o b) = Len(a) + Len(b)
         /\ \A i \in 1 .. Len(a) : (a \o b)[i] = a[i]
         /\ \A i \in 1 .. Len(b) : (a \o b)[Len(a) + i] = b[i]
<1>1. /\ a \o b \in Seq(T) /\ Len(a \o b) = Len(a) + Len(b)
      /\ \A i \in 1 .. Len(a) + Len(b) :
           (a \o b)[i] = IF i <= Len(a) THEN a[i] ELSE b[i - Len(a)]
  BY ConcatProperties
<1>2. Len(a) \in Nat /\ Len(b) \in Nat
  OBVIOUS
<1>3. ASSUME NEW i \in 1 .. Len(b) PROVE (a \o b)[Len(a) + i] = b[i]
  <2>1. Len(a) + i \in 1 .. Len(a) + Len(b) /\ ~(Len(a) + i <= Len(a))
        /\ (Len(a) + i) - Len(a) = i
    BY <1>2
  <2>. QED BY <1>1, <2>1
<1>4. ASSUME NEW i \in 1 .. Len(a) PROVE (a \o b)[i] = a[i]
  BY <1>1, <1>2
<1>. QED BY <1>1, <1>3, <1>4

(* Lists of single tokens: they take turns with the commas.                *)
Ones(s) == [i \in DOMAIN s |-> <<s[i]>>]

Alternates(l, s) ==
  /\ l \in Seq(Token) /\ Len(l) = (IF Len(s) = 0 THEN 0 ELSE 2 * Len(s) - 1)
  /\ \A i \in 1 .. Len(s) : l[2 * i - 1] = s[i]
  /\ \A i \in 1 .. Len(s) - 1 : l[2 * i] = Comma

LEMMA OnesAppend ==
  ASSUME NEW t \in Seq(Token), NEW x \in Token
  PROVE  /\ Ones(Append(t, x)) = Append(Ones(t), <<x>>)
         /\ Ones(t) \in Seq(Seq(Token)) /\ Len(Ones(t)) = Len(t)
<1>1. DOMAIN t = 1 .. Len(t) /\ Len(t) \in Nat /\ \A i \in 1 .. Len(t) : t[i] \in Token
  OBVIOUS
<1>2. \A i \in 1 .. Len(t) : <<t[i]>> \in Seq(Token)
  BY <1>1
<1>3. Ones(t) = [i \in 1 .. Len(t) |-> <<t[i]>>]
  BY <1>1 DEF Ones
<1>4. Ones(t) \in [1 .. Len(t) -> Seq(Token)]
  BY <1>2, <1>3, Zenon
<1>5. Ones(t) \in Seq(Seq(Token)) /\ Len(Ones(t)) = Len(t)
  BY <1>1, <1>4
<1>6. Append(t, x) \in Seq(Token) /\ Len(Append(t, x)) = Len(t) + 1
      /\ DOMAIN Append(t, x) = 1 .. Len(t) + 1
      /\ Append(t, x)[Len(t) + 1] = x /\ \A i \in 1 .. Len(t) : Append(t, x)[i] = t[i]
  BY <1>1
<1>7. Ones(Append(t, x)) = [i \in 1 .. Len(t) + 1 |-> <<Append(t, x)[i]>>]
  BY <1>6 DEF Ones
<1>. DEFINE o == Ones(t)
<1>8. o \in Seq(Seq(Token)) /\ Len(o) = Len(t) /\ \A i \in 1 .. Len(t) : o[i] = <<t[i]>>
  BY <1>3, <1>5
<1>. HIDE DEF o
<1>9. Append(o, <<x>>) = [i \in 1 .. Len(t) + 1 |-> Append(o, <<x>>)[i]]
      /\ Append(o, <<x>>)[Len(t) + 1] = <<x>>
      /\ \A i \in 1 .. Len(t) : Append(o, <<x>>)[i] = <<t[i]>>
  BY <1>1, <1>8
<1>10. \A i \in 1 .. Len(t) + 1 : Append(o, <<x>>)[i] = <<Append(t, x)[i]>>
  <2>1. \A i \in 1 .. Len(t) + 1 : i \in 1 .. Len(t) \/ i = Len(t) + 1
    BY <1>1
  <2>. QED BY <1>6, <1>9, <2>1
<1>11. Ones(Append(t, x)) = Append(o, <<x>>)
  BY <1>7, <1>9, <1>10
<1>. QED BY <1>5, <1>11 DEF o

LEMMA ListedOnes ==
  \A s \in Seq(Token) : Alternates(Listed(Ones(s)), s)
<1>. DEFINE G == {n \in Nat : \A s \in Seq(Token) : Len(s) = n => Alternates(Listed(Ones(s)), s)}
<1>1. 0 \in G
  <2>1. ASSUME NEW s \in Seq(Token), Len(s) = 0 PROVE Alternates(Listed(Ones(s)), s)
    <3>1. s = <<>>
      BY <2>1, EmptySeq
    <3>2. Ones(s) = <<>>
      BY <3>1 DEF Ones
    <3>3. Listed(Ones(s)) = <<>>
      BY <3>2, ListedEmpty
    <3>. QED BY <2>1, <3>3 DEF Alternates
  <2>. QED BY <2>1
<1>2. ASSUME NEW n \in Nat, n \in G PROVE n + 1 \in G
  <2>1. SUFFICES ASSUME NEW s \in Seq(Token), Len(s) = n + 1
                 PROVE  Alternates(Listed(Ones(s)), s)
    OBVIOUS
  <2>. DEFINE t == SubSeq(s, 1, Len(s) - 1)
              x == s[Len(s)]
  <2>2. t \in Seq(Token) /\ Len(t) = n /\ x \in Token /\ s = Append(t, x)
    <3>1. s # <<>>
      BY <2>1
    <3>. QED BY <2>1, <3>1, SequenceGrows
  <2>. HIDE DEF t, x
  <2>. DEFINE l == Listed(Ones(t))
  <2>3. Alternates(l, t)
    BY <1>2, <2>2
  <2>4. Listed(Ones(s)) = IF Ones(t) = <<>> THEN <<x>> ELSE l \o (<<Comma>> \o <<x>>)
    <3>1. Ones(s) = Append(Ones(t), <<x>>) /\ Ones(t) \in Seq(Seq(Token))
      BY <2>2, OnesAppend
    <3>2. <<x>> \in Seq(Token)
      BY <2>2
    <3>. QED BY <3>1, <3>2, ListedAppend
  <2>5. Ones(t) = <<>> <=> n = 0
    <3>1. Len(Ones(t)) = n /\ Ones(t) \in Seq(Seq(Token))
      BY <2>2, OnesAppend
    <3>. QED BY <3>1, EmptySeq
  <2>6. /\ \A i \in 1 .. n : s[i] = t[i]
        /\ s[n + 1] = x
    BY <2>2
  <2>. HIDE DEF l
  <2>7. CASE n = 0
    <3>1. Listed(Ones(s)) = <<x>>
      BY <2>4, <2>5, <2>7
    <3>2. <<x>> \in Seq(Token) /\ Len(<<x>>) = 1 /\ <<x>>[1] = x
      BY <2>2
    <3>. QED BY <2>1, <2>6, <2>7, <3>1, <3>2 DEF Alternates
  <2>8. CASE n # 0
    <3>. DEFINE e == <<Comma>> \o <<x>>
    <3>1. e \in Seq(Token) /\ Len(e) = 2 /\ e[1] = Comma /\ e[2] = x
      BY <2>2, TokenTypes
    <3>. HIDE DEF e
    <3>2. /\ l \in Seq(Token) /\ Len(l) = 2 * n - 1
          /\ \A i \in 1 .. n : l[2 * i - 1] = t[i]
          /\ \A i \in 1 .. n - 1 : l[2 * i] = Comma
      BY <2>2, <2>3, <2>8 DEF Alternates
    <3>. DEFINE m == l \o e
    <3>3. /\ m \in Seq(Token) /\ Len(m) = Len(l) + 2
          /\ \A i \in 1 .. Len(l) : m[i] = l[i]
          /\ m[Len(l) + 1] = Comma /\ m[Len(l) + 2] = x
      <4>1. l \in Seq(Token) /\ e \in Seq(Token)
        BY <3>1, <3>2
      <4>2. /\ m \in Seq(Token) /\ Len(m) = Len(l) + Len(e)
            /\ \A i \in 1 .. Len(l) : m[i] = l[i]
            /\ \A i \in 1 .. Len(e) : m[Len(l) + i] = e[i]
        BY <4>1, Positions
      <4>3. 1 \in 1 .. Len(e) /\ 2 \in 1 .. Len(e)
        BY <3>1
      <4>. QED BY <3>1, <4>2, <4>3
    <3>. HIDE DEF m
    <3>4. Listed(Ones(s)) = m
      BY <2>4, <2>5, <2>8 DEF m, e
    <3>5. ASSUME NEW i \in 1 .. n + 1 PROVE m[2 * i - 1] = s[i]
      <4>1. CASE i \in 1 .. n
        <5>1. 2 * i - 1 \in 1 .. Len(l)
          BY <3>2, <4>1
        <5>. QED BY <2>6, <3>2, <3>3, <4>1, <5>1
      <4>2. CASE i = n + 1
        <5>1. 2 * i - 1 = Len(l) + 2
          BY <3>2, <4>2
        <5>. QED BY <2>6, <3>3, <4>2, <5>1
      <4>. QED BY <4>1, <4>2
    <3>6. ASSUME NEW i \in 1 .. n PROVE m[2 * i] = Comma
      <4>1. CASE i \in 1 .. n - 1
        <5>1. 2 * i \in 1 .. Len(l)
          BY <3>2, <4>1
        <5>. QED BY <3>2, <3>3, <4>1, <5>1
      <4>2. CASE i = n
        <5>1. 2 * i = Len(l) + 1
          BY <3>2, <4>2
        <5>. QED BY <3>3, <4>2, <5>1
      <4>. QED BY <4>1, <4>2
    <3>7. Len(m) = 2 * (n + 1) - 1
      BY <3>2, <3>3
    <3>. QED BY <2>1, <3>3, <3>4, <3>5, <3>6, <3>7 DEF Alternates
  <2>. QED BY <2>7, <2>8
<1>. HIDE DEF G
<1>3. \A n \in Nat : n \in G
  BY <1>1, <1>2, Induction
<1>4. \A s \in Seq(Token) : Len(s) \in Nat
  OBVIOUS
<1>. QED BY <1>3, <1>4 DEF G

LEMMA AlternatesBack ==
  ASSUME NEW s \in Seq(Token), NEW l, Alternates(l, s)
  PROVE  /\ \A j \in 1 .. Len(l) : j % 2 = 1 => \E i \in 1 .. Len(s) : j = 2 * i - 1 /\ l[j] = s[i]
         /\ \A j \in 1 .. Len(l) : j % 2 # 1 => l[j] = Comma
<1>1. Len(s) \in Nat /\ Len(l) = (IF Len(s) = 0 THEN 0 ELSE 2 * Len(s) - 1)
  BY DEF Alternates
<1>2. ASSUME NEW j \in 1 .. Len(l), j % 2 = 1
      PROVE  \E i \in 1 .. Len(s) : j = 2 * i - 1 /\ l[j] = s[i]
  <2>1. PICK i \in Int : j = 2 * i - 1
    <3>1. j = 2 * ((j + 1) \div 2) - 1
      BY <1>1, <1>2
    <3>. QED BY <1>1, <3>1
  <2>2. i \in 1 .. Len(s)
    BY <1>1, <2>1
  <2>. QED BY <2>1, <2>2 DEF Alternates
<1>3. ASSUME NEW j \in 1 .. Len(l), j % 2 # 1 PROVE l[j] = Comma
  <2>1. PICK i \in Int : j = 2 * i
    <3>1. j = 2 * (j \div 2)
      BY <1>1, <1>3
    <3>. QED BY <1>1, <3>1
  <2>2. i \in 1 .. Len(s) - 1
    BY <1>1, <2>1
  <2>. QED BY <2>1, <2>2 DEF Alternates
<1>. QED BY <1>2, <1>3

OfKind(s, kind) == \A i \in 1 .. Len(s) : s[i].kind = kind

(* An array of single tokens of a kind is read with all its items.         *)
HasItems(doc, key, p, v, kind, s) ==
  /\ Stands(doc, key, p, v) /\ v = Array(Ones(s))
  /\ s \in Seq(Token) /\ kind # "mark" /\ OfKind(s, kind)

ItemsAreRead(doc, key, kind, s) == ArrayField(doc, key, kind) = {{s[i] : i \in 1 .. Len(s)}}

LEMMA ArrayFields ==
  ASSUME NEW doc, NEW key, NEW p, NEW v, NEW kind, NEW s, HasItems(doc, key, p, v, kind, s)
  PROVE  ItemsAreRead(doc, key, kind, s)
<1>. SUFFICES ASSUME s \in Seq(Token), Stands(doc, key, p, v), v = Array(Ones(s)),
                     kind # "mark", OfKind(s, kind)
              PROVE  ArrayField(doc, key, kind) = {{s[i] : i \in 1 .. Len(s)}}
  BY DEF HasItems, ItemsAreRead
<1>. DEFINE l == Listed(Ones(s))
<1>1. Alternates(l, s)
  BY ListedOnes
<1>2. l \in Seq(Token) /\ Len(l) \in Nat /\ Len(s) \in Nat
  BY <1>1 DEF Alternates
<1>. HIDE DEF l
<1>3. /\ v[1] = OpenBracket /\ v[Len(l) + 2] = CloseBracket /\ Len(v) = Len(l) + 2
      /\ \A i \in 1 .. Len(l) : v[i + 1] = l[i]
  <2>. DEFINE u == <<OpenBracket>> \o l
  <2>1. u \in Seq(Token) /\ Len(u) = Len(l) + 1 /\ u[1] = OpenBracket
        /\ \A i \in 1 .. Len(l) : u[i + 1] = l[i]
    BY <1>2, TokenTypes
  <2>. HIDE DEF u
  <2>. DEFINE w == u \o <<CloseBracket>>
  <2>2. /\ w[Len(u) + 1] = CloseBracket /\ Len(w) = Len(u) + 1
        /\ \A i \in 1 .. Len(u) : w[i] = u[i]
    BY <2>1, TokenTypes
  <2>3. v = w
    BY DEF Array, u, l
  <2>. HIDE DEF w
  <2>4. \A i \in 1 .. Len(l) : i + 1 \in 1 .. Len(u)
    BY <1>2, <2>1
  <2>5. 1 \in 1 .. Len(u) /\ Len(u) + 1 = Len(l) + 2
    BY <1>2, <2>1
  <2>. QED BY <2>1, <2>2, <2>3, <2>4, <2>5
<1>4. /\ doc \in Seq(Token) /\ ValueStart(doc, key) = {p} /\ p \in Nat \ {0}
      /\ p + Len(v) <= Len(doc) + 1
      /\ \A i \in 1 .. Len(v) : doc[p + i - 1] = v[i]
  BY DEF Stands
<1>. DEFINE q == p + Len(l) + 1
<1>5. /\ doc[p] = OpenBracket /\ doc[q] = CloseBracket
      /\ \A i \in p + 1 .. q - 1 : i - p \in 1 .. Len(l) /\ doc[i] = l[i - p]
      /\ q \in p + 1 .. Len(doc) /\ Len(doc) \in Nat
  <2>1. p + 1 - 1 = p /\ p + (Len(l) + 2) - 1 = q /\ 1 \in 1 .. Len(v)
        /\ Len(l) + 2 \in 1 .. Len(v)
    BY <1>2, <1>3, <1>4
  <2>2. ASSUME NEW i \in p + 1 .. q - 1 PROVE i - p \in 1 .. Len(l) /\ doc[i] = l[i - p]
    <3>1. i - p \in 1 .. Len(l) /\ (i - p) + 1 \in 1 .. Len(v) /\ p + ((i - p) + 1) - 1 = i
      BY <1>2, <1>3, <1>4
    <3>. QED BY <1>3, <1>4, <3>1
  <2>3. doc[p] = OpenBracket /\ doc[q] = CloseBracket
    <3>1. doc[p + 1 - 1] = v[1] /\ doc[p + (Len(l) + 2) - 1] = v[Len(l) + 2]
      BY <1>4, <2>1
    <3>. QED BY <1>3, <2>1, <3>1
  <2>4. q \in p + 1 .. Len(doc) /\ Len(doc) \in Nat
    BY <1>2, <1>3, <1>4
  <2>. QED BY <2>2, <2>3, <2>4
<1>. HIDE DEF q
<1>6. q \in Nat /\ p + 1 \in Nat
  BY <1>4, <1>5
<1>7. /\ \A j \in 1 .. Len(l) : j % 2 = 1 => \E i \in 1 .. Len(s) : j = 2 * i - 1 /\ l[j] = s[i]
      /\ \A j \in 1 .. Len(l) : j % 2 # 1 => l[j] = Comma
  BY <1>1, AlternatesBack
<1>0. \A i \in 1 .. Len(s) : s[i].kind = kind
  BY DEF OfKind
<1>8. Comma.kind = "mark" /\ CloseBracket.kind = "mark" /\ Comma # CloseBracket
  <2>1. Comma.kind = "mark" /\ CloseBracket.kind = "mark"
    BY DEF Comma, CloseBracket, Mark
  <2>. QED BY <2>1, MarksDiffer
<1>9. \A i \in p + 1 .. q - 1 :
        /\ IF (i - p) % 2 = 1 THEN doc[i].kind = kind ELSE doc[i] = Comma
        /\ doc[i] # CloseBracket
  <2>1. SUFFICES ASSUME NEW i \in p + 1 .. q - 1
                 PROVE  /\ IF (i - p) % 2 = 1 THEN doc[i].kind = kind ELSE doc[i] = Comma
                        /\ doc[i] # CloseBracket
    OBVIOUS
  <2>. DEFINE j == i - p
  <2>2. j \in 1 .. Len(l) /\ doc[i] = l[j]
    BY <1>5
  <2>. HIDE DEF j
  <2>3. CASE j % 2 = 1
    <3>1. PICK k \in 1 .. Len(s) : l[j] = s[k]
      BY <1>7, <2>2, <2>3
    <3>. QED BY <1>0, <1>8, <2>2, <2>3, <3>1 DEF j
  <2>4. CASE j % 2 # 1
    <3>1. l[j] = Comma
      BY <1>7, <2>2, <2>4
    <3>. QED BY <1>8, <2>2, <2>4, <3>1 DEF j
  <2>. QED BY <2>3, <2>4
<1>10. First(doc, CloseBracket, p + 1) = {q}
  <2>1. q \in First(doc, CloseBracket, p + 1)
    BY <1>4, <1>5, <1>6, <1>9, FirstIs
  <2>2. ASSUME NEW k \in First(doc, CloseBracket, p + 1) PROVE k = q
    <3>1. k \in p + 1 .. Len(doc) /\ doc[k] = CloseBracket
          /\ \A i \in p + 1 .. k - 1 : doc[i] # CloseBracket
      BY <1>4, <1>6, FirstIs
    <3>2. k \notin p + 1 .. q - 1
      BY <1>9, <3>1
    <3>3. q \notin p + 1 .. k - 1
      BY <1>5, <3>1
    <3>. QED BY <1>4, <1>5, <1>6, <3>1, <3>2, <3>3
  <2>. QED BY <2>1, <2>2
<1>11. {doc[i] : i \in {j \in p + 1 .. q - 1 : doc[j].kind = kind}} = {s[i] : i \in 1 .. Len(s)}
  <2>1. ASSUME NEW i \in p + 1 .. q - 1, doc[i].kind = kind
        PROVE  \E j \in 1 .. Len(s) : doc[i] = s[j]
    <3>. DEFINE j == i - p
    <3>1. j \in 1 .. Len(l) /\ doc[i] = l[j]
      BY <1>5
    <3>. HIDE DEF j
    <3>2. j % 2 = 1
      BY <1>7, <1>8, <2>1, <3>1
    <3>. QED BY <1>7, <3>1, <3>2
  <2>2. ASSUME NEW j \in 1 .. Len(s)
        PROVE  \E i \in p + 1 .. q - 1 : doc[i].kind = kind /\ doc[i] = s[j]
    <3>0. s[j].kind = kind
      BY <1>0
    <3>1. 2 * j - 1 \in 1 .. Len(l) /\ l[2 * j - 1] = s[j]
      BY <1>1, <1>2 DEF Alternates
    <3>2. p + (2 * j - 1) \in p + 1 .. q - 1 /\ (p + (2 * j - 1)) - p = 2 * j - 1
      BY <1>2, <1>4, <3>1 DEF q
    <3>3. doc[p + (2 * j - 1)] = s[j]
      BY <1>5, <3>1, <3>2
    <3>. QED BY <3>0, <3>2, <3>3
  <2>3. ASSUME NEW x PROVE x \in {doc[i] : i \in {j \in p + 1 .. q - 1 : doc[j].kind = kind}}
                           <=> x \in {s[i] : i \in 1 .. Len(s)}
    <3>. DEFINE I == {j \in p + 1 .. q - 1 : doc[j].kind = kind}
    <3>1. ASSUME NEW i \in I, x = doc[i] PROVE \E j \in 1 .. Len(s) : x = s[j]
      BY <2>1, <3>1
    <3>2. ASSUME NEW j \in 1 .. Len(s), x = s[j] PROVE \E i \in I : x = doc[i]
      BY <2>2, <3>2
    <3>. HIDE DEF I
    <3>3. x \in {doc[i] : i \in I} <=> x \in {s[i] : i \in 1 .. Len(s)}
      BY <3>1, <3>2
    <3>. QED BY <3>3 DEF I
  <2>. QED BY <2>3
<1>12. ItemsAt(doc, p, kind) = {{s[i] : i \in 1 .. Len(s)}}
  <2>1. {e \in First(doc, CloseBracket, p + 1) :
          /\ doc[p] = OpenBracket
          /\ \A i \in p + 1 .. e - 1 :
               IF (i - p) % 2 = 1 THEN doc[i].kind = kind ELSE doc[i] = Comma} = {q}
    BY <1>5, <1>9, <1>10
  <2>2. ItemsAt(doc, p, kind) = {{doc[i] : i \in {j \in p + 1 .. e - 1 : doc[j].kind = kind}} : e \in {q}}
    BY <2>1, Zenon DEF ItemsAt
  <2>. QED BY <1>11, <2>2
<1>. QED BY <1>4, <1>12, Zenon DEF ArrayField

NumberItems(S) == Array([i \in DOMAIN SetToSeq(S) |-> <<Number(SetToSeq(S)[i])>>])

LEMMA NumbersFields ==
  ASSUME NEW key, NEW p, NEW S, S \in CpuLists, NEW doc, NEW v,
         Stands(doc, key, p, v),
         v = NumberItems(S)
  PROVE  NumberSetField(doc, key) = {S}
<1>. DEFINE z == SetToSeq(S)
            s == [i \in DOMAIN z |-> Number(z[i])]
<1>1. S \in SUBSET Nat /\ IsFiniteSet(S)
  BY DEF CpuLists
<1>2. z \in Seq(S) /\ {z[i] : i \in 1 .. Len(z)} = S
  BY <1>1, SetToSeqListsIt
<1>. HIDE DEF z
<1>3. DOMAIN z = 1 .. Len(z) /\ Len(z) \in Nat /\ \A i \in 1 .. Len(z) : z[i] \in Nat
  <2>1. z \in Seq(Nat)
    BY <1>1, <1>2, SeqMonotonic
  <2>. QED BY <2>1
<1>4. \A i \in 1 .. Len(z) : Number(z[i]) \in Token
  BY <1>3, TokenTypes
<1>5. s \in [1 .. Len(z) -> Token]
  BY <1>3, <1>4, Zenon
<1>6. s \in Seq(Token) /\ Len(s) = Len(z) /\ DOMAIN s = 1 .. Len(z)
  BY <1>3, <1>5
<1>7. \A i \in 1 .. Len(s) : s[i] = Number(z[i]) /\ s[i].kind = "number" /\ s[i].n = z[i]
  BY <1>3, <1>6 DEF Number
<1>8. [i \in DOMAIN z |-> <<Number(z[i])>>] = Ones(s)
  BY <1>3, <1>6 DEF Ones
<1>. HIDE DEF s
<1>9. v = Array(Ones(s))
  BY <1>8 DEF z, NumberItems
<1>10. ArrayField(doc, key, "number") = {{s[i] : i \in 1 .. Len(s)}}
  <2>1. s \in Seq(Token)
    BY <1>6
  <2>2. OfKind(s, "number")
    BY <1>7 DEF OfKind
  <2>3. HasItems(doc, key, p, v, "number", s)
    BY <1>9, <2>1, <2>2 DEF HasItems
  <2>4. ItemsAreRead(doc, key, "number", s)
    BY <2>3, ArrayFields
  <2>. QED BY <2>4, Zenon DEF ItemsAreRead
<1>11. {t.n : t \in {s[i] : i \in 1 .. Len(s)}} = S
  <2>1. {t.n : t \in {s[i] : i \in 1 .. Len(s)}} = {z[i] : i \in 1 .. Len(z)}
    BY <1>6, <1>7
  <2>. QED BY <1>2, <2>1
<1>. QED BY <1>10, <1>11, Zenon DEF NumberSetField

StringItems(S) == Array([i \in DOMAIN SetToSeq(S) |-> <<String(SetToSeq(S)[i])>>])

LEMMA StringsFields ==
  ASSUME NEW key, NEW p, NEW S, S \in SUBSET Phrase, IsFiniteSet(S), NEW doc, NEW v,
         Stands(doc, key, p, v),
         v = StringItems(S)
  PROVE  StringSetField(doc, key) = {S}
<1>. DEFINE z == SetToSeq(S)
            s == [i \in DOMAIN z |-> String(z[i])]
<1>2. z \in Seq(S) /\ {z[i] : i \in 1 .. Len(z)} = S
  BY SetToSeqListsIt
<1>. HIDE DEF z
<1>3. DOMAIN z = 1 .. Len(z) /\ Len(z) \in Nat /\ \A i \in 1 .. Len(z) : z[i] \in Phrase
  <2>1. z \in Seq(S)
    BY <1>2
  <2>. QED BY <2>1
<1>4. \A i \in 1 .. Len(z) : String(z[i]) \in Token
  BY <1>3, TokenTypes
<1>5. s \in [1 .. Len(z) -> Token]
  BY <1>3, <1>4, Zenon
<1>6. s \in Seq(Token) /\ Len(s) = Len(z) /\ DOMAIN s = 1 .. Len(z)
  BY <1>3, <1>5
<1>7. \A i \in 1 .. Len(s) : s[i] = String(z[i]) /\ s[i].kind = "string" /\ s[i].text = z[i]
  BY <1>3, <1>6 DEF String
<1>8. [i \in DOMAIN z |-> <<String(z[i])>>] = Ones(s)
  BY <1>3, <1>6 DEF Ones
<1>. HIDE DEF s
<1>9. v = Array(Ones(s))
  BY <1>8 DEF z, StringItems
<1>10. ArrayField(doc, key, "string") = {{s[i] : i \in 1 .. Len(s)}}
  <2>1. s \in Seq(Token)
    BY <1>6
  <2>2. OfKind(s, "string")
    BY <1>7 DEF OfKind
  <2>3. HasItems(doc, key, p, v, "string", s)
    BY <1>9, <2>1, <2>2 DEF HasItems
  <2>4. ItemsAreRead(doc, key, "string", s)
    BY <2>3, ArrayFields
  <2>. QED BY <2>4, Zenon DEF ItemsAreRead
<1>11. {t.text : t \in {s[i] : i \in 1 .. Len(s)}} = S
  <2>1. {t.text : t \in {s[i] : i \in 1 .. Len(s)}} = {z[i] : i \in 1 .. Len(z)}
    BY <1>6, <1>7
  <2>. QED BY <1>2, <2>1
<1>. QED BY <1>10, <1>11, Zenon DEF StringSetField

----------------------------------------------------------------------------
(* An object without others inside is read as it was written, or, of a     *)
(* file that was cut off, not at all.                                      *)
Braces(l) == (<<OpenBrace>> \o l) \o <<CloseBrace>>

Closed(text, o) ==
  {e \in o .. Len(text) : HowMany(text, o, e, OpenBrace) = HowMany(text, o, e, CloseBrace)}

Opens(text, p) == {b \in First(text, OpenBrace, p) : Closed(text, b) # {}}

Objects(text, p) == {SubSeq(text, b, Min(Closed(text, b))) : b \in Opens(text, p)}

LEMMA BracesAt ==
  ASSUME NEW l \in Flat
  PROVE  /\ Braces(l) \in Seq(Token) /\ l \in Seq(Token)
         /\ Len(l) \in Nat /\ Len(Braces(l)) = Len(l) + 2
         /\ Braces(l)[1] = OpenBrace /\ Braces(l)[Len(l) + 2] = CloseBrace
         /\ \A i \in 2 .. Len(l) + 1 :
              Braces(l)[i] # OpenBrace /\ Braces(l)[i] # CloseBrace
<1>1. l \in Seq(Token) /\ Len(l) \in Nat
      /\ \A i \in 1 .. Len(l) : l[i] # OpenBrace /\ l[i] # CloseBrace
  <2>1. l \in Seq(Unbraced) /\ Unbraced \subseteq Token
    BY DEF Flat, Unbraced
  <2>2. l \in Seq(Token)
    BY <2>1, SeqMonotonic
  <2>3. Len(l) \in Nat /\ \A i \in 1 .. Len(l) : l[i] \in Unbraced
    BY <2>1
  <2>. QED BY <2>2, <2>3 DEF Unbraced
<1>. DEFINE u == <<OpenBrace>> \o l
<1>2. u \in Seq(Token) /\ Len(u) = Len(l) + 1 /\ u[1] = OpenBrace
      /\ \A i \in 1 .. Len(l) : u[i + 1] = l[i]
  BY <1>1, TokenTypes
<1>. HIDE DEF u
<1>. DEFINE w == u \o <<CloseBrace>>
<1>3. /\ w \in Seq(Token) /\ w[Len(u) + 1] = CloseBrace /\ Len(w) = Len(u) + 1
      /\ \A i \in 1 .. Len(u) : w[i] = u[i]
  BY <1>2, TokenTypes
<1>. HIDE DEF w
<1>4. w[1] = OpenBrace
  <2>1. 1 \in 1 .. Len(u)
    BY <1>1, <1>2
  <2>. QED BY <1>2, <1>3, <2>1
<1>5. ASSUME NEW i \in 2 .. Len(l) + 1 PROVE w[i] # OpenBrace /\ w[i] # CloseBrace
  <2>1. i \in 1 .. Len(u) /\ i - 1 \in 1 .. Len(l) /\ (i - 1) + 1 = i
    BY <1>1, <1>2
  <2>2. w[i] = l[i - 1]
    BY <1>2, <1>3, <2>1
  <2>. QED BY <1>1, <2>1, <2>2
<1>6. Len(w) = Len(l) + 2 /\ w[Len(l) + 2] = CloseBrace
  BY <1>1, <1>2, <1>3
<1>. QED BY <1>1, <1>3, <1>4, <1>5, <1>6 DEF Braces, u, w

LEMMA ObjectFields ==
  ASSUME NEW l \in Flat, NEW doc, NEW key, NEW o, Stands(doc, key, o, Braces(l)),
         NEW text, PartOf(text, doc)
  PROVE  /\ ObjectOf(text, key) \subseteq {Braces(l)}
         /\ text = doc => ObjectOf(text, key) = {Braces(l)}
<1>. DEFINE v == Braces(l)
            m == o + Len(l) + 1
<1>1. /\ v \in Seq(Token) /\ Len(l) \in Nat /\ Len(v) = Len(l) + 2
      /\ v[1] = OpenBrace /\ v[Len(l) + 2] = CloseBrace
      /\ \A i \in 2 .. Len(l) + 1 : v[i] # OpenBrace /\ v[i] # CloseBrace
  BY BracesAt
<1>. HIDE DEF v
<1>2. /\ doc \in Seq(Token) /\ ValueStart(doc, key) = {o} /\ o \in Nat \ {0}
      /\ o + Len(v) <= Len(doc) + 1
      /\ \A i \in 1 .. Len(v) : doc[o + i - 1] = v[i]
  BY DEF Stands, v
<1>3. m \in Nat /\ o < m /\ m <= Len(doc) /\ Len(doc) \in Nat /\ m = o + Len(v) - 1
  BY <1>1, <1>2
<1>4. doc[o] = OpenBrace /\ doc[m] = CloseBrace
  <2>1. 1 \in 1 .. Len(v) /\ o + 1 - 1 = o /\ Len(l) + 2 \in 1 .. Len(v)
        /\ o + (Len(l) + 2) - 1 = m
    BY <1>1, <1>2
  <2>2. doc[o + 1 - 1] = v[1] /\ doc[o + (Len(l) + 2) - 1] = v[Len(l) + 2]
    BY <1>2, <2>1
  <2>. QED BY <1>1, <2>1, <2>2
<1>5. ASSUME NEW i \in o + 1 .. m - 1 PROVE doc[i] # OpenBrace /\ doc[i] # CloseBrace
  <2>. DEFINE j == i - o + 1
  <2>1. j \in 2 .. Len(l) + 1 /\ j \in 1 .. Len(v) /\ o + j - 1 = i
    BY <1>1, <1>2
  <2>. HIDE DEF j
  <2>2. doc[o + j - 1] = v[j]
    BY <1>2, <2>1
  <2>. QED BY <1>1, <2>1, <2>2
<1>. HIDE DEF m
<1>6. text \in Seq(Token) /\ Len(text) \in Nat /\ Len(text) <= Len(doc)
  BY DEF PartOf
<1>7. ASSUME NEW i \in 1 .. Len(text)
      PROVE  /\ text[i] = OpenBrace <=> doc[i] = OpenBrace
             /\ text[i] = CloseBrace <=> doc[i] = CloseBrace
             /\ i < Len(text) => text[i] = doc[i]
  BY <1>2, PartHits DEF OpenBrace, CloseBrace
<1>20. o \in Nat \ {0} /\ m \in Nat /\ Len(text) \in Nat /\ o < m
  BY <1>2, <1>3, <1>6
<1>8. ASSUME NEW e \in o .. m - 1, e <= Len(text)
      PROVE  HowMany(text, o, e, OpenBrace) # HowMany(text, o, e, CloseBrace)
  <2>1. {p \in o .. e : text[p] = OpenBrace} = {o}
    <3>1. ASSUME NEW p \in o .. e, p # o PROVE text[p] # OpenBrace
      <4>1. p \in o + 1 .. m - 1 /\ p \in 1 .. Len(text)
        BY <1>2, <1>3, <1>6, <1>8, <3>1
      <4>. QED BY <1>5, <1>7, <4>1
    <3>2. o \in o .. e /\ o \in 1 .. Len(text)
      BY <1>2, <1>3, <1>6, <1>8
    <3>3. text[o] = OpenBrace
      BY <1>4, <1>7, <3>2
    <3>. QED BY <3>1, <3>2, <3>3
  <2>2. {p \in o .. e : text[p] = CloseBrace} = {}
    <3>1. ASSUME NEW p \in o .. e PROVE text[p] # CloseBrace
      <4>1. p \in 1 .. Len(text) /\ (p = o \/ p \in o + 1 .. m - 1)
        BY <1>2, <1>3, <1>6, <1>8
      <4>. QED BY <1>4, <1>5, <1>7, <4>1, MarksDiffer
    <3>. QED BY <3>1
  <2>3. Cardinality({o}) = 1 /\ Cardinality({}) = 0
    BY FS_Singleton, FS_EmptySet
  <2>. QED BY <2>1, <2>2, <2>3 DEF HowMany
<1>9. ASSUME m <= Len(text)
      PROVE  HowMany(text, o, m, OpenBrace) = HowMany(text, o, m, CloseBrace)
  <2>1. {p \in o .. m : text[p] = OpenBrace} = {o}
    <3>1. ASSUME NEW p \in o .. m, p # o PROVE text[p] # OpenBrace
      <4>1. (p = m \/ p \in o + 1 .. m - 1) /\ p \in 1 .. Len(text)
        BY <1>9, <1>20, <3>1
      <4>. QED BY <1>4, <1>5, <1>7, <4>1, MarksDiffer
    <3>2. o \in o .. m /\ o \in 1 .. Len(text)
      BY <1>2, <1>3, <1>6, <1>9
    <3>3. text[o] = OpenBrace
      BY <1>4, <1>7, <3>2
    <3>. QED BY <3>1, <3>2, <3>3
  <2>2. {p \in o .. m : text[p] = CloseBrace} = {m}
    <3>1. ASSUME NEW p \in o .. m, p # m PROVE text[p] # CloseBrace
      <4>1. p \in 1 .. Len(text) /\ (p = o \/ p \in o + 1 .. m - 1)
        BY <1>9, <1>20, <3>1
      <4>. QED BY <1>4, <1>5, <1>7, <4>1, MarksDiffer
    <3>2. m \in o .. m /\ m \in 1 .. Len(text)
      BY <1>2, <1>3, <1>6, <1>9
    <3>3. text[m] = CloseBrace
      BY <1>4, <1>7, <3>2
    <3>. QED BY <3>1, <3>2, <3>3
  <2>3. Cardinality({o}) = 1 /\ Cardinality({m}) = 1
    BY FS_Singleton
  <2>. QED BY <2>1, <2>2, <2>3 DEF HowMany
<1>10. ASSUME Closed(text, o) # {}
       PROVE  m <= Len(text) /\ Min(Closed(text, o)) = m
  <2>. DEFINE C == Closed(text, o)
  <2>1. \A e \in C : e \in o .. Len(text)
    BY DEF Closed
  <2>2. \A e \in C : e \notin o .. m - 1
    BY <1>8 DEF Closed
  <2>3. \A e \in C : m <= e
    BY <1>2, <1>3, <1>6, <2>1, <2>2
  <2>4. m <= Len(text)
    BY <1>2, <1>3, <1>6, <1>10, <2>1, <2>3
  <2>5. m \in C
    BY <1>2, <1>3, <1>6, <1>9, <2>4 DEF Closed
  <2>6. C \in SUBSET Nat
    BY <1>2, <1>6, <2>1
  <2>. HIDE DEF C
  <2>7. Min(C) \in C /\ Min(C) <= m
    BY <2>5, <2>6, MinIsLeast
  <2>9. Min(C) \in Nat /\ m <= Min(C)
    BY <2>3, <2>6, <2>7
  <2>8. Min(C) = m
    BY <1>20, <2>7, <2>9
  <2>. QED BY <2>4, <2>8 DEF C
<1>11. ASSUME m <= Len(text) PROVE SubSeq(text, o, m) = v
  <2>1. o \in 1 .. Len(text) + 1 /\ m \in o - 1 .. Len(text)
    BY <1>2, <1>3, <1>6, <1>11
  <2>2. /\ SubSeq(text, o, m) \in Seq(Token)
        /\ Len(SubSeq(text, o, m)) = (IF o <= m THEN m - o + 1 ELSE 0)
        /\ \A i \in 1 .. m - o + 1 : SubSeq(text, o, m)[i] = text[o + i - 1]
    BY <1>6, <2>1, SubSeqProperties
  <2>. DEFINE s == SubSeq(text, o, m)
  <2>3. s \in Seq(Token) /\ Len(s) = Len(v)
    BY <1>1, <1>2, <1>3, <2>2
  <2>4. ASSUME NEW i \in 1 .. Len(v) PROVE s[i] = v[i]
    <3>1. i \in 1 .. m - o + 1 /\ o + i - 1 \in 1 .. Len(text)
          /\ (o + i - 1 < Len(text) \/ o + i - 1 = m)
      BY <1>1, <1>2, <1>3, <1>6, <1>11
    <3>2. s[i] = text[o + i - 1] /\ doc[o + i - 1] = v[i]
      BY <1>2, <2>2, <3>1
    <3>3. text[o + i - 1] = doc[o + i - 1]
      BY <1>4, <1>7, <3>1
    <3>. QED BY <3>2, <3>3
  <2>. HIDE DEF s
  <2>5. s = v
    BY <1>1, <2>3, <2>4, SeqEqual
  <2>. QED BY <2>5 DEF s
<1>12. ObjectOf(text, key) =
         UNION {Objects(text, p) : p \in ValueStart(text, key)}
  BY Zenon DEF ObjectOf, Closed, Opens, Objects
<1>13. First(text, OpenBrace, o) \subseteq {o}
  <2>1. ASSUME NEW b \in First(text, OpenBrace, o) PROVE b = o
    <3>1. b \in o .. Len(text) /\ \A i \in o .. b - 1 : text[i] # OpenBrace
      BY <1>2, <1>6, FirstIs
    <3>2. o \in 1 .. Len(text) /\ text[o] = OpenBrace
      BY <1>2, <1>4, <1>6, <1>7, <3>1
    <3>. QED BY <1>2, <1>6, <3>1, <3>2
  <2>. QED BY <2>1
<1>14. ValueStart(text, key) \subseteq {o}
  BY <1>2, PartValueStart
<1>15. \A b \in Opens(text, o) : b = o /\ Closed(text, o) # {}
  BY <1>13 DEF Opens
<1>16. \A b \in Opens(text, o) : SubSeq(text, b, Min(Closed(text, b))) = v
  BY <1>10, <1>11, <1>15
<1>17. ObjectOf(text, key) \subseteq {v}
  <2>1. ASSUME NEW x \in ObjectOf(text, key) PROVE x = v
    <3>1. PICK p \in ValueStart(text, key) : x \in Objects(text, p)
      BY <1>12, Zenon
    <3>2. PICK b \in Opens(text, p) : x = SubSeq(text, b, Min(Closed(text, b)))
      BY <3>1 DEF Objects
    <3>. QED BY <1>14, <1>16, <3>2
  <2>. QED BY <2>1
<1>18. ASSUME text = doc PROVE ObjectOf(text, key) = {v}
  <2>1. ValueStart(text, key) = {o} /\ m <= Len(text)
    BY <1>2, <1>3, <1>18
  <2>2. m \in Closed(text, o)
    BY <1>2, <1>3, <1>6, <1>9, <2>1 DEF Closed
  <2>3. o \in First(text, OpenBrace, o)
    <3>1. o \in o .. Len(text) /\ text[o] = OpenBrace /\ \A i \in o .. o - 1 : FALSE
      BY <1>2, <1>3, <1>4, <1>6, <1>18
    <3>. QED BY <1>2, <1>6, <3>1, FirstIs
  <2>4. o \in Opens(text, o)
    BY <2>2, <2>3 DEF Opens
  <2>5. v \in Objects(text, o)
    BY <1>16, <2>4 DEF Objects
  <2>6. v \in ObjectOf(text, key)
    BY <1>12, <2>1, <2>5, Zenon
  <2>. QED BY <1>17, <2>6
<1>. QED BY <1>17, <1>18 DEF v

----------------------------------------------------------------------------
(* The policy.                                                             *)
LEMMA WarningsAreFinite == IsFiniteSet(PolicyWarnings)
<1>. DEFINE w ==
  <<"limited_hardware_evidence", "partial_hardware_evidence", "smt_active",
    "powersave_governor", "existing_isolation", "no_persistent_hugepages",
    "thp_always_enabled", "swap_configured", "smi_contaminated_windows_detected",
    "lower_throughput_cpu_class_detected", "short_scan_requires_longer_validation",
    "baseline_cpu_pressure_detected">>
<1>1. w \in Seq(PolicyWarnings) /\ Len(w) = 12
  BY DEF PolicyWarnings
<1>2. \A x \in PolicyWarnings : \E n \in 1 .. 12 : w[n] = x
  BY DEF PolicyWarnings
<1>. HIDE DEF w
<1>. QED BY <1>1, <1>2 DEF IsFiniteSet

LEMMA PolicyIs ==
  ASSUME NEW p, IsPolicy(p)
  PROVE  /\ p.available \in BOOLEAN /\ p.requires_longer_validation \in BOOLEAN
         /\ p.profile = "strict" /\ p.cpu_policy = "sibling_aware_primary"
         /\ p.primary \in CpuLists /\ p.secondary \in CpuLists
         /\ p.avoid \in CpuLists /\ p.contaminated \in CpuLists
         /\ p.smt_policy \in {"avoid_sibling_sharing_for_first_profile", "not_applicable"}
         /\ p.lower_throughput_policy \in {"no_lower_throughput_class_detected",
                                           "avoid_for_first_profile"}
         /\ p.warnings \in SUBSET PolicyWarnings /\ IsFiniteSet(p.warnings)
<1>. DEFINE r == [available |-> p.available, profile |-> "strict",
          cpu_policy |-> "sibling_aware_primary", primary |-> p.primary,
          secondary |-> p.secondary, avoid |-> p.avoid, contaminated |-> p.contaminated,
          smt_policy |-> p.smt_policy,
          lower_throughput_policy |-> p.lower_throughput_policy,
          requires_longer_validation |-> p.requires_longer_validation,
          warnings |-> p.warnings]
<1>1. p = r
  BY Zenon DEF IsPolicy
<1>2. r.profile = "strict" /\ r.cpu_policy = "sibling_aware_primary"
  OBVIOUS
<1>. HIDE DEF r
<1>3. p.profile = "strict" /\ p.cpu_policy = "sibling_aware_primary"
  BY <1>1, <1>2
<1>4. IsFiniteSet(p.warnings)
  BY WarningsAreFinite, FS_Subset DEF IsPolicy
<1>. QED BY <1>3, <1>4 DEF IsPolicy

PolicyFields(p) ==
  <<Flag("available", p.available), Text("profile", p.profile),
    Text("cpu_policy", p.cpu_policy),
    Numbers("primary_cpus", SetToSeq(p.primary)),
    Numbers("secondary_cpus", SetToSeq(p.secondary)),
    Numbers("avoid_cpus", SetToSeq(p.avoid)),
    Numbers("contaminated_cpus", SetToSeq(p.contaminated)),
    Text("smt_policy", p.smt_policy),
    Text("lower_throughput_policy", p.lower_throughput_policy),
    Flag("requires_longer_validation", p.requires_longer_validation),
    Strings("warnings", SetToSeq(p.warnings))>>

(* The fields of a policy are texts of a class without one of their names. *)
FieldsIn(Q, C, p) ==
  /\ "available" \in C => PolicyFields(p)[1] \in Q
  /\ "profile" \in C => PolicyFields(p)[2] \in Q
  /\ "cpu_policy" \in C => PolicyFields(p)[3] \in Q
  /\ "primary_cpus" \in C => PolicyFields(p)[4] \in Q
  /\ "secondary_cpus" \in C => PolicyFields(p)[5] \in Q
  /\ "avoid_cpus" \in C => PolicyFields(p)[6] \in Q
  /\ "contaminated_cpus" \in C => PolicyFields(p)[7] \in Q
  /\ "smt_policy" \in C => PolicyFields(p)[8] \in Q
  /\ "lower_throughput_policy" \in C => PolicyFields(p)[9] \in Q
  /\ "requires_longer_validation" \in C => PolicyFields(p)[10] \in Q
  /\ "warnings" \in C => PolicyFields(p)[11] \in Q

LEMMA CpusIn ==
  ASSUME NEW Q, NEW C, Class(Q, C), NEW key \in C, NEW S \in CpuLists
  PROVE  Numbers(key, SetToSeq(S)) \in Q
<1>1. S \in SUBSET Nat /\ IsFiniteSet(S)
  BY DEF CpuLists
<1>2. SetToSeq(S) \in Seq(S)
  BY <1>1, SetToSeqListsIt
<1>3. SetToSeq(S) \in Seq(Nat)
  BY <1>1, <1>2, SeqMonotonic
<1>. QED BY <1>3, NumbersIn

LEMMA PolicyFieldsIn ==
  ASSUME NEW Q, NEW C, Class(Q, C), PolicyValues \subseteq C, NEW p, IsPolicy(p)
  PROVE  FieldsIn(Q, C, p)
<1>1. /\ p.available \in BOOLEAN /\ p.requires_longer_validation \in BOOLEAN
      /\ {p.profile, p.cpu_policy, p.smt_policy, p.lower_throughput_policy} \subseteq C
      /\ p.primary \in CpuLists /\ p.secondary \in CpuLists
      /\ p.avoid \in CpuLists /\ p.contaminated \in CpuLists
  BY PolicyIs DEF PolicyValues
<1>2. "available" \in C => PolicyFields(p)[1] \in Q
  BY <1>1, TextIn DEF PolicyFields
<1>3. "profile" \in C => PolicyFields(p)[2] \in Q
  BY <1>1, TextIn DEF PolicyFields
<1>4. "cpu_policy" \in C => PolicyFields(p)[3] \in Q
  BY <1>1, TextIn DEF PolicyFields
<1>5. "primary_cpus" \in C => PolicyFields(p)[4] \in Q
  BY <1>1, CpusIn DEF PolicyFields
<1>6. "secondary_cpus" \in C => PolicyFields(p)[5] \in Q
  BY <1>1, CpusIn DEF PolicyFields
<1>7. "avoid_cpus" \in C => PolicyFields(p)[6] \in Q
  BY <1>1, CpusIn DEF PolicyFields
<1>8. "contaminated_cpus" \in C => PolicyFields(p)[7] \in Q
  BY <1>1, CpusIn DEF PolicyFields
<1>9. "smt_policy" \in C => PolicyFields(p)[8] \in Q
  BY <1>1, TextIn DEF PolicyFields
<1>10. "lower_throughput_policy" \in C => PolicyFields(p)[9] \in Q
  BY <1>1, TextIn DEF PolicyFields
<1>11. "requires_longer_validation" \in C => PolicyFields(p)[10] \in Q
  BY <1>1, TextIn DEF PolicyFields
<1>12. "warnings" \in C => PolicyFields(p)[11] \in Q
  <2>1. p.warnings \subseteq C /\ IsFiniteSet(p.warnings)
    BY PolicyIs DEF PolicyValues
  <2>2. SetToSeq(p.warnings) \in Seq(C)
    BY <2>1, SetToSeqListsIt, SeqMonotonic
  <2>3. "warnings" \in C => Strings("warnings", SetToSeq(p.warnings)) \in Q
    BY <2>2, NumbersIn
  <2>. QED BY <2>3 DEF PolicyFields
<1>. QED
  BY <1>2, <1>3, <1>4, <1>5, <1>6, <1>7, <1>8, <1>9, <1>10, <1>11, <1>12, Zenon DEF FieldsIn

(* A sequence is that of what stands before and behind one of its members. *)
LEMMA SplitAt ==
  ASSUME NEW T, NEW f \in Seq(T), NEW Q, NEW R, NEW j \in 1 .. Len(f),
         \A i \in 1 .. j - 1 : f[i] \in Q, \A i \in j + 1 .. Len(f) : f[i] \in R
  PROVE  \E s \in Seq(Q), t \in Seq(R) : Split(f, s, <<f[j]>>, t)
<1>1. Len(f) \in Nat /\ j \in Nat /\ \A i \in 1 .. Len(f) : f[i] \in T
  OBVIOUS
<1>. DEFINE U == Q \cup T \cup R
            s == [i \in 1 .. j - 1 |-> f[i]]
            t == [i \in 1 .. Len(f) - j |-> f[j + i]]
            x == <<f[j]>>
<1>2. s \in Seq(Q) /\ Len(s) = j - 1 /\ \A i \in 1 .. j - 1 : s[i] = f[i]
  <2>1. j - 1 \in Nat
    BY <1>1
  <2>. QED BY <2>1
<1>3. t \in Seq(R) /\ Len(t) = Len(f) - j /\ \A i \in 1 .. Len(f) - j : t[i] = f[j + i]
  <2>1. Len(f) - j \in Nat /\ \A i \in 1 .. Len(f) - j : j + i \in j + 1 .. Len(f)
    BY <1>1
  <2>2. \A i \in 1 .. Len(f) - j : f[j + i] \in R
    BY <1>1, <2>1
  <2>. QED BY <2>1, <2>2
<1>4. x \in Seq(T) /\ Len(x) = 1 /\ x[1] = f[j]
  BY <1>1
<1>. HIDE DEF s, t, x
<1>5. s \in Seq(U) /\ x \in Seq(U) /\ t \in Seq(U) /\ f \in Seq(U)
  BY <1>2, <1>3, <1>4, SeqMonotonic
<1>. HIDE DEF U
<1>. DEFINE u == s \o x
            w == u \o t
<1>6. /\ u \in Seq(U) /\ Len(u) = Len(s) + Len(x)
      /\ \A i \in 1 .. Len(s) : u[i] = s[i]
      /\ \A i \in 1 .. Len(x) : u[Len(s) + i] = x[i]
  BY <1>5, Positions
<1>7. Len(u) = j /\ \A i \in 1 .. j : u[i] = f[i]
  <2>1. Len(u) = j
    BY <1>1, <1>2, <1>4, <1>6
  <2>2. 1 \in 1 .. Len(x) /\ Len(s) + 1 = j
    BY <1>1, <1>2, <1>4
  <2>3. u[j] = f[j]
    BY <1>4, <1>6, <2>2
  <2>4. \A i \in 1 .. j : i \in 1 .. j - 1 \/ i = j
    BY <1>1
  <2>. QED BY <1>2, <1>6, <2>1, <2>3, <2>4
<1>. HIDE DEF u
<1>8. /\ w \in Seq(U) /\ Len(w) = Len(u) + Len(t)
      /\ \A i \in 1 .. Len(u) : w[i] = u[i]
      /\ \A i \in 1 .. Len(t) : w[Len(u) + i] = t[i]
  <2>1. u \in Seq(U)
    BY <1>6
  <2>. QED BY <1>5, <2>1, Positions
<1>. HIDE DEF w
<1>9. Len(w) = Len(f) /\ \A i \in 1 .. Len(f) : w[i] = f[i]
  <2>1. Len(w) = Len(f)
    BY <1>1, <1>3, <1>7, <1>8
  <2>2. ASSUME NEW i \in j + 1 .. Len(f) PROVE w[i] = f[i]
    <3>1. i - j \in 1 .. Len(f) - j /\ j + (i - j) = i
      BY <1>1
    <3>2. t[i - j] = f[i] /\ w[j + (i - j)] = t[i - j]
      BY <1>3, <1>7, <1>8, <3>1
    <3>. QED BY <3>1, <3>2
  <2>3. \A i \in 1 .. Len(f) : i \in 1 .. j \/ i \in j + 1 .. Len(f)
    BY <1>1
  <2>. QED BY <1>7, <1>8, <2>1, <2>2, <2>3
<1>10. w = f
  <2>1. w \in Seq(U) /\ f \in Seq(U)
    BY <1>5, <1>8
  <2>. QED BY <1>9, <2>1, SeqEqual
<1>11. Split(f, s, <<f[j]>>, t)
  BY <1>10, Zenon DEF Split, w, u, x
<1>. QED BY <1>2, <1>3, <1>11

(* A field of an object stands there, after fields without its name.       *)
LEMMA FieldStands ==
  ASSUME NEW K \in Phrase, NEW v \in Seq(Token), v # <<>>,
         NEW list \in Seq(Seq(Token)), NEW j \in 1 .. Len(list), list[j] = Field(K, v),
         \A i \in 1 .. j - 1 : list[i] \in Without(K)
  PROVE  \E p : Stands(Object(list), K, p, v)
<1>. DEFINE Q == Without(K)
            C == Phrase \ {K}
            x == Field(K, v)
<1>0. PICK s \in Seq(Q), t \in Seq(Seq(Token)) : Split(list, s, <<list[j]>>, t)
  <2>1. \A i \in j + 1 .. Len(list) : list[i] \in Seq(Token)
    OBVIOUS
  <2>. QED BY <2>1, SplitAt
<1>1. Class(Q, C) /\ Braced(Q)
  BY WithoutIsClass
<1>2. Class(Seq(Token), Phrase) /\ Braced(Seq(Token))
  BY AllIsClass
<1>3. x \in Seq(Token)
  BY <1>2, FieldIn
<1>4. \E key : key \in C
  <2>1. "true" \in Phrase /\ "false" \in Phrase
    BY DEF Phrase
  <2>. QED BY <2>1
<1>5. PICK key : key \in C
  BY <1>4
<1>. HIDE DEF Q, C, x
<1>7. Around(Listed((s \o <<x>>) \o t), x, Q, Seq(Token))
  BY <1>1, <1>2, <1>3, AroundPart
<1>8. list = (s \o <<x>>) \o t
  BY <1>0, Zenon DEF Split, x
<1>9. Around(Listed(list), x, Q, Seq(Token))
  BY <1>7, <1>8, Zenon
<1>10. Around(Object(list), x, Q, Seq(Token))
  BY <1>1, <1>2, <1>3, <1>5, <1>9, AroundObject
<1>11. PICK a \in Q, b \in Seq(Token) : Split(Object(list), a, x, b)
  BY <1>10 DEF Around
<1>12. a \in Without(K) /\ Split(Object(list), a, Field(K, v), b)
  BY <1>11 DEF Q, x
<1>13. Stands(Object(list), K, Len(a) + 3, v)
  BY <1>12, FieldFound
<1>. QED BY <1>13

PolicyNames ==
  <<"available", "profile", "cpu_policy", "primary_cpus", "secondary_cpus", "avoid_cpus",
    "contaminated_cpus", "smt_policy", "lower_throughput_policy",
    "requires_longer_validation", "warnings">>

LEMMA PolicyNamesAre ==
  /\ \A j \in 1 .. 11 : PolicyNames[j] \in Phrase /\ PolicyNames[j] \notin PolicyValues
  /\ \A i, j \in 1 .. 11 : i # j => PolicyNames[i] # PolicyNames[j]
<1>1. \A j \in 1 .. 11 : PolicyNames[j] \in PolicyKeys
  BY DEF PolicyNames, PolicyKeys
<1>2. PolicyKeys \cap PolicyValues = {}
  BY DEF PolicyKeys, PolicyValues, PolicyWarnings
<1>3. PolicyKeys \subseteq Phrase
  BY DEF Phrase
<1>4. \A i, j \in 1 .. 11 : i # j => PolicyNames[i] # PolicyNames[j]
  BY DEF PolicyNames
<1>. QED BY <1>1, <1>2, <1>3, <1>4

LEMMA FieldsInAre ==
  ASSUME NEW Q, NEW C, NEW p, FieldsIn(Q, C, p)
  PROVE  \A i \in 1 .. 11 : PolicyNames[i] \in C => PolicyFields(p)[i] \in Q
<1>1. /\ PolicyNames[1] = "available" /\ PolicyNames[2] = "profile"
      /\ PolicyNames[3] = "cpu_policy" /\ PolicyNames[4] = "primary_cpus"
      /\ PolicyNames[5] = "secondary_cpus" /\ PolicyNames[6] = "avoid_cpus"
      /\ PolicyNames[7] = "contaminated_cpus" /\ PolicyNames[8] = "smt_policy"
      /\ PolicyNames[9] = "lower_throughput_policy"
      /\ PolicyNames[10] = "requires_longer_validation" /\ PolicyNames[11] = "warnings"
  BY DEF PolicyNames
<1>2. \A i \in 1 .. 11 : i \in {1, 2, 3, 4, 5, 6, 7, 8, 9, 10, 11}
  OBVIOUS
<1>3. SUFFICES ASSUME NEW i \in {1, 2, 3, 4, 5, 6, 7, 8, 9, 10, 11}, PolicyNames[i] \in C
               PROVE  PolicyFields(p)[i] \in Q
  BY <1>2
<1>. QED BY <1>1, <1>3 DEF FieldsIn

LEMMA PolicyFieldsAre ==
  ASSUME NEW p, IsPolicy(p)
  PROVE  /\ PolicyFields(p) \in Seq(Seq(Token)) /\ PolicyFields(p) \in Seq(Flat)
         /\ Len(PolicyFields(p)) = 11
         /\ \A j \in 1 .. 11 : \A i \in 1 .. j - 1 :
              PolicyFields(p)[i] \in Without(PolicyNames[j])
<1>1. Len(PolicyFields(p)) = 11
      /\ PolicyFields(p) = [i \in 1 .. 11 |-> PolicyFields(p)[i]]
  BY DEF PolicyFields
<1>2. \A C : PolicyNames \in [1 .. 11 -> C] => \A i \in 1 .. 11 : PolicyNames[i] \in C
  OBVIOUS
<1>3. PolicyValues \subseteq Phrase
  BY DEF Phrase, Common
<1>4. \A i \in 1 .. 11 : PolicyFields(p)[i] \in Flat
  <2>1. FieldsIn(Flat, Phrase, p)
    BY <1>3, FlatIsClass, PolicyFieldsIn
  <2>. QED BY <2>1, FieldsInAre, PolicyNamesAre
<1>5. PolicyFields(p) \in Seq(Flat)
  <2>1. PolicyFields(p) \in [1 .. 11 -> Flat]
    BY <1>1, <1>4, Zenon
  <2>2. 11 \in Nat
    OBVIOUS
  <2>. QED BY <2>1, <2>2, SeqDef, Zenon
<1>6. PolicyFields(p) \in Seq(Seq(Token))
  <2>1. Flat \subseteq Seq(Token)
    BY FlatIsClass DEF Class
  <2>. QED BY <1>5, <2>1, SeqMonotonic
<1>7. ASSUME NEW j \in 1 .. 11, NEW i \in 1 .. j - 1
      PROVE  PolicyFields(p)[i] \in Without(PolicyNames[j])
  <2>. DEFINE K == PolicyNames[j]
  <2>1. K \in Phrase /\ PolicyValues \subseteq Phrase \ {K}
    BY <1>3, PolicyNamesAre
  <2>2. i \in 1 .. 11 /\ PolicyNames[i] \in Phrase \ {K}
    BY PolicyNamesAre
  <2>. HIDE DEF K
  <2>3. Class(Without(K), Phrase \ {K})
    BY <2>1, WithoutIsClass
  <2>4. FieldsIn(Without(K), Phrase \ {K}, p)
    BY <2>1, <2>3, PolicyFieldsIn
  <2>5. PolicyFields(p)[i] \in Without(K)
    BY <2>2, <2>4, FieldsInAre
  <2>. QED BY <2>5 DEF K
<1>. QED BY <1>1, <1>5, <1>6, <1>7

LEMMA PolicyStands ==
  ASSUME NEW p, IsPolicy(p), NEW j \in 1 .. 11, NEW v \in Seq(Token), v # <<>>,
         PolicyFields(p)[j] = Field(PolicyNames[j], v)
  PROVE  \E q : Stands(Object(PolicyFields(p)), PolicyNames[j], q, v)
<1>1. PolicyNames[j] \in Phrase
  BY PolicyNamesAre
<1>2. PolicyFields(p) \in Seq(Seq(Token)) /\ j \in 1 .. Len(PolicyFields(p))
      /\ \A i \in 1 .. j - 1 : PolicyFields(p)[i] \in Without(PolicyNames[j])
  BY PolicyFieldsAre
<1>. QED BY <1>1, <1>2, FieldStands

LEMMA ItemsAreTokens ==
  /\ \A S \in CpuLists : NumberItems(S) \in Seq(Token) /\ NumberItems(S) # <<>>
  /\ \A S \in SUBSET Phrase : IsFiniteSet(S) =>
       StringItems(S) \in Seq(Token) /\ StringItems(S) # <<>>
<1>1. ASSUME NEW S \in CpuLists PROVE NumberItems(S) \in Seq(Token) /\ NumberItems(S) # <<>>
  <2>1. S \in SUBSET Nat /\ IsFiniteSet(S)
    BY DEF CpuLists
  <2>2. SetToSeq(S) \in Seq(S)
    BY <2>1, SetToSeqListsIt
  <2>3. SetToSeq(S) \in Seq(Nat)
    BY <2>1, <2>2, SeqMonotonic
  <2>. DEFINE z == SetToSeq(S)
              items == [i \in DOMAIN z |-> <<Number(z[i])>>]
  <2>4. z \in Seq(Nat)
    BY <2>3
  <2>. HIDE DEF z
  <2>5. DOMAIN z = 1 .. Len(z) /\ Len(z) \in Nat /\ \A i \in 1 .. Len(z) : z[i] \in Nat
    BY <2>4
  <2>6. \A i \in 1 .. Len(z) : <<Number(z[i])>> \in Seq(Token)
    <3>1. \A i \in 1 .. Len(z) : Number(z[i]) \in Token
      BY <2>5, TokenTypes
    <3>. QED BY <3>1
  <2>7. items \in [1 .. Len(z) -> Seq(Token)]
    BY <2>5, <2>6, Zenon
  <2>. DEFINE Q == Seq(Token)
  <2>10. items \in [1 .. Len(z) -> Q] /\ Len(z) \in Nat
    BY <2>5, <2>7
  <2>. HIDE DEF items, Q
  <2>11. items \in Seq(Q)
    BY <2>10, SeqDef, Zenon
  <2>8. items \in Seq(Seq(Token))
    BY <2>11 DEF Q
  <2>9. Array(items) \in Seq(Token) /\ Array(items) # <<>>
    BY <2>8, AllIsClass, ArrayIn
  <2>. QED BY <2>9 DEF NumberItems, items, z
<1>2. ASSUME NEW S \in SUBSET Phrase, IsFiniteSet(S)
      PROVE  StringItems(S) \in Seq(Token) /\ StringItems(S) # <<>>
  <2>2. SetToSeq(S) \in Seq(S)
    BY <1>2, SetToSeqListsIt
  <2>3. SetToSeq(S) \in Seq(Phrase)
    BY <2>2, SeqMonotonic
  <2>. DEFINE z == SetToSeq(S)
              items == [i \in DOMAIN z |-> <<String(z[i])>>]
  <2>4. z \in Seq(Phrase)
    BY <2>3
  <2>. HIDE DEF z
  <2>5. DOMAIN z = 1 .. Len(z) /\ Len(z) \in Nat /\ \A i \in 1 .. Len(z) : z[i] \in Phrase
    BY <2>4
  <2>6. \A i \in 1 .. Len(z) : <<String(z[i])>> \in Seq(Token)
    <3>1. \A i \in 1 .. Len(z) : String(z[i]) \in Token
      BY <2>5, TokenTypes
    <3>. QED BY <3>1
  <2>7. items \in [1 .. Len(z) -> Seq(Token)]
    BY <2>5, <2>6, Zenon
  <2>. DEFINE Q == Seq(Token)
  <2>10. items \in [1 .. Len(z) -> Q] /\ Len(z) \in Nat
    BY <2>5, <2>7
  <2>. HIDE DEF items, Q
  <2>11. items \in Seq(Q)
    BY <2>10, SeqDef, Zenon
  <2>8. items \in Seq(Seq(Token))
    BY <2>11 DEF Q
  <2>9. Array(items) \in Seq(Token) /\ Array(items) # <<>>
    BY <2>8, AllIsClass, ArrayIn
  <2>. QED BY <2>9 DEF StringItems, items, z
<1>. QED BY <1>1, <1>2

PoliciesOf(A, B, C, D, E, F, G, H, I, J, K) ==
  {[available |-> available, profile |-> profile, cpu_policy |-> cpu_policy,
    primary |-> primary, secondary |-> secondary, avoid |-> avoid,
    contaminated |-> contaminated, smt_policy |-> smt,
    lower_throughput_policy |-> lower, requires_longer_validation |-> longer,
    warnings |-> warnings] :
      available \in A, profile \in B, cpu_policy \in C, primary \in D, secondary \in E,
      avoid \in F, contaminated \in G, smt \in H, lower \in I, longer \in J, warnings \in K}

PolicyOf(a, b, c, d, e, f, g, h, i, j, k) ==
  [available |-> a, profile |-> b, cpu_policy |-> c, primary |-> d, secondary |-> e,
   avoid |-> f, contaminated |-> g, smt_policy |-> h, lower_throughput_policy |-> i,
   requires_longer_validation |-> j, warnings |-> k]

LEMMA OnePolicy ==
  ASSUME NEW a, NEW b, NEW c, NEW d, NEW e, NEW f, NEW g, NEW h, NEW i, NEW j, NEW k
  PROVE  PoliciesOf({a}, {b}, {c}, {d}, {e}, {f}, {g}, {h}, {i}, {j}, {k}) =
           {PolicyOf(a, b, c, d, e, f, g, h, i, j, k)}
BY DEF PoliciesOf, PolicyOf

(* The policy is read from its object as it was written. *)
LEMMA PolicyInObject ==
  ASSUME NEW p, IsPolicy(p)
  PROVE  PolicyIn(Object(PolicyFields(p))) = {p}
<1>. DEFINE object == Object(PolicyFields(p))
            Has(j, v) == PolicyFields(p)[j] = Field(PolicyNames[j], v)
<1>1. ASSUME NEW j \in 1 .. 11, NEW v \in Seq(Token), v # <<>>, Has(j, v)
      PROVE  \E q : Stands(object, PolicyNames[j], q, v)
  BY <1>1, PolicyStands
<1>2. ASSUME NEW j \in 1 .. 11, NEW t \in Token, Has(j, <<t>>)
      PROVE  /\ t.kind = "word" => BoolField(object, PolicyNames[j]) = {t.text = "true"}
             /\ t.kind = "string" => StringField(object, PolicyNames[j]) = {t.text}
  <2>1. <<t>> \in Seq(Token) /\ <<t>> # <<>>
    OBVIOUS
  <2>2. \E q : Stands(object, PolicyNames[j], q, <<t>>)
    BY <1>1, <1>2, <2>1
  <2>. QED BY <2>2, TokenFields
<1>3. ASSUME NEW j \in 1 .. 11, NEW S \in CpuLists, Has(j, NumberItems(S))
      PROVE  NumberSetField(object, PolicyNames[j]) = {S}
  <2>1. \E q : Stands(object, PolicyNames[j], q, NumberItems(S))
    BY <1>1, <1>3, ItemsAreTokens
  <2>. QED BY <2>1, NumbersFields
<1>4. ASSUME NEW j \in 1 .. 11, NEW S \in SUBSET Phrase, IsFiniteSet(S), Has(j, StringItems(S))
      PROVE  StringSetField(object, PolicyNames[j]) = {S}
  <2>. DEFINE v == StringItems(S)
              K == PolicyNames[j]
  <2>1. v \in Seq(Token) /\ v # <<>>
    BY <1>4, ItemsAreTokens
  <2>2. PICK q : Stands(object, K, q, v)
    BY <1>1, <1>4, <2>1
  <2>3. v = StringItems(S)
    OBVIOUS
  <2>. HIDE DEF v, K
  <2>4. StringSetField(object, K) = {S}
    BY <1>4, <2>2, <2>3, StringsFields
  <2>. QED BY <2>4 DEF K
<1>. HIDE DEF object
<1>5. /\ p.available \in BOOLEAN /\ p.requires_longer_validation \in BOOLEAN
      /\ {p.profile, p.cpu_policy, p.smt_policy, p.lower_throughput_policy} \subseteq Phrase
      /\ p.primary \in CpuLists /\ p.secondary \in CpuLists
      /\ p.avoid \in CpuLists /\ p.contaminated \in CpuLists
      /\ p.warnings \in SUBSET Phrase /\ IsFiniteSet(p.warnings)
  BY PolicyIs DEF Phrase, Common, PolicyValues
<1>6. /\ \A b \in BOOLEAN : /\ Word(b) \in Token /\ Word(b).kind = "word"
                            /\ (Word(b).text = "true") = b
      /\ \A s \in Phrase : /\ String(s) \in Token /\ String(s).kind = "string"
                           /\ String(s).text = s
  <2>1. \A b \in BOOLEAN : Word(b).kind = "word" /\ (Word(b).text = "true") = b
    BY DEF Word
  <2>2. \A s : String(s).kind = "string" /\ String(s).text = s
    BY DEF String
  <2>. QED BY <2>1, <2>2, TokenTypes
<1>7. Has(1, <<Word(p.available)>>) /\ PolicyNames[1] = "available"
  BY DEF PolicyFields, PolicyNames, Flag
<1>8. Has(2, <<String(p.profile)>>) /\ PolicyNames[2] = "profile"
  BY DEF PolicyFields, PolicyNames, Text
<1>9. Has(3, <<String(p.cpu_policy)>>) /\ PolicyNames[3] = "cpu_policy"
  BY DEF PolicyFields, PolicyNames, Text
<1>10. Has(4, NumberItems(p.primary)) /\ PolicyNames[4] = "primary_cpus"
  BY DEF PolicyFields, PolicyNames, Numbers, NumberItems
<1>11. Has(5, NumberItems(p.secondary)) /\ PolicyNames[5] = "secondary_cpus"
  BY DEF PolicyFields, PolicyNames, Numbers, NumberItems
<1>12. Has(6, NumberItems(p.avoid)) /\ PolicyNames[6] = "avoid_cpus"
  BY DEF PolicyFields, PolicyNames, Numbers, NumberItems
<1>13. Has(7, NumberItems(p.contaminated)) /\ PolicyNames[7] = "contaminated_cpus"
  BY DEF PolicyFields, PolicyNames, Numbers, NumberItems
<1>14. Has(8, <<String(p.smt_policy)>>) /\ PolicyNames[8] = "smt_policy"
  BY DEF PolicyFields, PolicyNames, Text
<1>15. Has(9, <<String(p.lower_throughput_policy)>>)
       /\ PolicyNames[9] = "lower_throughput_policy"
  BY DEF PolicyFields, PolicyNames, Text
<1>16. Has(10, <<Word(p.requires_longer_validation)>>)
       /\ PolicyNames[10] = "requires_longer_validation"
  BY DEF PolicyFields, PolicyNames, Flag
<1>17. Has(11, StringItems(p.warnings)) /\ PolicyNames[11] = "warnings"
  BY DEF PolicyFields, PolicyNames, Strings, StringItems
<1>. HIDE DEF Has
<1>18. BoolField(object, "available") = {p.available}
  BY <1>2, <1>5, <1>6, <1>7
<1>19. StringField(object, "profile") = {p.profile}
  BY <1>2, <1>5, <1>6, <1>8
<1>20. StringField(object, "cpu_policy") = {p.cpu_policy}
  BY <1>2, <1>5, <1>6, <1>9
<1>21. NumberSetField(object, "primary_cpus") = {p.primary}
  BY <1>3, <1>5, <1>10
<1>22. NumberSetField(object, "secondary_cpus") = {p.secondary}
  BY <1>3, <1>5, <1>11
<1>23. NumberSetField(object, "avoid_cpus") = {p.avoid}
  BY <1>3, <1>5, <1>12
<1>24. NumberSetField(object, "contaminated_cpus") = {p.contaminated}
  BY <1>3, <1>5, <1>13
<1>25. StringField(object, "smt_policy") = {p.smt_policy}
  BY <1>2, <1>5, <1>6, <1>14
<1>26. StringField(object, "lower_throughput_policy") = {p.lower_throughput_policy}
  BY <1>2, <1>5, <1>6, <1>15
<1>27. BoolField(object, "requires_longer_validation") = {p.requires_longer_validation}
  BY <1>2, <1>5, <1>6, <1>16
<1>28. StringSetField(object, "warnings") = {p.warnings}
  BY <1>4, <1>5, <1>17
<1>29. PolicyIn(object) =
         {PolicyOf(p.available, p.profile, p.cpu_policy, p.primary, p.secondary, p.avoid,
                   p.contaminated, p.smt_policy, p.lower_throughput_policy,
                   p.requires_longer_validation, p.warnings)}
  <2>1. PolicyIn(object) =
          PoliciesOf(BoolField(object, "available"), StringField(object, "profile"),
                     StringField(object, "cpu_policy"), NumberSetField(object, "primary_cpus"),
                     NumberSetField(object, "secondary_cpus"),
                     NumberSetField(object, "avoid_cpus"),
                     NumberSetField(object, "contaminated_cpus"),
                     StringField(object, "smt_policy"),
                     StringField(object, "lower_throughput_policy"),
                     BoolField(object, "requires_longer_validation"),
                     StringSetField(object, "warnings"))
    BY DEF PolicyIn, PoliciesOf
  <2>2. PolicyIn(object) =
          PoliciesOf({p.available}, {p.profile}, {p.cpu_policy}, {p.primary}, {p.secondary},
                     {p.avoid}, {p.contaminated}, {p.smt_policy}, {p.lower_throughput_policy},
                     {p.requires_longer_validation}, {p.warnings})
    BY <1>18, <1>19, <1>20, <1>21, <1>22, <1>23, <1>24, <1>25, <1>26, <1>27, <1>28, <2>1, Zenon
  <2>. QED BY <2>2, OnePolicy
<1>30. p.profile = "strict" /\ p.cpu_policy = "sibling_aware_primary"
  BY PolicyIs
<1>31. p = PolicyOf(p.available, p.profile, p.cpu_policy, p.primary, p.secondary, p.avoid,
                    p.contaminated, p.smt_policy, p.lower_throughput_policy,
                    p.requires_longer_validation, p.warnings)
  BY <1>30, Zenon DEF IsPolicy, PolicyOf
<1>32. PolicyIn(object) = {p}
  BY <1>29, <1>31, Zenon
<1>. QED BY <1>32 DEF object

----------------------------------------------------------------------------
(* doctor.json, section by section.                                        *)
LEMMA SeqsOf ==
  ASSUME NEW T, NEW a \in Seq(T), NEW b \in Seq(T)
  PROVE  a \o b \in Seq(T)
BY ConcatProperties

LEMMA TuplesIn ==
  ASSUME NEW T
  PROVE  /\ \A a \in T : <<a>> \in Seq(T)
         /\ \A a, b \in T : <<a, b>> \in Seq(T)
         /\ \A a, b, c \in T : <<a, b, c>> \in Seq(T)
         /\ \A a, b, c, d \in T : <<a, b, c, d>> \in Seq(T)
         /\ \A a, b, c, d, e \in T : <<a, b, c, d, e>> \in Seq(T)
         /\ \A a, b, c, d, e, f \in T : <<a, b, c, d, e, f>> \in Seq(T)
OBVIOUS

LEMMA MachineIn ==
  ASSUME NEW Q, NEW C, Class(Q, C), Braced(Q), Common \cup PolicyKeys \subseteq C
  PROVE  MachineSection \in Q
<1>1. {"machine", "hostname", "kernel", "logical_cpus", "smt_active", "isolated_cpus",
       "nohz_full_cpus", "thp_enabled", "thp_defrag", "khugepaged_defrag",
       "mem_available_kb", "swap_total_kb", "swap_free_kb", "anon_hugepages_kb",
       "hugepages_total", "hugepages_free", "any"} \subseteq C
  <2>1. {"machine", "hostname", "kernel", "logical_cpus", "smt_active", "isolated_cpus",
         "nohz_full_cpus", "thp_enabled", "thp_defrag", "khugepaged_defrag",
         "mem_available_kb", "swap_total_kb", "swap_free_kb", "anon_hugepages_kb",
         "hugepages_total", "hugepages_free", "any"} \subseteq Common
    BY DEF Common, DoctorNames, PolicyValues, PolicyWarnings
  <2>. QED BY <2>1
<1>. DEFINE a == Texts(<<"hostname", "kernel">>)
            b == <<Count("logical_cpus", 4), Flag("smt_active", TRUE)>>
            c == Texts(<<"isolated_cpus", "nohz_full_cpus", "thp_enabled", "thp_defrag",
                         "khugepaged_defrag">>)
            d == Counts(<<"mem_available_kb", "swap_total_kb", "swap_free_kb",
                          "anon_hugepages_kb", "hugepages_total", "hugepages_free">>)
<1>2. a \in Seq(Q) /\ c \in Seq(Q) /\ d \in Seq(Q)
  <2>1. /\ <<"hostname", "kernel">> \in Seq(C)
        /\ <<"isolated_cpus", "nohz_full_cpus", "thp_enabled", "thp_defrag",
             "khugepaged_defrag">> \in Seq(C)
        /\ <<"mem_available_kb", "swap_total_kb", "swap_free_kb", "anon_hugepages_kb",
             "hugepages_total", "hugepages_free">> \in Seq(C)
    BY <1>1
  <2>. QED BY <1>1, <2>1, TextsIn
<1>3. b \in Seq(Q)
  <2>1. Count("logical_cpus", 4) \in Q /\ Flag("smt_active", TRUE) \in Q
    BY <1>1, TextIn
  <2>. QED BY <2>1, TuplesIn
<1>. HIDE DEF a, b, c, d
<1>4. ((a \o b) \o c) \o d \in Seq(Q)
  BY <1>2, <1>3, SeqsOf
<1>5. Object(((a \o b) \o c) \o d) \in Q /\ Object(((a \o b) \o c) \o d) # <<>>
  BY <1>4, ObjectIn
<1>. QED BY <1>1, <1>5, FieldIn DEF MachineSection, a, b, c, d

LEMMA EnvironmentIn ==
  ASSUME NEW Q, NEW C, Class(Q, C), Braced(Q), Common \cup PolicyKeys \subseteq C
  PROVE  EnvironmentSection \in Q
<1>1. {"environment", "mode", "evidence_quality", "root_user", "msr_device_available",
       "rdtscp_supported", "hypervisor_detected", "container_detected", "limitations",
       "reasons", "any"} \subseteq C
  <2>1. {"environment", "mode", "evidence_quality", "root_user", "msr_device_available",
         "rdtscp_supported", "hypervisor_detected", "container_detected", "limitations",
         "reasons", "any"} \subseteq Common
    BY DEF Common, DoctorNames
  <2>. QED BY <2>1
<1>. DEFINE a == Texts(<<"mode", "evidence_quality">>)
            b == Flags(<<"root_user", "msr_device_available", "rdtscp_supported",
                         "hypervisor_detected", "container_detected">>)
            c == <<Strings("limitations", <<"any">>), Strings("reasons", <<>>)>>
<1>2. a \in Seq(Q) /\ b \in Seq(Q)
  <2>1. /\ <<"mode", "evidence_quality">> \in Seq(C)
        /\ <<"root_user", "msr_device_available", "rdtscp_supported",
             "hypervisor_detected", "container_detected">> \in Seq(C)
    BY <1>1
  <2>. QED BY <1>1, <2>1, TextsIn
<1>3. c \in Seq(Q)
  <2>1. <<"any">> \in Seq(C) /\ <<>> \in Seq(C)
    BY <1>1
  <2>2. Strings("limitations", <<"any">>) \in Q /\ Strings("reasons", <<>>) \in Q
    BY <1>1, <2>1, NumbersIn
  <2>. QED BY <2>2
<1>. HIDE DEF a, b, c
<1>4. (a \o b) \o c \in Seq(Q)
  BY <1>2, <1>3, SeqsOf
<1>5. Object((a \o b) \o c) \in Q /\ Object((a \o b) \o c) # <<>>
  BY <1>4, ObjectIn
<1>. QED BY <1>1, <1>5, FieldIn DEF EnvironmentSection, a, b, c

LEMMA SensorsIn ==
  ASSUME NEW Q, NEW C, Class(Q, C), Braced(Q), Common \cup PolicyKeys \subseteq C
  PROVE  SensorSection \in Q
<1>1. {"sensors", "msr", "tsc", "available", "quality", "source", "capabilities",
       "limitations", "any"} \subseteq C
  <2>1. {"sensors", "msr", "tsc", "available", "quality", "source", "capabilities",
         "limitations", "any"} \subseteq Common \cup PolicyKeys
    BY DEF Common, DoctorNames, PolicyKeys
  <2>. QED BY <2>1
<1>2. ASSUME NEW name \in C, NEW on \in BOOLEAN
      PROVE  Sensor(name, on) \in Q /\ Sensor(name, on) # <<>>
  <2>. DEFINE a == <<Flag("available", on)>>
              b == Texts(<<"quality", "source">>)
              c == <<Strings("capabilities", <<"any">>), Strings("limitations", <<>>)>>
  <2>1. a \in Seq(Q)
    <3>1. Flag("available", on) \in Q
      BY <1>1, TextIn
    <3>. QED BY <3>1
  <2>2. b \in Seq(Q)
    <3>1. <<"quality", "source">> \in Seq(C)
      BY <1>1
    <3>. QED BY <1>1, <3>1, TextsIn
  <2>3. c \in Seq(Q)
    <3>1. <<"any">> \in Seq(C) /\ <<>> \in Seq(C)
      BY <1>1
    <3>2. Strings("capabilities", <<"any">>) \in Q /\ Strings("limitations", <<>>) \in Q
      BY <1>1, <3>1, NumbersIn
    <3>. QED BY <3>2
  <2>. HIDE DEF a, b, c
  <2>4. (a \o b) \o c \in Seq(Q)
    BY <2>1, <2>2, <2>3, SeqsOf
  <2>5. Object((a \o b) \o c) \in Q /\ Object((a \o b) \o c) # <<>>
    BY <2>4, ObjectIn
  <2>. QED BY <2>5, FieldIn DEF Sensor, a, b, c
<1>3. Sensor("msr", FALSE) \in Q /\ Sensor("tsc", TRUE) \in Q
  BY <1>1, <1>2
<1>4. <<Sensor("msr", FALSE), Sensor("tsc", TRUE)>> \in Seq(Q)
  BY <1>3, TuplesIn
<1>. DEFINE s == <<Sensor("msr", FALSE), Sensor("tsc", TRUE)>>
<1>. HIDE DEF s
<1>5. Object(s) \in Q /\ Object(s) # <<>>
  BY <1>4, ObjectIn DEF s
<1>. QED BY <1>1, <1>5, FieldIn DEF SensorSection, s

LEMMA BaselineIn ==
  ASSUME NEW Q, NEW C, Class(Q, C), Braced(Q), Common \cup PolicyKeys \subseteq C
  PROVE  BaselineSection \in Q
<1>1. {"baseline_comparison", "path", "available", "compared_cpus", "global_drop_ratio",
       "pressure_detected", "affected_cpus", "cpus", "cpu", "baseline_accepted_per_sec",
       "current_accepted_per_sec", "drop_ratio", "any"} \subseteq C
  <2>1. {"baseline_comparison", "path", "available", "compared_cpus", "global_drop_ratio",
         "pressure_detected", "affected_cpus", "cpus", "cpu", "baseline_accepted_per_sec",
         "current_accepted_per_sec", "drop_ratio", "any"} \subseteq Common \cup PolicyKeys
    BY DEF Common, DoctorNames, PolicyKeys
  <2>. QED BY <2>1
<1>. DEFINE k == Counts(<<"cpu", "baseline_accepted_per_sec", "current_accepted_per_sec",
                          "drop_ratio">>)
            f == Field("cpus", Array(<<Object(k)>>))
            a == <<Text("path", "any"), Flag("available", TRUE)>>
            b == Counts(<<"compared_cpus", "global_drop_ratio">>)
            c == <<Flag("pressure_detected", TRUE), Numbers("affected_cpus", <<0>>), f>>
<1>2. k \in Seq(Q) /\ b \in Seq(Q)
  <2>1. /\ <<"cpu", "baseline_accepted_per_sec", "current_accepted_per_sec",
             "drop_ratio">> \in Seq(C)
        /\ <<"compared_cpus", "global_drop_ratio">> \in Seq(C)
    BY <1>1
  <2>. QED BY <1>1, <2>1, TextsIn
<1>. HIDE DEF k, b
<1>3. f \in Q
  <2>1. Object(k) \in Q
    BY <1>2, ObjectIn
  <2>. DEFINE s == <<Object(k)>>
  <2>2. s \in Seq(Q)
    BY <2>1
  <2>. HIDE DEF s
  <2>3. Array(s) \in Q /\ Array(s) # <<>>
    BY <2>2, ArrayIn
  <2>. QED BY <1>1, <2>3, FieldIn DEF s
<1>. HIDE DEF f
<1>4. a \in Seq(Q)
  <2>1. Text("path", "any") \in Q /\ Flag("available", TRUE) \in Q
    BY <1>1, TextIn
  <2>. QED BY <2>1, TuplesIn
<1>5. c \in Seq(Q)
  <2>1. <<0>> \in Seq(Nat)
    OBVIOUS
  <2>2. Flag("pressure_detected", TRUE) \in Q /\ Numbers("affected_cpus", <<0>>) \in Q
    BY <1>1, <2>1, TextIn, NumbersIn
  <2>. QED BY <1>3, <2>2, TuplesIn
<1>. HIDE DEF a, c
<1>6. (a \o b) \o c \in Seq(Q)
  BY <1>2, <1>4, <1>5, SeqsOf
<1>7. Object((a \o b) \o c) \in Q /\ Object((a \o b) \o c) # <<>>
  BY <1>6, ObjectIn
<1>. QED BY <1>1, <1>7, FieldIn DEF BaselineSection, a, b, c, f, k

LEMMA RecordsIn ==
  ASSUME NEW Q, NEW C, Class(Q, C), Braced(Q), NEW key \in C, NEW s \in Seq(Q)
  PROVE  Field(key, Array(<<Object(s)>>)) \in Q
<1>1. Object(s) \in Q
  BY ObjectIn
<1>. DEFINE t == <<Object(s)>>
<1>2. t \in Seq(Q)
  BY <1>1, TuplesIn
<1>. HIDE DEF t
<1>3. Array(t) \in Q /\ Array(t) # <<>>
  BY <1>2, ArrayIn
<1>. QED BY <1>3, FieldIn DEF t

LEMMA EvidenceIn ==
  ASSUME NEW Q, NEW C, Class(Q, C), Braced(Q), Common \cup PolicyKeys \subseteq C,
         "severity" \in C
  PROVE  EvidenceSections \in Seq(Q)
<1>1. {"cpus", "id", "core_id", "numa_node", "siblings", "governor", "driver", "scan",
       "cpu", "status", "accepted_samples", "accepted_per_sec", "contaminated_windows",
       "msr_delta", "p99", "p99_9", "p99_99", "max", "clean_candidate",
       "throughput_class", "findings", "category", "message", "evidence",
       "recommendations", "risk", "action", "reason", "why_it_matters",
       "safe_suggestion", "advanced_suggestion", "advanced_risk", "expected_effect",
       "validation_command", "ai_context", "any"} \subseteq C
  <2>1. {"cpus", "id", "core_id", "numa_node", "siblings", "governor", "driver", "scan",
         "cpu", "status", "accepted_samples", "accepted_per_sec", "contaminated_windows",
         "msr_delta", "p99", "p99_9", "p99_99", "max", "clean_candidate",
         "throughput_class", "findings", "category", "message", "evidence",
         "recommendations", "risk", "action", "reason", "why_it_matters",
         "safe_suggestion", "advanced_suggestion", "advanced_risk", "expected_effect",
         "validation_command", "ai_context", "any"} \subseteq DoctorNames
    BY DEF DoctorNames
  <2>. QED BY <2>1 DEF Common
<1>. DEFINE a == Counts(<<"id", "core_id", "numa_node">>)
            b == Texts(<<"siblings", "governor", "driver">>)
            c == Counts(<<"cpu", "status", "accepted_samples", "accepted_per_sec",
                          "contaminated_windows", "msr_delta", "p99", "p99_9", "p99_99",
                          "max">>)
            d == <<Flag("clean_candidate", TRUE), Text("throughput_class", "any")>>
            e == Texts(<<"severity", "category", "message", "evidence">>)
            f == Texts(<<"risk", "action", "reason", "why_it_matters", "safe_suggestion",
                         "advanced_suggestion", "advanced_risk", "expected_effect",
                         "validation_command">>)
<1>2. a \in Seq(Q) /\ c \in Seq(Q)
  <2>1. /\ <<"id", "core_id", "numa_node">> \in Seq(C)
        /\ <<"cpu", "status", "accepted_samples", "accepted_per_sec",
             "contaminated_windows", "msr_delta", "p99", "p99_9", "p99_99",
             "max">> \in Seq(C)
    BY <1>1
  <2>. QED BY <1>1, <2>1, TextsIn
<1>3. b \in Seq(Q) /\ e \in Seq(Q) /\ f \in Seq(Q)
  <2>1. /\ <<"siblings", "governor", "driver">> \in Seq(C)
        /\ <<"severity", "category", "message", "evidence">> \in Seq(C)
        /\ <<"risk", "action", "reason", "why_it_matters", "safe_suggestion",
             "advanced_suggestion", "advanced_risk", "expected_effect",
             "validation_command">> \in Seq(C)
    BY <1>1
  <2>. QED BY <1>1, <2>1, TextsIn
<1>4. d \in Seq(Q)
  <2>1. Flag("clean_candidate", TRUE) \in Q /\ Text("throughput_class", "any") \in Q
    BY <1>1, TextIn
  <2>. QED BY <2>1, TuplesIn
<1>5. Text("ai_context", "any") \in Q
  BY <1>1, TextIn
<1>. HIDE DEF a, b, c, d, e, f
<1>6. a \o b \in Seq(Q) /\ c \o d \in Seq(Q)
  BY <1>2, <1>3, <1>4, SeqsOf
<1>. DEFINE g == a \o b
            h == c \o d
<1>7. g \in Seq(Q) /\ h \in Seq(Q)
  BY <1>6
<1>. HIDE DEF g, h
<1>8. /\ Field("cpus", Array(<<Object(g)>>)) \in Q
      /\ Field("scan", Array(<<Object(h)>>)) \in Q
      /\ Field("findings", Array(<<Object(e)>>)) \in Q
      /\ Field("recommendations", Array(<<Object(f)>>)) \in Q
  BY <1>1, <1>3, <1>7, RecordsIn
<1>9. <<Field("cpus", Array(<<Object(g)>>)), Field("scan", Array(<<Object(h)>>)),
        Field("findings", Array(<<Object(e)>>)),
        Field("recommendations", Array(<<Object(f)>>)), Text("ai_context", "any")>> \in Seq(Q)
  BY <1>5, <1>8, TuplesIn
<1>. QED BY <1>9, Zenon DEF EvidenceSections, a, b, c, d, e, f, g, h

(* The fields of doctor.json before its policy. *)
BeforePolicy(r) ==
  (Texts(<<"schema_version", "generator", "generated_at">>)
   \o <<MachineSection, EnvironmentSection, SensorSection>>)
  \o (IF r.baseline THEN <<BaselineSection>> ELSE <<>>)

CandidateSection ==
  Field("candidate_summary",
        Object(Texts(<<"sibling_aware_primary", "all_clean_higher_throughput">>)))

LEMMA BeforePolicyIn ==
  ASSUME NEW Q, NEW C, Class(Q, C), Braced(Q), Common \cup PolicyKeys \subseteq C, NEW r
  PROVE  BeforePolicy(r) \in Seq(Q) /\ CandidateSection \in Q
<1>1. {"schema_version", "generator", "generated_at", "candidate_summary",
       "sibling_aware_primary", "all_clean_higher_throughput", "any"} \subseteq C
  <2>1. {"schema_version", "generator", "generated_at", "candidate_summary",
         "sibling_aware_primary", "all_clean_higher_throughput", "any"} \subseteq Common
    BY DEF Common, DoctorNames, PolicyValues
  <2>. QED BY <2>1
<1>. DEFINE a == Texts(<<"schema_version", "generator", "generated_at">>)
            b == <<MachineSection, EnvironmentSection, SensorSection>>
            c == IF r.baseline THEN <<BaselineSection>> ELSE <<>>
            d == Texts(<<"sibling_aware_primary", "all_clean_higher_throughput">>)
<1>2. a \in Seq(Q) /\ d \in Seq(Q)
  <2>1. /\ <<"schema_version", "generator", "generated_at">> \in Seq(C)
        /\ <<"sibling_aware_primary", "all_clean_higher_throughput">> \in Seq(C)
    BY <1>1
  <2>. QED BY <1>1, <2>1, TextsIn
<1>3. b \in Seq(Q)
  BY MachineIn, EnvironmentIn, SensorsIn, TuplesIn
<1>4. c \in Seq(Q)
  <2>1. BaselineSection \in Q
    BY BaselineIn
  <2>2. <<BaselineSection>> \in Seq(Q) /\ <<>> \in Seq(Q)
    BY <2>1, TuplesIn
  <2>. QED BY <2>2
<1>. HIDE DEF a, b, c, d
<1>5. (a \o b) \o c \in Seq(Q)
  BY <1>2, <1>3, <1>4, SeqsOf
<1>6. Object(d) \in Q /\ Object(d) # <<>>
  BY <1>2, ObjectIn
<1>7. Field("candidate_summary", Object(d)) \in Q
  BY <1>1, <1>6, FieldIn
<1>. QED BY <1>5, <1>7, Zenon DEF BeforePolicy, CandidateSection, a, b, c, d

LEMMA ListedOne ==
  ASSUME NEW g \in Seq(Token)
  PROVE  Listed(<<g>>) = g
<1>1. <<>> \in Seq(Seq(Token))
  OBVIOUS
<1>2. Append(<<>>, g) = <<g>>
  OBVIOUS
<1>3. Listed(Append(<<>>, g)) = g
  BY <1>1, ListedAppend
<1>. QED BY <1>2, <1>3, Zenon

LEMMA PolicyObject ==
  ASSUME NEW p, IsPolicy(p)
  PROVE  /\ Object(PolicyFields(p)) = Braces(Listed(PolicyFields(p)))
         /\ Listed(PolicyFields(p)) \in Flat
         /\ Object(PolicyFields(p)) \in Seq(Token) /\ Object(PolicyFields(p)) # <<>>
<1>1. Listed(PolicyFields(p)) \in Flat
  BY PolicyFieldsAre, FlatIsClass, ListedIn
<1>2. Object(PolicyFields(p)) \in Seq(Token) /\ Object(PolicyFields(p)) # <<>>
  BY PolicyFieldsAre, AllIsClass, ObjectIn
<1>3. Object(PolicyFields(p)) = Braces(Listed(PolicyFields(p)))
  BY Zenon DEF Object, Braces
<1>. QED BY <1>1, <1>2, <1>3

PolicyKey == "recommended_runtime_policy"

LEMMA DoctorClass ==
  /\ PolicyKey \in Phrase
  /\ Class(Without(PolicyKey), Phrase \ {PolicyKey}) /\ Braced(Without(PolicyKey))
  /\ Common \cup PolicyKeys \subseteq Phrase \ {PolicyKey}
  /\ "severity" \in Phrase \ {PolicyKey} /\ "vis_doctor_report" \in Phrase \ {PolicyKey}
<1>1. PolicyKey \in Phrase
  BY DEF Phrase, SearchedKeys, PolicyKey
<1>2. Class(Without(PolicyKey), Phrase \ {PolicyKey}) /\ Braced(Without(PolicyKey))
  BY <1>1, WithoutIsClass
<1>3. PolicyKey \notin DoctorNames
  BY DEF PolicyKey, DoctorNames
<1>4. PolicyKey \notin AttestationNames
  BY DEF PolicyKey, AttestationNames
<1>5. PolicyKey \notin PolicyValues
  BY DEF PolicyKey, PolicyValues, PolicyWarnings
<1>6. PolicyKey \notin PolicyKeys
  BY DEF PolicyKey, PolicyKeys
<1>7. Common \cup PolicyKeys \subseteq Phrase \ {PolicyKey}
  BY <1>3, <1>4, <1>5, <1>6 DEF Common, Phrase
<1>8. "severity" \in Phrase \ {PolicyKey}
  BY DEF Phrase, SearchedKeys, PolicyKey
<1>9. "vis_doctor_report" \in DoctorNames
  BY DEF DoctorNames
<1>. QED BY <1>1, <1>2, <1>7, <1>8, <1>9 DEF Common

(* The fields of doctor.json, with or without a policy. *)
DoctorFields(r, pol) == (BeforePolicy(r) \o pol) \o EvidenceSections

LEMMA DoctorDocumentIs ==
  ASSUME NEW r
  PROVE  /\ r.scan_ran => DoctorDocument(r) =
              Object(<<Field("vis_doctor_report", Object(DoctorFields(r,
                <<CandidateSection, Field(PolicyKey, Object(PolicyFields(r.policy)))>>)))>>)
         /\ ~r.scan_ran => DoctorDocument(r) =
              Object(<<Field("vis_doctor_report", Object(DoctorFields(r, <<>>)))>>)
BY Zenon DEF DoctorDocument, DoctorFields, BeforePolicy, PolicySection, CandidateSection,
             PolicyKey, PolicyFields

LEMMA NoPolicyWithoutScan ==
  ASSUME NEW r, ~r.scan_ran
  PROVE  DoctorDocument(r) \in Without(PolicyKey)
<1>. DEFINE Q == Without(PolicyKey)
            C == Phrase \ {PolicyKey}
<1>1. Class(Q, C) /\ Braced(Q) /\ Common \cup PolicyKeys \subseteq C
      /\ "severity" \in C /\ "vis_doctor_report" \in C
  BY DoctorClass
<1>. HIDE DEF Q, C
<1>2. BeforePolicy(r) \in Seq(Q) /\ EvidenceSections \in Seq(Q) /\ <<>> \in Seq(Q)
  BY <1>1, BeforePolicyIn, EvidenceIn
<1>3. DoctorFields(r, <<>>) \in Seq(Q)
  BY <1>2, SeqsOf DEF DoctorFields
<1>. DEFINE o == Object(DoctorFields(r, <<>>))
            g == Field("vis_doctor_report", o)
<1>4. o \in Q /\ o # <<>>
  BY <1>1, <1>3, ObjectIn
<1>. HIDE DEF o
<1>5. g \in Q
  BY <1>1, <1>4, FieldIn
<1>. HIDE DEF g
<1>6. <<g>> \in Seq(Q)
  BY <1>5, TuplesIn
<1>7. Object(<<g>>) \in Q
  BY <1>1, <1>6, ObjectIn
<1>. QED BY <1>7, DoctorDocumentIs DEF g, o, Q

LEMMA PolicyStandsInDoctor ==
  ASSUME NEW r, r.scan_ran, IsPolicy(r.policy)
  PROVE  \E q : Stands(DoctorDocument(r), PolicyKey, q, Object(PolicyFields(r.policy)))
<1>. DEFINE Q == Without(PolicyKey)
            C == Phrase \ {PolicyKey}
            S == Seq(Token)
            v == Object(PolicyFields(r.policy))
            x == Field(PolicyKey, v)
            b == BeforePolicy(r)
            c == CandidateSection
<1>1. Class(Q, C) /\ Braced(Q) /\ Common \cup PolicyKeys \subseteq C
      /\ "severity" \in C /\ "vis_doctor_report" \in C
  BY DoctorClass
<1>2. Class(S, Phrase) /\ Braced(S) /\ Common \cup PolicyKeys \subseteq Phrase
      /\ "severity" \in Phrase /\ PolicyKey \in Phrase /\ "vis_doctor_report" \in Phrase
  BY DoctorClass, AllIsClass
<1>3. v \in S /\ v # <<>>
  BY PolicyObject
<1>. HIDE DEF v
<1>4. x \in S
  BY <1>2, <1>3, FieldIn
<1>. HIDE DEF C, x
<1>5. b \in Seq(Q) /\ c \in Q
  BY <1>1, BeforePolicyIn
<1>6. EvidenceSections \in Seq(S)
  BY <1>2, EvidenceIn
<1>. HIDE DEF Q, b, c
<1>. DEFINE s == b \o <<c>>
<1>7. s \in Seq(Q)
  <2>1. <<c>> \in Seq(Q)
    BY <1>5, TuplesIn
  <2>. QED BY <1>5, <2>1, SeqsOf
<1>8. b \o <<c, x>> = s \o <<x>>
  <2>1. Q \subseteq S
    BY <1>1 DEF Class
  <2>2. b \in Seq(S) /\ c \in S
    BY <1>5, <2>1, SeqMonotonic
  <2>. HIDE DEF S
  <2>. QED BY <1>4, <2>2
<1>. HIDE DEF s
<1>. DEFINE list == (s \o <<x>>) \o EvidenceSections
<1>9. Around(Listed(list), x, Q, S)
  BY <1>1, <1>2, <1>4, <1>6, <1>7, AroundPart
<1>10. list = DoctorFields(r, <<c, x>>)
  BY <1>8, Zenon DEF DoctorFields, b
<1>. HIDE DEF list
<1>. DEFINE g == Field("vis_doctor_report", Object(list))
<1>11. Around(g, x, Q, S)
  BY <1>1, <1>2, <1>4, <1>9, AroundObject
<1>12. g \in S
  <2>1. PICK u \in Q, w \in S : Split(g, u, x, w)
    BY <1>11 DEF Around
  <2>2. u \in S
    BY <1>1 DEF Class
  <2>3. u \o x \in S
    BY <1>4, <2>2, ConcatProperties
  <2>. QED BY <2>1, <2>3, ConcatProperties DEF Split
<1>. HIDE DEF g
<1>13. Listed(<<g>>) = g
  BY <1>12, ListedOne
<1>14. Around(Object(<<g>>), x, Q, S)
  BY <1>1, <1>2, <1>4, <1>11, <1>13, AroundObject
<1>15. Object(<<g>>) = DoctorDocument(r)
  BY <1>10, DoctorDocumentIs, Zenon DEF g, c, x, v
<1>16. PICK a \in Q, w \in S : Split(DoctorDocument(r), a, x, w)
  BY <1>14, <1>15 DEF Around
<1>17. a \in Without(PolicyKey) /\ Split(DoctorDocument(r), a, Field(PolicyKey, v), w)
  BY <1>16 DEF Q, x
<1>18. Stands(DoctorDocument(r), PolicyKey, Len(a) + 3, v)
  BY <1>2, <1>3, <1>17, FieldFound
<1>. QED BY <1>18 DEF v

(* What vis-run reads of a part of doctor.json: the policy or nothing.     *)
LEMMA PolicyRead ==
  ASSUME NEW r \in Reports, NEW text \in Readable(DoctorDocument(r))
  PROVE  /\ ParsePolicy(text) \subseteq {r.policy}
         /\ ParsePolicy(text) # {} => r.scan_ran
         /\ text = DoctorDocument(r) /\ r.scan_ran => ParsePolicy(text) # {}
<1>. DEFINE doc == DoctorDocument(r)
<1>1. IsPolicy(r.policy) /\ r.scan_ran \in BOOLEAN
  BY DocumentsAssumption
<1>2. ParsePolicy(text) = UNION {PolicyIn(o) : o \in ObjectOf(text, PolicyKey)}
  BY Zenon DEF ParsePolicy, PolicyKey
<1>3. CASE r.scan_ran
  <2>. DEFINE l == Listed(PolicyFields(r.policy))
              p == r.policy
  <2>1. PICK q : Stands(doc, PolicyKey, q, Object(PolicyFields(p)))
    BY <1>1, <1>3, PolicyStandsInDoctor
  <2>2. Object(PolicyFields(p)) = Braces(l) /\ l \in Flat
    BY <1>1, PolicyObject
  <2>3. doc \in Seq(Token)
    BY <2>1 DEF Stands
  <2>4. PartOf(text, doc)
    BY <2>3, ReadableIsPart
  <2>5. PolicyIn(Braces(l)) = {p}
    BY <1>1, <2>2, PolicyInObject
  <2>6. Stands(doc, PolicyKey, q, Braces(l))
    BY <2>1, <2>2, Zenon
  <2>. HIDE DEF doc, l, p
  <2>7. /\ ObjectOf(text, PolicyKey) \subseteq {Braces(l)}
        /\ text = doc => ObjectOf(text, PolicyKey) = {Braces(l)}
    BY <2>2, <2>4, <2>6, ObjectFields
  <2>8. ParsePolicy(text) \subseteq {p} /\ (text = doc => p \in ParsePolicy(text))
    BY <1>2, <2>5, <2>7
  <2>. QED BY <1>3, <2>8 DEF doc, p
<1>4. CASE ~r.scan_ran
  <2>1. doc \in Without(PolicyKey)
    BY <1>4, NoPolicyWithoutScan
  <2>. HIDE DEF doc
  <2>2. doc \in Seq(Token) /\ \A i \in 1 .. Len(doc) : doc[i] # String(PolicyKey)
    <3>1. doc \in Seq(Token)
      BY <2>1, SeqMonotonic DEF Without, Others
    <3>2. \A i \in 1 .. Len(doc) : doc[i] \in Others(PolicyKey)
      BY <2>1 DEF Without
    <3>. QED BY <3>1, <3>2 DEF Others
  <2>3. PartOf(text, doc)
    BY <2>2, ReadableIsPart DEF doc
  <2>4. First(doc, String(PolicyKey), 1) = {}
    <3>1. ASSUME NEW k \in First(doc, String(PolicyKey), 1) PROVE FALSE
      <4>1. k \in 1 .. Len(doc) /\ doc[k] = String(PolicyKey)
        BY <2>2, FirstIs
      <4>. QED BY <2>2, <4>1
    <3>. QED BY <3>1
  <2>5. ValueStart(doc, PolicyKey) = {}
    BY <2>4, Zenon DEF ValueStart
  <2>6. ValueStart(text, PolicyKey) = {}
    BY <2>2, <2>3, <2>5, PartValueStart
  <2>7. ObjectOf(text, PolicyKey) = {}
    BY <2>6, Zenon DEF ObjectOf
  <2>8. ParsePolicy(text) = {}
    BY <1>2, <2>7
  <2>. QED BY <1>4, <2>8
<1>. QED BY <1>1, <1>3, <1>4

----------------------------------------------------------------------------
(* The policy, in every state: vis-run reads it once. *)
PolicyInv ==
  /\ pc \in {"vis-run", "refused", "workload", "attested", "unattested", "compared"}
  /\ report \in Reports
  /\ policy \subseteq {report.policy} /\ (policy # {} => report.scan_ran)
  /\ pc = "refused" => ~(whole /\ report.scan_ran)

LEMMA PolicyInvHolds == Spec => []PolicyInv
<1>1. Init => PolicyInv
  BY DEF Init, PolicyInv
<1>2. PolicyInv /\ [Next]_vars => PolicyInv'
  <2>. SUFFICES ASSUME PolicyInv, [Next]_vars PROVE PolicyInv'
    OBVIOUS
  <2>1. CASE VisRunReads
    <3>1. PICK text \in Readable(DoctorDocument(report)) :
            policy' = ParsePolicy(text) /\ whole' = (text = DoctorDocument(report))
      BY <2>1 DEF VisRunReads
    <3>2. report \in Reports /\ report' = report
      BY <2>1 DEF VisRunReads, PolicyInv
    <3>3. /\ policy' \subseteq {report.policy} /\ (policy' # {} => report.scan_ran)
          /\ whole' /\ report.scan_ran => policy' # {}
      BY <3>1, <3>2, PolicyRead
    <3>4. pc' = IF policy' = {} THEN "refused" ELSE "workload"
      BY <2>1 DEF VisRunReads
    <3>. QED BY <3>2, <3>3, <3>4 DEF PolicyInv
  <2>2. CASE VisRunRuns
    <3>1. pc' \in {"attested", "unattested"}
      <4>1. ASSUME NEW r, NEW code, Publish(r, code) PROVE pc' \in {"attested", "unattested"}
        BY <4>1 DEF Publish
      <4>2. ASSUME NEW p, NEW r, NoWorkload(p, r) PROVE pc' \in {"attested", "unattested"}
        BY <4>1, <4>2 DEF NoWorkload
      <4>3. ASSUME NEW p, NEW r, Workload(p, r) PROVE pc' \in {"attested", "unattested"}
        BY <4>1, <4>3, Zenon DEF Workload
      <4>. QED BY <2>2, <4>2, <4>3, Zenon DEF VisRunRuns
    <3>2. pc = "workload" /\ UNCHANGED <<report, policy>> /\ whole' = FALSE
      BY <2>2 DEF VisRunRuns
    <3>. QED BY <3>1, <3>2 DEF PolicyInv
  <2>3. CASE VisCompareReads
    BY <2>3 DEF VisCompareReads, PolicyInv
  <2>4. CASE UNCHANGED vars
    BY <2>4 DEF vars, PolicyInv
  <2>. QED BY <2>1, <2>2, <2>3, <2>4 DEF Next
<1>. QED BY <1>1, <1>2, PTL DEF Spec

(* vis-run reads the very policy that Doctor wrote, or none at all, of     *)
(* whatever part of doctor.json it finds, for every policy and every point *)
(* at which the file is cut off; of a whole file with a scan it does read  *)
(* the policy.  (vis_doctor_to_json, find_json_object,                     *)
(* vis_run_parse_policy_text)                                              *)
THEOREM PolicyIsRead == Spec => []PolicyIsReadAsWritten
<1>1. PolicyInv => PolicyIsReadAsWritten
  BY DEF PolicyInv, PolicyIsReadAsWritten
<1>. QED BY <1>1, PolicyInvHolds, PTL

----------------------------------------------------------------------------
(* What a reader finds in a part of a document is what it finds in the     *)
(* whole, or nothing.                                                      *)
LEMMA PartString ==
  ASSUME NEW doc \in Seq(Token), NEW text, PartOf(text, doc), NEW key
  PROVE  /\ StringField(text, key) \subseteq StringField(doc, key)
         /\ \A v \in StringField(text, key) :
              \E p \in ValueStart(doc, key) : p \in 1 .. Len(text) /\ text[p] = doc[p]
<1>. SUFFICES ASSUME NEW v \in StringField(text, key)
              PROVE  /\ v \in StringField(doc, key)
                     /\ \E p \in ValueStart(doc, key) : p \in 1 .. Len(text) /\ text[p] = doc[p]
  OBVIOUS
<1>1. PICK p \in ValueStart(text, key) : \E t \in TokenAt(text, p, "string") : v = t.text
  BY DEF StringField
<1>2. /\ p \in DOMAIN text /\ text[p].kind = "string" /\ v = text[p].text
  BY <1>1 DEF TokenAt
<1>3. text \in Seq(Token) /\ DOMAIN text = 1 .. Len(text) /\ DOMAIN doc = 1 .. Len(doc)
      /\ Len(doc) \in Nat /\ Len(text) \in Nat /\ Len(text) <= Len(doc)
  BY DEF PartOf
<1>4. p \in 1 .. Len(doc) /\ (text[p] = doc[p] \/ text[p] \in Stumps(doc[p]))
  <2>1. p \in 1 .. Len(text)
    BY <1>2, <1>3, Zenon
  <2>2. p \in 1 .. Len(doc)
    BY <1>3, <2>1
  <2>. QED BY <2>1, <2>2, Zenon DEF PartOf
<1>5. text[p] = doc[p]
  <2>1. ASSUME text[p] \in Stumps(doc[p]) PROVE FALSE
    <3>1. doc[p] \in Token
      BY <1>4
    <3>2. text[p] = Broken \/ text[p].kind = "number"
      BY <2>1, <3>1, StumpsAreTokens
    <3>3. Broken.kind # "string"
      BY DEF Broken
    <3>. QED BY <1>2, <3>2, <3>3
  <2>. QED BY <1>4, <2>1
<1>6. p \in ValueStart(doc, key)
  BY <1>1, PartValueStart
<1>7. doc[p] \in TokenAt(doc, p, "string")
  BY <1>2, <1>3, <1>4, <1>5 DEF TokenAt
<1>8. v \in StringField(doc, key)
  BY <1>2, <1>5, <1>6, <1>7 DEF StringField
<1>. QED BY <1>2, <1>3, <1>5, <1>6, <1>8

LEMMA PartNumbers ==
  ASSUME NEW doc \in Seq(Token), NEW text, PartOf(text, doc), NEW key
  PROVE  NumberSetField(text, key) \subseteq NumberSetField(doc, key)
<1>1. /\ text \in Seq(Token) /\ Len(doc) \in Nat /\ Len(text) \in Nat
      /\ Len(text) <= Len(doc)
  BY DEF PartOf
<1>2. ASSUME NEW p \in ValueStart(text, key), NEW s \in ItemsAt(text, p, "number")
      PROVE  s \in ItemsAt(doc, p, "number")
  <2>1. p \in Nat \ {0}
    BY PartValueStart
  <2>2. PICK e \in First(text, CloseBracket, p + 1) :
          /\ s = {text[i] : i \in {j \in p + 1 .. e - 1 : text[j].kind = "number"}}
          /\ text[p] = OpenBracket
          /\ \A i \in p + 1 .. e - 1 :
               IF (i - p) % 2 = 1 THEN text[i].kind = "number" ELSE text[i] = Comma
    BY DEF ItemsAt
  <2>3. e \in p + 1 .. Len(text)
    BY <1>1, <2>1, <2>2, FirstIs
  <2>4. e \in First(doc, CloseBracket, p + 1)
    BY <2>1, <2>2, PartFirst DEF CloseBracket
  <2>5. \A i \in p .. e - 1 : text[i] = doc[i]
    <3>. SUFFICES ASSUME NEW i \in p .. e - 1 PROVE text[i] = doc[i]
      OBVIOUS
    <3>1. i \in 1 .. Len(text) /\ i < Len(text)
      BY <1>1, <2>1, <2>3
    <3>. QED BY <3>1, PartHits
  <2>6. doc[p] = OpenBracket /\ p \in p .. e - 1
    BY <1>1, <2>1, <2>2, <2>3, <2>5
  <2>7. \A i \in p + 1 .. e - 1 :
          IF (i - p) % 2 = 1 THEN doc[i].kind = "number" ELSE doc[i] = Comma
    BY <1>1, <2>1, <2>2, <2>3, <2>5
  <2>8. s = {doc[i] : i \in {j \in p + 1 .. e - 1 : doc[j].kind = "number"}}
    <3>1. \A i \in p + 1 .. e - 1 : text[i] = doc[i]
      BY <1>1, <2>1, <2>3, <2>5
    <3>2. s = {text[i] : i \in {j \in p + 1 .. e - 1 : text[j].kind = "number"}}
      BY <2>2
    <3>. QED BY <3>1, <3>2
  <2>. QED BY <2>4, <2>6, <2>7, <2>8 DEF ItemsAt
<1>3. ArrayField(text, key, "number") \subseteq ArrayField(doc, key, "number")
  <2>1. ValueStart(text, key) \subseteq ValueStart(doc, key)
    BY PartValueStart
  <2>. QED BY <1>2, <2>1, Zenon DEF ArrayField
<1>. QED BY <1>3 DEF NumberSetField

----------------------------------------------------------------------------
(* The fields of an attestation.                                           *)
IsAttested(r) ==
  /\ r.source \in {"primary", "secondary"} /\ r.assigned \in CpuLists
  /\ r.command \in Seq(Words)
  /\ r.dry_run \in BOOLEAN /\ r.applied \in BOOLEAN
  /\ r.status.how \in {"exited", "signaled", "unknown"} /\ r.exit_code \in Nat
  /\ r.escapes \in Seq(CpuLists)
  /\ r.events \subseteq EventType /\ IsFiniteSet(r.events)

Errors(r) == {e \in r.events : e.severity = "error"}
Argv(r) == Field("argv", Array(r.command))

WorkloadFields(r) ==
  <<Argv(r), Flag("started", ~r.dry_run),
    Flag("dry_run", r.dry_run), Flag("affinity_applied", r.applied),
    Text("status", r.status.how), Count("exit_code", r.exit_code)>>

EscapeRows(r) == [i \in DOMAIN r.escapes |-> EscapeRow(r.escapes[i])]
EventRows(E) == [i \in DOMAIN SetToSeq(E) |-> EventRow(SetToSeq(E)[i])]
FailedRows(E) == [i \in DOMAIN SetToSeq(E) |-> FailedRow(SetToSeq(E)[i])]
AdviceRows(E) == [i \in DOMAIN SetToSeq(E) |-> AdviceRow(SetToSeq(E)[i])]

BeforeEscapes ==
  <<Text("mode", "any")>>
  \o Counts(<<"samples", "observed_process_samples", "observed_thread_samples">>)

(* All the fields, in order. *)
AttestationList(p, r) ==
  <<Text("schema_version", "any"), Text("generator", "any"), Text("policy_source", "any"),
    Text("profile", p.profile), Text("cpu_policy", p.cpu_policy),
    Text("cpu_source", r.source),
    Numbers("assigned_cpus", SetToSeq(r.assigned)),
    Numbers("avoid_cpus", SetToSeq(p.avoid)),
    Numbers("contaminated_cpus", SetToSeq(p.contaminated)),
    Text("smt_policy", p.smt_policy),
    Text("lower_throughput_policy", p.lower_throughput_policy),
    Flag("requires_longer_validation", p.requires_longer_validation),
    Strings("warnings", SetToSeq(p.warnings)),
    Field("workload", Object(WorkloadFields(r))),
    Field("observation", Object(
      BeforeEscapes \o <<Field("affinity_escapes", Array(EscapeRows(r)))>>)),
    Field("events", Array(EventRows(r.events))),
    Field("failed_actions", Array(FailedRows(Errors(r)))),
    Field("strengthened_recommendations", Array(AdviceRows(r.events))),
    Text("verdict", Verdict(r))>>

LEMMA ListsJoin ==
  \A a1, a2, a3, b1, b2, b3, b4, b5, b6, b7, b8, b9, b10, b11, b12, b13, b14, b15, c :
    (<<a1, a2, a3>> \o <<b1, b2, b3, b4, b5, b6, b7, b8, b9, b10, b11, b12, b13, b14, b15>>)
      \o <<c>>
    = <<a1, a2, a3, b1, b2, b3, b4, b5, b6, b7, b8, b9, b10, b11, b12, b13, b14, b15, c>>
<1>. TAKE a1, a2, a3, b1, b2, b3, b4, b5, b6, b7, b8, b9, b10, b11, b12, b13, b14, b15, c
<1>. DEFINE T == {a1, a2, a3, b1, b2, b3, b4, b5, b6, b7, b8, b9, b10, b11, b12, b13, b14, b15, c}
            s == <<a1, a2, a3>>
            t == <<b1, b2, b3, b4, b5, b6, b7, b8, b9, b10, b11, b12, b13, b14, b15>>
            u == <<c>>
            w == <<a1, a2, a3, b1, b2, b3, b4, b5, b6, b7, b8, b9, b10, b11, b12, b13, b14, b15, c>>
<1>1. s \in Seq(T) /\ t \in Seq(T) /\ u \in Seq(T) /\ w \in Seq(T)
  OBVIOUS
<1>2. Len(s) = 3 /\ Len(t) = 15 /\ Len(u) = 1 /\ Len(w) = 19
  OBVIOUS
<1>3. /\ w[1] = s[1] /\ w[2] = s[2] /\ w[3] = s[3]
      /\ w[4] = t[1] /\ w[5] = t[2] /\ w[6] = t[3] /\ w[7] = t[4] /\ w[8] = t[5]
      /\ w[9] = t[6] /\ w[10] = t[7] /\ w[11] = t[8] /\ w[12] = t[9] /\ w[13] = t[10]
      /\ w[14] = t[11] /\ w[15] = t[12] /\ w[16] = t[13] /\ w[17] = t[14]
      /\ w[18] = t[15] /\ w[19] = u[1]
  OBVIOUS
<1>. HIDE DEF T, s, t, u, w
<1>. DEFINE J(z, x, y, m, n) ==
              /\ z \in Seq(T) /\ Len(z) = m + n
              /\ \A i \in 1 .. m + n : z[i] = IF i <= m THEN x[i] ELSE y[i - m]
<1>4. \A x, y \in Seq(T), m, n \in Nat : Len(x) = m /\ Len(y) = n => J(x \o y, x, y, m, n)
  <2>. TAKE x, y \in Seq(T), m, n \in Nat
  <2>. HAVE Len(x) = m /\ Len(y) = n
  <2>1. /\ x \o y \in Seq(T) /\ Len(x \o y) = Len(x) + Len(y)
        /\ \A i \in 1 .. Len(x) + Len(y) :
             (x \o y)[i] = IF i <= Len(x) THEN x[i] ELSE y[i - Len(x)]
    BY ConcatProperties
  <2>. QED BY <2>1, Zenon
<1>. DEFINE v == s \o t
<1>5. v \in Seq(T) /\ Len(v) = 3 + 15
      /\ \A i \in 1 .. 3 + 15 : v[i] = IF i <= 3 THEN s[i] ELSE t[i - 3]
  <2>1. 3 \in Nat /\ 15 \in Nat
    OBVIOUS
  <2>. HIDE DEF J
  <2>2. J(v, s, t, 3, 15)
    BY <1>1, <1>2, <1>4, <2>1, Zenon
  <2>. QED BY <2>2 DEF J
<1>. HIDE DEF v
<1>. DEFINE z == v \o u
<1>6. z \in Seq(T) /\ Len(z) = 18 + 1
      /\ \A i \in 1 .. 18 + 1 : z[i] = IF i <= 18 THEN v[i] ELSE u[i - 18]
  <2>1. v \in Seq(T) /\ Len(v) = 18 /\ 18 \in Nat /\ 1 \in Nat
    BY <1>5
  <2>. HIDE DEF J
  <2>2. J(z, v, u, 18, 1)
    BY <1>1, <1>2, <1>4, <2>1, Zenon
  <2>. QED BY <2>2 DEF J
<1>. HIDE DEF z
<1>7. \A i \in 1 .. 19 : z[i] = IF i <= 3 THEN s[i] ELSE IF i <= 18 THEN t[i - 3] ELSE u[i - 18]
  BY <1>5, <1>6
<1>10. z \in Seq(T) /\ Len(z) = 19
  BY <1>6
<1>11. ASSUME NEW i \in 1 .. 19 PROVE z[i] = w[i]
  BY <1>3, <1>7
<1>12. z = w
  BY <1>1, <1>2, <1>10, <1>11, SeqEqual
<1>. QED BY <1>12, Zenon DEF s, t, u, v, w, z

LEMMA AttestationIs ==
  ASSUME NEW p, NEW r
  PROVE  AttestationDocument(p, r) =
           Object(<<Field("vis_run_attestation", Object(AttestationList(p, r)))>>)
<1>1. Texts(<<"schema_version", "generator", "policy_source">>) =
        <<Text("schema_version", "any"), Text("generator", "any"), Text("policy_source", "any")>>
  BY DEF Texts
<1>2. AttestedFields(p, r) =
        <<Text("schema_version", "any"), Text("generator", "any"), Text("policy_source", "any")>>
        \o <<Text("profile", p.profile), Text("cpu_policy", p.cpu_policy),
             Text("cpu_source", r.source),
             Numbers("assigned_cpus", SetToSeq(r.assigned)),
             Numbers("avoid_cpus", SetToSeq(p.avoid)),
             Numbers("contaminated_cpus", SetToSeq(p.contaminated)),
             Text("smt_policy", p.smt_policy),
             Text("lower_throughput_policy", p.lower_throughput_policy),
             Flag("requires_longer_validation", p.requires_longer_validation),
             Strings("warnings", SetToSeq(p.warnings)),
             Field("workload", Object(WorkloadFields(r))),
             Field("observation", Object(
               BeforeEscapes \o <<Field("affinity_escapes", Array(EscapeRows(r)))>>)),
             Field("events", Array(EventRows(r.events))),
             Field("failed_actions", Array(FailedRows(Errors(r)))),
             Field("strengthened_recommendations", Array(AdviceRows(r.events)))>>
  BY <1>1, Zenon
     DEF AttestedFields, Errors, WorkloadFields, Argv, EscapeRows, EventRows,
         FailedRows, AdviceRows, BeforeEscapes, Rows
<1>3. AttestedFields(p, r) \o <<Text("verdict", Verdict(r))>> = AttestationList(p, r)
  BY <1>2, ListsJoin, SMTT(60) DEF AttestationList
<1>. QED BY <1>3, Zenon DEF AttestationDocument, Attestation

LEMMA SeqIs ==
  ASSUME NEW n \in Nat, NEW Q, NEW f, DOMAIN f = 1 .. n, f = [i \in 1 .. n |-> f[i]],
         \A i \in 1 .. n : f[i] \in Q
  PROVE  f \in Seq(Q) /\ Len(f) = n
<1>1. f \in [1 .. n -> Q]
  BY Zenon
<1>2. f \in Seq(Q)
  BY <1>1, SeqDef, Zenon
<1>. QED BY <1>2

LEMMA EventsAre ==
  ASSUME NEW e \in EventType
  PROVE  /\ e.severity \in {"error", "warning", "info"}
         /\ {e.severity, e.category, e.result} \subseteq Common
<1>1. /\ e.severity \in {"error", "warning", "info"}
      /\ e.category \in {"policy", "affinity", "process", "observation", "workload",
               "runtime_affinity", "validation", "cpu_frequency", "isolation",
               "memory", "cpu_topology", "smi"}
      /\ e.result \in {"failed", "read_failed", "signaled", "nonzero_exit", "escape_detected",
             "accepted_with_warning", "not_applicable_to_cpu_run", "policy_enforced"}
  BY DEF EventType
<1>2. {e.severity, e.category, e.result} \subseteq AttestationNames
  BY <1>1 DEF AttestationNames
<1>. QED BY <1>1, <1>2 DEF Common

LEMMA VerdictsAre ==
  ASSUME NEW r, IsAttested(r)
  PROVE  Verdict(r) \in Common /\ Verdict(r) \notin {"severity", "warning"}
<1>1. r.dry_run \in BOOLEAN /\ r.applied \in BOOLEAN
  BY DEF IsAttested
<1>2. Verdict(r) \in {"DRY_RUN", "WORKLOAD_FAILED", "FAILED_BEFORE_WORKLOAD",
                      "POLICY_REJECTED", "CONTROLLED_WITH_WARNINGS", "CONTROLLED"}
  <2>1. HasEvent(r, "error") \in BOOLEAN
    BY DEF HasEvent
  <2>. DEFINE h == HasEvent(r, "error")
  <2>2. CASE r.dry_run
    BY <1>1, <2>1, <2>2, Zenon DEF Verdict
  <2>3. CASE ~r.dry_run /\ h
    BY <1>1, <2>1, <2>3, Zenon DEF Verdict
  <2>4. CASE ~r.dry_run /\ ~h
    BY <1>1, <2>1, <2>4, Zenon DEF Verdict
  <2>. QED BY <1>1, <2>1, <2>2, <2>3, <2>4
<1>3. {"DRY_RUN", "WORKLOAD_FAILED", "FAILED_BEFORE_WORKLOAD",
       "POLICY_REJECTED", "CONTROLLED_WITH_WARNINGS", "CONTROLLED"} \subseteq AttestationNames
  BY DEF AttestationNames
<1>. QED BY <1>2, <1>3 DEF Common

(* The rows of the events and of the escapes. *)
LEMMA EventRowsIn ==
  ASSUME NEW Q, NEW C, Class(Q, C), Braced(Q), Common \cup PolicyKeys \subseteq C,
         NEW e \in EventType
  PROVE  /\ FailedRow(e) \in Q /\ AdviceRow(e) \in Q
         /\ "severity" \in C => EventRow(e) \in Q
<1>1. {e.severity, e.category, e.result} \subseteq C
  BY EventsAre
<1>2. {"category", "action", "result", "evidence", "recommendation", "any"} \subseteq C
  <2>1. {"category", "action", "result", "evidence", "recommendation", "any"} \subseteq Common
    BY DEF Common, AttestationNames
  <2>. QED BY <2>1
<1>3. /\ Text("category", e.category) \in Q /\ Text("action", "any") \in Q
      /\ Text("result", e.result) \in Q /\ Text("evidence", "any") \in Q
      /\ Text("recommendation", "any") \in Q
      /\ "severity" \in C => Text("severity", e.severity) \in Q
  BY <1>1, <1>2, TextIn
<1>4. FailedRow(e) \in Q
  <2>. DEFINE s == <<Text("category", e.category), Text("action", "any"),
                     Text("result", e.result), Text("evidence", "any")>>
  <2>1. s \in Seq(Q)
    BY <1>3, TuplesIn
  <2>. HIDE DEF s
  <2>2. Object(s) \in Q
    BY <2>1, ObjectIn
  <2>. QED BY <2>2 DEF FailedRow, s
<1>5. AdviceRow(e) \in Q
  <2>. DEFINE s == <<Text("category", e.category), Text("recommendation", "any")>>
  <2>1. s \in Seq(Q)
    BY <1>3, TuplesIn
  <2>. HIDE DEF s
  <2>2. Object(s) \in Q
    BY <2>1, ObjectIn
  <2>. QED BY <2>2 DEF AdviceRow, s
<1>6. ASSUME "severity" \in C PROVE EventRow(e) \in Q
  <2>. DEFINE s == <<Text("severity", e.severity), Text("category", e.category),
                     Text("action", "any"), Text("result", e.result), Text("evidence", "any"),
                     Text("recommendation", "any")>>
  <2>1. s \in Seq(Q)
    BY <1>3, <1>6, TuplesIn
  <2>. HIDE DEF s
  <2>2. Object(s) \in Q
    BY <2>1, ObjectIn
  <2>. QED BY <2>2 DEF EventRow, s
<1>. QED BY <1>4, <1>5, <1>6

LEMMA EscapeRowIn ==
  ASSUME NEW Q, NEW C, Class(Q, C), Braced(Q), Common \cup PolicyKeys \subseteq C,
         "escaped_cpus" \in C, NEW S \in CpuLists
  PROVE  EscapeRow(S) \in Q
<1>1. {"pid", "tid", "cpus_allowed_list", "any"} \subseteq C
  <2>1. {"pid", "tid", "cpus_allowed_list", "any"} \subseteq Common
    BY DEF Common, AttestationNames
  <2>. QED BY <2>1
<1>. DEFINE a == Counts(<<"pid", "tid">>)
            b == <<Text("cpus_allowed_list", "any"), Numbers("escaped_cpus", SetToSeq(S))>>
<1>2. a \in Seq(Q)
  <2>1. <<"pid", "tid">> \in Seq(C)
    BY <1>1
  <2>. QED BY <1>1, <2>1, TextsIn
<1>3. b \in Seq(Q)
  <2>1. Text("cpus_allowed_list", "any") \in Q /\ Numbers("escaped_cpus", SetToSeq(S)) \in Q
    BY <1>1, TextIn, CpusIn
  <2>. QED BY <2>1, TuplesIn
<1>. HIDE DEF a, b
<1>4. a \o b \in Seq(Q)
  BY <1>2, <1>3, SeqsOf
<1>5. Object(a \o b) \in Q
  BY <1>4, ObjectIn
<1>. QED BY <1>5 DEF EscapeRow, a, b

(* A list of records, one for each of the items. *)
LEMMA RowsIn ==
  ASSUME NEW Q, NEW C, Class(Q, C), Braced(Q), Common \cup PolicyKeys \subseteq C
  PROVE  /\ \A E \in SUBSET EventType : IsFiniteSet(E) =>
              /\ FailedRows(E) \in Seq(Q) /\ AdviceRows(E) \in Seq(Q)
              /\ "severity" \in C => EventRows(E) \in Seq(Q)
         /\ "escaped_cpus" \in C =>
              \A r : r.escapes \in Seq(CpuLists) => EscapeRows(r) \in Seq(Q)
<1>1. ASSUME NEW E \in SUBSET EventType, IsFiniteSet(E)
      PROVE  /\ FailedRows(E) \in Seq(Q) /\ AdviceRows(E) \in Seq(Q)
             /\ "severity" \in C => EventRows(E) \in Seq(Q)
  <2>. DEFINE z == SetToSeq(E)
              n == Len(z)
  <2>1. n \in Nat /\ DOMAIN z = 1 .. n /\ \A i \in 1 .. n : z[i] \in EventType
    <3>1. z \in Seq(E)
      BY <1>1, SetToSeqListsIt
    <3>. HIDE DEF z
    <3>. QED BY <3>1 DEF n
  <2>. HIDE DEF z, n
  <2>2. FailedRows(E) \in Seq(Q)
    <3>. DEFINE f == [i \in 1 .. n |-> FailedRow(z[i])]
    <3>1. \A i \in 1 .. n : f[i] \in Q
      BY <2>1, EventRowsIn
    <3>2. DOMAIN f = 1 .. n /\ f = [i \in 1 .. n |-> f[i]]
      OBVIOUS
    <3>. HIDE DEF f
    <3>3. f \in Seq(Q)
      BY <2>1, <3>1, <3>2, SeqIs
    <3>. QED BY <2>1, <3>3, Zenon DEF FailedRows, f, z
  <2>3. AdviceRows(E) \in Seq(Q)
    <3>. DEFINE f == [i \in 1 .. n |-> AdviceRow(z[i])]
    <3>1. \A i \in 1 .. n : f[i] \in Q
      BY <2>1, EventRowsIn
    <3>2. DOMAIN f = 1 .. n /\ f = [i \in 1 .. n |-> f[i]]
      OBVIOUS
    <3>. HIDE DEF f
    <3>3. f \in Seq(Q)
      BY <2>1, <3>1, <3>2, SeqIs
    <3>. QED BY <2>1, <3>3, Zenon DEF AdviceRows, f, z
  <2>4. ASSUME "severity" \in C PROVE EventRows(E) \in Seq(Q)
    <3>. DEFINE f == [i \in 1 .. n |-> EventRow(z[i])]
    <3>1. \A i \in 1 .. n : f[i] \in Q
      BY <2>1, <2>4, EventRowsIn
    <3>2. DOMAIN f = 1 .. n /\ f = [i \in 1 .. n |-> f[i]]
      OBVIOUS
    <3>. HIDE DEF f
    <3>3. f \in Seq(Q)
      BY <2>1, <3>1, <3>2, SeqIs
    <3>. QED BY <2>1, <3>3, Zenon DEF EventRows, f, z
  <2>. QED BY <2>2, <2>3, <2>4
<1>2. ASSUME "escaped_cpus" \in C, NEW r, r.escapes \in Seq(CpuLists)
      PROVE  EscapeRows(r) \in Seq(Q)
  <2>. DEFINE z == r.escapes
              n == Len(z)
  <2>1. n \in Nat /\ DOMAIN z = 1 .. n /\ \A i \in 1 .. n : z[i] \in CpuLists
    BY <1>2
  <2>. HIDE DEF z, n
  <2>. DEFINE f == [i \in 1 .. n |-> EscapeRow(z[i])]
  <2>2. \A i \in 1 .. n : f[i] \in Q
    BY <1>2, <2>1, EscapeRowIn
  <2>3. DOMAIN f = 1 .. n /\ f = [i \in 1 .. n |-> f[i]]
    OBVIOUS
  <2>. HIDE DEF f
  <2>4. f \in Seq(Q)
    BY <2>1, <2>2, <2>3, SeqIs
  <2>. QED BY <2>1, <2>4, Zenon DEF EscapeRows, f, z
<1>. QED BY <1>1, <1>2

(* The fields of an attestation are made of the names that they use. *)
LEMMA AttestedIn ==
  ASSUME NEW Q, NEW C, Class(Q, C), Braced(Q), Common \cup PolicyKeys \subseteq C,
         NEW p, IsPolicy(p), NEW r, IsAttested(r)
  PROVE  /\ \A i \in {1, 2, 3, 4, 5, 6, 8, 9, 10, 11, 12, 13, 17, 18} :
              AttestationList(p, r)[i] \in Q
         /\ "assigned_cpus" \in C => AttestationList(p, r)[7] \in Q
         /\ "severity" \in C => AttestationList(p, r)[16] \in Q
         /\ "verdict" \in C => AttestationList(p, r)[19] \in Q
<1>. DEFINE l == AttestationList(p, r)
<1>1. {"schema_version", "generator", "policy_source", "cpu_source", "any", "primary",
       "secondary", "events", "failed_actions", "strengthened_recommendations"} \subseteq C
  <2>1. {"schema_version", "generator", "policy_source", "cpu_source", "any", "primary",
         "secondary", "events", "failed_actions", "strengthened_recommendations"}
          \subseteq AttestationNames
    BY DEF AttestationNames
  <2>. QED BY <2>1 DEF Common
<1>2. r.source \in C /\ r.assigned \in CpuLists /\ r.events \subseteq EventType
      /\ IsFiniteSet(r.events) /\ Verdict(r) \in C
  BY <1>1, VerdictsAre DEF IsAttested
<1>3. Text("schema_version", "any") \in Q /\ Text("generator", "any") \in Q
      /\ Text("policy_source", "any") \in Q /\ Text("cpu_source", r.source) \in Q
  BY <1>1, <1>2, TextIn
<1>4. FieldsIn(Q, C, p)
  <2>1. PolicyValues \subseteq C
    BY DEF Common
  <2>. QED BY <2>1, PolicyFieldsIn
<1>5. PolicyKeys \subseteq C
  OBVIOUS
<1>6. /\ Text("profile", p.profile) \in Q /\ Text("cpu_policy", p.cpu_policy) \in Q
      /\ Numbers("avoid_cpus", SetToSeq(p.avoid)) \in Q
      /\ Numbers("contaminated_cpus", SetToSeq(p.contaminated)) \in Q
      /\ Text("smt_policy", p.smt_policy) \in Q
      /\ Text("lower_throughput_policy", p.lower_throughput_policy) \in Q
      /\ Flag("requires_longer_validation", p.requires_longer_validation) \in Q
      /\ Strings("warnings", SetToSeq(p.warnings)) \in Q
  <2>1. /\ PolicyFields(p)[2] \in Q /\ PolicyFields(p)[3] \in Q /\ PolicyFields(p)[6] \in Q
        /\ PolicyFields(p)[7] \in Q /\ PolicyFields(p)[8] \in Q /\ PolicyFields(p)[9] \in Q
        /\ PolicyFields(p)[10] \in Q /\ PolicyFields(p)[11] \in Q
    BY <1>4, <1>5 DEF FieldsIn, PolicyKeys
  <2>2. /\ PolicyFields(p)[2] = Text("profile", p.profile)
        /\ PolicyFields(p)[3] = Text("cpu_policy", p.cpu_policy)
        /\ PolicyFields(p)[6] = Numbers("avoid_cpus", SetToSeq(p.avoid))
        /\ PolicyFields(p)[7] = Numbers("contaminated_cpus", SetToSeq(p.contaminated))
        /\ PolicyFields(p)[8] = Text("smt_policy", p.smt_policy)
        /\ PolicyFields(p)[9] = Text("lower_throughput_policy", p.lower_throughput_policy)
        /\ PolicyFields(p)[10] =
             Flag("requires_longer_validation", p.requires_longer_validation)
        /\ PolicyFields(p)[11] = Strings("warnings", SetToSeq(p.warnings))
    BY DEF PolicyFields
  <2>. QED BY <2>1, <2>2
<1>7. "assigned_cpus" \in C => Numbers("assigned_cpus", SetToSeq(r.assigned)) \in Q
  BY <1>2, CpusIn
<1>8. IsFiniteSet(Errors(r)) /\ Errors(r) \subseteq EventType
  BY <1>2, FS_Subset DEF Errors
<1>9. /\ Field("failed_actions", Array(FailedRows(Errors(r)))) \in Q
      /\ Field("strengthened_recommendations", Array(AdviceRows(r.events))) \in Q
      /\ "severity" \in C => Field("events", Array(EventRows(r.events))) \in Q
  <2>1. /\ FailedRows(Errors(r)) \in Seq(Q) /\ AdviceRows(r.events) \in Seq(Q)
        /\ "severity" \in C => EventRows(r.events) \in Seq(Q)
    BY <1>2, <1>8, RowsIn
  <2>2. \A s \in Seq(Q) : Array(s) \in Q /\ Array(s) # <<>>
    BY ArrayIn
  <2>3. \A k \in C, v \in Q : v # <<>> => Field(k, v) \in Q
    BY FieldIn
  <2>. QED BY <1>1, <2>1, <2>2, <2>3
<1>10. "verdict" \in C => Text("verdict", Verdict(r)) \in Q
  BY <1>2, TextIn
<1>11. /\ l[1] = Text("schema_version", "any") /\ l[2] = Text("generator", "any")
       /\ l[3] = Text("policy_source", "any") /\ l[4] = Text("profile", p.profile)
       /\ l[5] = Text("cpu_policy", p.cpu_policy) /\ l[6] = Text("cpu_source", r.source)
       /\ l[7] = Numbers("assigned_cpus", SetToSeq(r.assigned))
       /\ l[8] = Numbers("avoid_cpus", SetToSeq(p.avoid))
       /\ l[9] = Numbers("contaminated_cpus", SetToSeq(p.contaminated))
       /\ l[10] = Text("smt_policy", p.smt_policy)
       /\ l[11] = Text("lower_throughput_policy", p.lower_throughput_policy)
       /\ l[12] = Flag("requires_longer_validation", p.requires_longer_validation)
       /\ l[13] = Strings("warnings", SetToSeq(p.warnings))
       /\ l[16] = Field("events", Array(EventRows(r.events)))
       /\ l[17] = Field("failed_actions", Array(FailedRows(Errors(r))))
       /\ l[18] = Field("strengthened_recommendations", Array(AdviceRows(r.events)))
       /\ l[19] = Text("verdict", Verdict(r))
  BY DEF AttestationList
<1>. HIDE DEF l
<1>12. \A i \in {1, 2, 3, 4, 5, 6, 8, 9, 10, 11, 12, 13, 17, 18} : l[i] \in Q
  BY <1>3, <1>6, <1>9, <1>11
<1>. QED BY <1>7, <1>9, <1>10, <1>11, <1>12 DEF l

LEMMA WorkloadIn ==
  ASSUME NEW Q, NEW C, Class(Q, C), Braced(Q), Common \cup PolicyKeys \subseteq C,
         NEW r, IsAttested(r), Array(r.command) \in Q
  PROVE  /\ \A i \in 1 .. 5 : WorkloadFields(r)[i] \in Q
         /\ "exit_code" \in C =>
              /\ WorkloadFields(r) \in Seq(Q)
              /\ Field("workload", Object(WorkloadFields(r))) \in Q
<1>1. {"argv", "started", "dry_run", "affinity_applied", "status", "workload", "exited",
       "signaled", "unknown"} \subseteq C
  <2>1. {"argv", "started", "dry_run", "affinity_applied", "status", "workload", "exited",
         "signaled", "unknown"} \subseteq AttestationNames
    BY DEF AttestationNames
  <2>. QED BY <2>1 DEF Common
<1>2. /\ r.dry_run \in BOOLEAN /\ r.applied \in BOOLEAN
      /\ r.status.how \in C /\ r.exit_code \in Nat
  <2>1. r.dry_run \in BOOLEAN /\ r.applied \in BOOLEAN /\ r.exit_code \in Nat
    BY DEF IsAttested
  <2>2. r.status.how \in {"exited", "signaled", "unknown"}
    BY DEF IsAttested
  <2>3. r.status.how \in C
    BY <1>1, <2>2
  <2>. QED BY <2>1, <2>3
<1>3. Argv(r) \in Q
  <2>1. Array(r.command) # <<>>
    <3>1. r.command \in Seq(Words)
      BY DEF IsAttested
    <3>2. Array(r.command) \in Seq(Token)
      BY DEF Class
    <3>3. ASSUME Array(r.command) = <<>> PROVE FALSE
      <4>. DEFINE l == Listed(r.command)
      <4>1. (<<OpenBracket>> \o l) \o <<CloseBracket>> = <<>>
        BY <3>3 DEF Array
      <4>. HIDE DEF l
      <4>. QED BY <4>1
    <3>. QED BY <3>3
  <2>. QED BY <1>1, <2>1, FieldIn DEF Argv
<1>7. Flag("started", ~r.dry_run) \in Q
  <2>1. CASE r.dry_run
    <3>1. Flag("started", ~r.dry_run) = Flag("started", FALSE)
      BY <2>1 DEF Flag, Word
    <3>2. Flag("started", FALSE) \in Q
      BY <1>1, TextIn
    <3>. QED BY <3>1, <3>2, Zenon
  <2>2. CASE ~r.dry_run
    <3>1. Flag("started", ~r.dry_run) = Flag("started", TRUE)
      BY <2>2 DEF Flag, Word
    <3>2. Flag("started", TRUE) \in Q
      BY <1>1, TextIn
    <3>. QED BY <3>1, <3>2, Zenon
  <2>. QED BY <2>1, <2>2
<1>4. /\ Flag("started", ~r.dry_run) \in Q /\ Flag("dry_run", r.dry_run) \in Q
      /\ Flag("affinity_applied", r.applied) \in Q /\ Text("status", r.status.how) \in Q
      /\ "exit_code" \in C => Count("exit_code", r.exit_code) \in Q
  <2>1. /\ Flag("dry_run", r.dry_run) \in Q
        /\ Flag("affinity_applied", r.applied) \in Q /\ Text("status", r.status.how) \in Q
        /\ "exit_code" \in C => Count("exit_code", r.exit_code) \in Q
    BY <1>1, <1>2, TextIn
  <2>. QED BY <1>7, <2>1
<1>5. \A i \in 1 .. 5 : WorkloadFields(r)[i] \in Q
  BY <1>3, <1>4 DEF WorkloadFields
<1>6. ASSUME "exit_code" \in C
      PROVE  WorkloadFields(r) \in Seq(Q) /\ Field("workload", Object(WorkloadFields(r))) \in Q
  <2>1. WorkloadFields(r) \in Seq(Q)
    BY <1>3, <1>4, <1>6, TuplesIn DEF WorkloadFields
  <2>2. Object(WorkloadFields(r)) \in Q /\ Object(WorkloadFields(r)) # <<>>
    BY <2>1, ObjectIn
  <2>. QED BY <1>1, <2>1, <2>2, FieldIn
<1>. QED BY <1>5, <1>6

ObservationFields(r) == BeforeEscapes \o <<Field("affinity_escapes", Array(EscapeRows(r)))>>

LEMMA ObservationIn ==
  ASSUME NEW Q, NEW C, Class(Q, C), Braced(Q), Common \cup PolicyKeys \subseteq C,
         NEW r, IsAttested(r)
  PROVE  /\ BeforeEscapes \in Seq(Q) /\ "observation" \in C /\ "affinity_escapes" \in C
         /\ "escaped_cpus" \in C =>
              /\ EscapeRows(r) \in Seq(Q)
              /\ Field("observation", Object(ObservationFields(r))) \in Q
<1>1. {"mode", "samples", "observed_process_samples", "observed_thread_samples",
       "affinity_escapes", "observation", "any"} \subseteq C
  <2>1. {"mode", "samples", "observed_process_samples", "observed_thread_samples",
         "affinity_escapes", "observation", "any"} \subseteq AttestationNames
    BY DEF AttestationNames
  <2>. QED BY <2>1 DEF Common
<1>2. BeforeEscapes \in Seq(Q)
  <2>. DEFINE a == <<Text("mode", "any")>>
              b == Counts(<<"samples", "observed_process_samples", "observed_thread_samples">>)
  <2>1. a \in Seq(Q)
    BY <1>1, TextIn, TuplesIn
  <2>2. b \in Seq(Q)
    <3>1. <<"samples", "observed_process_samples", "observed_thread_samples">> \in Seq(C)
      BY <1>1
    <3>. QED BY <1>1, <3>1, TextsIn
  <2>. HIDE DEF a, b
  <2>3. a \o b \in Seq(Q)
    BY <2>1, <2>2, SeqsOf
  <2>. QED BY <2>3 DEF BeforeEscapes, a, b
<1>3. ASSUME "escaped_cpus" \in C
      PROVE  EscapeRows(r) \in Seq(Q) /\ Field("observation", Object(ObservationFields(r))) \in Q
  <2>1. EscapeRows(r) \in Seq(Q)
    BY <1>3, RowsIn DEF IsAttested
  <2>2. Array(EscapeRows(r)) \in Q /\ Array(EscapeRows(r)) # <<>>
    BY <2>1, ArrayIn
  <2>. DEFINE f == Field("affinity_escapes", Array(EscapeRows(r)))
  <2>3. f \in Q
    BY <1>1, <2>2, FieldIn
  <2>. HIDE DEF f
  <2>4. <<f>> \in Seq(Q)
    BY <2>3, TuplesIn
  <2>5. BeforeEscapes \o <<f>> \in Seq(Q)
    BY <1>2, <2>4, SeqsOf
  <2>6. ObservationFields(r) \in Seq(Q)
    BY <2>5 DEF ObservationFields, f
  <2>7. Object(ObservationFields(r)) \in Q /\ Object(ObservationFields(r)) # <<>>
    BY <2>6, ObjectIn
  <2>. QED BY <1>1, <2>1, <2>7, FieldIn
<1>. QED BY <1>1, <1>2, <1>3

(* The words of a command line. *)
LEMMA WordsAre ==
  ASSUME NEW w \in Words
  PROVE  /\ w \in Seq(Token)
         /\ \/ w[1].text \in Phrase /\ w = Plain(w[1].text)
            \/ w = WithColon(Broken)
            \/ \E n \in Nat : w = WithColon(Number(n))
            \/ w = EndsInColon
<1>1. IsWord(w)
  BY DocumentsAssumption
<1>2. "any" \in Phrase /\ w[1].text \in Phrase
  BY DEF Phrase, Common, AttestationNames
<1>3. CASE Len(w) = 1 /\ w = Plain(w[1].text)
  <2>. DEFINE s == w[1].text
  <2>1. s \in Phrase /\ w = Plain(s)
    BY <1>2, <1>3
  <2>. HIDE DEF s
  <2>2. String(s) \in Token
    BY <2>1, TokenTypes
  <2>3. w \in Seq(Token)
    BY <2>1, <2>2 DEF Plain
  <2>. QED BY <2>1, <2>3 DEF s
<1>4. CASE Len(w) = 4 /\ w[3].n \in Nat /\ w \in {WithColon(Broken), WithColon(Number(w[3].n))}
  <2>1. w = WithColon(Broken) \/ \E n \in Nat : w = WithColon(Number(n))
    BY <1>4
  <2>2. Broken \in Token /\ Colon \in Token /\ \A n \in Nat : Number(n) \in Token
    BY TokenTypes
  <2>3. ASSUME NEW t \in Token PROVE WithColon(t) \in Seq(Token)
    BY <2>2 DEF WithColon
  <2>4. w \in Seq(Token)
    BY <2>1, <2>2, <2>3
  <2>. QED BY <2>1, <2>4
<1>5. CASE w = EndsInColon
  <2>1. Broken \in Token /\ Colon \in Token /\ String("any") \in Token
    BY <1>2, TokenTypes
  <2>. QED BY <1>5, <2>1 DEF EndsInColon
<1>. QED BY <1>1, <1>3, <1>4, <1>5 DEF IsWord

(* A word that is not the key holds no such string, but the reader's       *)
(* misreading of a colon at the end.                                       *)
LEMMA WordWithout ==
  ASSUME NEW w \in Words, NEW key, key # "any", w # Plain(key)
  PROVE  w \in Without(key)
<1>1. w \in Seq(Token)
  BY WordsAre
<1>2. \A s : String(s) = String(key) => s = key
  BY DEF String
<1>3. \A n : Number(n) # String(key)
  BY DEF Number, String
<1>4. Broken # String(key) /\ Colon # String(key)
  BY DEF Broken, String, Colon, Mark
<1>5. CASE w = Plain(w[1].text)
  <2>. DEFINE s == w[1].text
  <2>1. w = Plain(s) /\ s # key
    BY <1>5
  <2>. HIDE DEF s
  <2>2. w = <<String(s)>> /\ String(s) # String(key)
    BY <1>2, <2>1 DEF Plain
  <2>3. String(s) \in Token
    BY <1>1, <2>2
  <2>4. String(s) \in Others(key)
    BY <2>2, <2>3 DEF Others
  <2>. QED BY <2>2, <2>4, TuplesIn DEF Without
<1>6. ASSUME NEW t \in Token, w = WithColon(t), t # String(key) PROVE w \in Without(key)
  <2>1. {Broken, Colon, t} \subseteq Others(key)
    BY <1>4, <1>6, TokenTypes DEF Others
  <2>2. <<Broken, Colon, t, Broken>> \in Seq(Others(key))
    BY <2>1, TuplesIn
  <2>. QED BY <1>6, <2>2 DEF WithColon, Without
<1>7. CASE w = EndsInColon
  <2>1. String("any") # String(key)
    BY <1>2
  <2>2. "any" \in Phrase
    BY DEF Phrase, Common, AttestationNames
  <2>3. {Broken, Colon, String("any")} \subseteq Others(key)
    BY <1>4, <2>1, <2>2, TokenTypes DEF Others
  <2>4. <<Broken, Colon, String("any")>> \in Seq(Others(key))
    BY <2>3, TuplesIn
  <2>. QED BY <1>7, <2>4 DEF EndsInColon, Without
<1>8. CASE w = WithColon(Broken)
  BY <1>4, <1>6, <1>8, TokenTypes
<1>9. ASSUME NEW n \in Nat, w = WithColon(Number(n)) PROVE w \in Without(key)
  BY <1>3, <1>6, <1>9, TokenTypes
<1>. QED BY <1>5, <1>7, <1>8, <1>9, WordsAre

(* Texts that name no severity: no colon follows that string, or is at the *)
(* beginning or the end.                                                   *)
Unrated ==
  {t \in Seq(Token) :
     /\ \A i \in 1 .. Len(t) : t[i] = Colon => i > 1 /\ t[i - 1] # String("severity")
     /\ t # <<>> => t[Len(t)] # Colon}

LEMMA UnratedIsClass == Class(Unrated, Phrase \ {"severity"}) /\ Braced(Unrated)
<1>1. \A t \in Token : t # Colon => <<t>> \in Unrated
  <2>. SUFFICES ASSUME NEW t \in Token, t # Colon PROVE <<t>> \in Unrated
    OBVIOUS
  <2>1. <<t>> \in Seq(Token) /\ Len(<<t>>) = 1 /\ <<t>>[1] = t
    OBVIOUS
  <2>2. \A i \in 1 .. 1 : <<t>>[i] # Colon
    BY <2>1
  <2>. QED BY <2>1, <2>2 DEF Unrated
<1>2. {Comma, OpenBracket, CloseBracket, Broken, OpenBrace, CloseBrace} \subseteq Token \ {Colon}
  <2>1. /\ Comma # Colon /\ OpenBracket # Colon /\ CloseBracket # Colon /\ OpenBrace # Colon
        /\ CloseBrace # Colon /\ Broken # Colon
    BY DEF Mark, Comma, Colon, OpenBrace, CloseBrace, OpenBracket, CloseBracket, Broken
  <2>. QED BY <2>1, TokenTypes
<1>3. /\ \A s \in Phrase : String(s) \in Token \ {Colon}
      /\ \A n \in Nat : Number(n) \in Token \ {Colon}
      /\ \A b \in BOOLEAN : Word(b) \in Token \ {Colon}
  <2>1. /\ \A s \in Phrase : String(s) # Colon
        /\ \A n \in Nat : Number(n) # Colon
        /\ \A b \in BOOLEAN : Word(b) # Colon
    BY DEF Mark, Colon, String, Number, Word
  <2>. QED BY <2>1, TokenTypes
<1>4. \A a, b \in Unrated : a \o b \in Unrated
  <2>. SUFFICES ASSUME NEW a \in Unrated, NEW b \in Unrated PROVE a \o b \in Unrated
    OBVIOUS
  <2>1. /\ a \in Seq(Token) /\ b \in Seq(Token)
        /\ \A i \in 1 .. Len(a) : a[i] = Colon => i > 1 /\ a[i - 1] # String("severity")
        /\ \A i \in 1 .. Len(b) : b[i] = Colon => i > 1 /\ b[i - 1] # String("severity")
        /\ a # <<>> => a[Len(a)] # Colon
        /\ b # <<>> => b[Len(b)] # Colon
    BY DEF Unrated
  <2>. DEFINE c == a \o b
  <2>2. /\ c \in Seq(Token) /\ Len(c) = Len(a) + Len(b)
        /\ \A i \in 1 .. Len(a) : c[i] = a[i]
        /\ \A i \in 1 .. Len(b) : c[Len(a) + i] = b[i]
    BY <2>1, Positions
  <2>3. Len(a) \in Nat /\ Len(b) \in Nat
    BY <2>1
  <2>. HIDE DEF c
  <2>4. ASSUME NEW i \in 1 .. Len(c), c[i] = Colon
        PROVE  i > 1 /\ c[i - 1] # String("severity")
    <3>1. CASE i <= Len(a)
      <4>1. i \in 1 .. Len(a) /\ a[i] = Colon
        BY <2>2, <2>3, <2>4, <3>1
      <4>2. i > 1 /\ a[i - 1] # String("severity")
        BY <2>1, <4>1
      <4>3. i - 1 \in 1 .. Len(a)
        BY <2>3, <4>1, <4>2
      <4>. QED BY <2>2, <4>2, <4>3
    <3>2. CASE i > Len(a)
      <4>. DEFINE j == i - Len(a)
      <4>1. j \in 1 .. Len(b) /\ i = Len(a) + j
        BY <2>2, <2>3, <3>2
      <4>. HIDE DEF j
      <4>2. b[j] = Colon
        BY <2>2, <2>4, <4>1
      <4>3. j > 1 /\ b[j - 1] # String("severity")
        BY <2>1, <4>1, <4>2
      <4>4. j - 1 \in 1 .. Len(b) /\ i - 1 = Len(a) + (j - 1) /\ i > 1
        BY <2>3, <4>1, <4>3
      <4>. QED BY <2>2, <4>3, <4>4
    <3>. QED BY <2>2, <2>3, <3>1, <3>2
  <2>5. ASSUME c # <<>> PROVE c[Len(c)] # Colon
    <3>1. CASE b = <<>>
      <4>1. Len(b) = 0 /\ Len(c) = Len(a)
        BY <2>2, <2>3, <3>1
      <4>2. a # <<>> /\ Len(a) \in 1 .. Len(a)
        BY <2>1, <2>2, <2>3, <2>5, <4>1
      <4>. QED BY <2>1, <2>2, <4>1, <4>2
    <3>2. CASE b # <<>>
      <4>1. Len(b) \in 1 .. Len(b)
        BY <2>1, <2>3, <3>2
      <4>. QED BY <2>1, <2>2, <3>2, <4>1
    <3>. QED BY <3>1, <3>2
  <2>. QED BY <2>2, <2>4, <2>5 DEF Unrated, c
<1>5. ASSUME NEW s \in Phrase \ {"severity"}, NEW v \in Unrated, v # <<>>
      PROVE  <<String(s), Colon>> \o v \in Unrated
  <2>. DEFINE t == <<String(s), Colon>>
              c == t \o v
  <2>1. t \in Seq(Token) /\ Len(t) = 2 /\ t[1] = String(s) /\ t[2] = Colon
    BY TokenTypes
  <2>2. String(s) # Colon /\ String(s) # String("severity")
    BY <1>3 DEF String
  <2>3. /\ v \in Seq(Token) /\ v[Len(v)] # Colon /\ Len(v) \in Nat /\ Len(v) # 0
        /\ \A i \in 1 .. Len(v) : v[i] = Colon => i > 1 /\ v[i - 1] # String("severity")
    BY <1>5 DEF Unrated
  <2>. HIDE DEF t
  <2>4. /\ c \in Seq(Token) /\ Len(c) = Len(t) + Len(v)
        /\ \A i \in 1 .. Len(t) : c[i] = t[i]
        /\ \A i \in 1 .. Len(v) : c[Len(t) + i] = v[i]
    <3>1. t \in Seq(Token)
      BY <2>1
    <3>2. v \in Seq(Token)
      BY <2>3
    <3>. QED BY <3>1, <3>2, Positions
  <2>. HIDE DEF c
  <2>5. /\ Len(c) = 2 + Len(v) /\ c[1] = String(s) /\ c[2] = Colon
        /\ \A i \in 1 .. Len(v) : c[2 + i] = v[i]
    BY <2>1, <2>4
  <2>6. ASSUME NEW i \in 1 .. Len(c), c[i] = Colon
        PROVE  i > 1 /\ c[i - 1] # String("severity")
    <3>1. CASE i \in {1, 2}
      BY <2>2, <2>5, <2>6, <3>1
    <3>2. CASE i > 2
      <4>. DEFINE k == i - 2
      <4>1. k \in 1 .. Len(v) /\ i = 2 + k
        BY <2>3, <2>5, <3>2
      <4>. HIDE DEF k
      <4>2. v[k] = Colon
        BY <2>5, <2>6, <4>1
      <4>3. k > 1 /\ v[k - 1] # String("severity")
        BY <2>3, <4>1, <4>2
      <4>4. k - 1 \in 1 .. Len(v) /\ i - 1 = 2 + (k - 1)
        BY <2>3, <4>1, <4>3
      <4>. QED BY <2>5, <3>2, <4>3, <4>4
    <3>. QED BY <2>3, <2>5, <3>1, <3>2
  <2>7. c[Len(c)] # Colon
    <3>1. Len(v) \in 1 .. Len(v)
      BY <2>3
    <3>. QED BY <2>3, <2>5, <3>1
  <2>. QED BY <2>4, <2>6, <2>7 DEF Unrated, c, t
<1>6. <<>> \in Unrated
  BY DEF Unrated
<1>7. Unrated \in SUBSET Seq(Token)
  BY DEF Unrated
<1>8. Class(Unrated, Phrase \ {"severity"})
  BY <1>1, <1>2, <1>3, <1>4, <1>5, <1>6, <1>7 DEF Class
<1>. QED BY <1>1, <1>2, <1>8 DEF Braced

LEMMA WordUnrated ==
  ASSUME NEW w \in Words
  PROVE  w \in Unrated
<1>1. /\ Broken # Colon /\ String("any") # Colon /\ Broken # String("severity")
      /\ \A n : Number(n) # Colon
  BY DEF Broken, Colon, Mark, String, Number
<1>. DEFINE Stops == w[Len(w)] # Colon
            At(i) == w[i] = Colon => i > 1 /\ w[i - 1] # String("severity")
<1>2. ASSUME w = Plain(w[1].text) PROVE Stops /\ \A i \in 1 .. Len(w) : At(i)
  <2>. DEFINE s == w[1].text
  <2>1. w = <<String(s)>>
    BY <1>2 DEF Plain
  <2>. HIDE DEF s
  <2>2. Len(w) = 1 /\ w[1] = String(s)
    BY <2>1
  <2>3. String(s) # Colon
    BY DEF String, Colon, Mark
  <2>. QED BY <2>2, <2>3
<1>3. ASSUME NEW t, t # Colon, w = WithColon(t) PROVE Stops /\ \A i \in 1 .. Len(w) : At(i)
  <2>1. /\ w = <<Broken, Colon, t, Broken>>
    BY <1>3 DEF WithColon
  <2>2. /\ Len(w) = 4 /\ w[1] = Broken /\ w[2] = Colon /\ w[3] = t /\ w[4] = Broken
    BY <2>1
  <2>3. ASSUME NEW i \in 1 .. Len(w), w[i] = Colon
        PROVE  i > 1 /\ w[i - 1] # String("severity")
    <3>1. i = 2
      BY <1>1, <1>3, <2>2, <2>3
    <3>. QED BY <1>1, <2>2, <3>1
  <2>. QED BY <1>1, <2>2, <2>3
<1>4. ASSUME w = EndsInColon PROVE Stops /\ \A i \in 1 .. Len(w) : At(i)
  <2>1. w = <<Broken, Colon, String("any")>>
    BY <1>4 DEF EndsInColon
  <2>2. /\ Len(w) = 3 /\ w[1] = Broken /\ w[2] = Colon /\ w[3] = String("any")
    BY <2>1
  <2>3. ASSUME NEW i \in 1 .. Len(w), w[i] = Colon
        PROVE  i > 1 /\ w[i - 1] # String("severity")
    <3>1. i = 2
      BY <1>1, <2>2, <2>3
    <3>. QED BY <1>1, <2>2, <3>1
  <2>. QED BY <1>1, <2>2, <2>3
<1>5. Stops /\ \A i \in 1 .. Len(w) : At(i)
  <2>. HIDE DEF Stops, At
  <2>. QED BY <1>1, <1>2, <1>3, <1>4, WordsAre
<1>6. w \in Seq(Token)
  BY WordsAre
<1>. QED BY <1>5, <1>6 DEF Unrated

LEMMA CommandIn ==
  ASSUME NEW s \in Seq(Words)
  PROVE  /\ s \in Seq(Seq(Token)) /\ Array(s) \in Seq(Token) /\ Array(s) \in Unrated
         /\ \A key \in Phrase :
              key # "any" /\ (\A i \in DOMAIN s : s[i] # Plain(key)) =>
                Array(s) \in Without(key)
<1>1. DOMAIN s = 1 .. Len(s) /\ Len(s) \in Nat /\ \A i \in 1 .. Len(s) : s[i] \in Words
  OBVIOUS
<1>2. s \in Seq(Seq(Token))
  <2>1. \A w \in Words : w \in Seq(Token)
    BY WordsAre
  <2>2. Words \subseteq Seq(Token)
    BY <2>1
  <2>. QED BY <2>2, SeqMonotonic
<1>3. s \in Seq(Unrated)
  <2>1. Words \subseteq Unrated
    BY WordUnrated
  <2>. QED BY <2>1, SeqMonotonic
<1>4. Array(s) \in Seq(Token)
  BY <1>2, AllIsClass, ArrayIn
<1>5. Array(s) \in Unrated
  BY <1>3, UnratedIsClass, ArrayIn
<1>6. ASSUME NEW key \in Phrase, key # "any", \A i \in DOMAIN s : s[i] # Plain(key)
      PROVE  Array(s) \in Without(key)
  <2>1. \A i \in 1 .. Len(s) : s[i] \in Without(key)
    BY <1>1, <1>6, WordWithout
  <2>2. s \in Seq(Without(key))
    <3>1. s = [i \in 1 .. Len(s) |-> s[i]]
      BY <1>1
    <3>. DEFINE W == Without(key)
    <3>2. \A i \in 1 .. Len(s) : s[i] \in W
      BY <2>1
    <3>. HIDE DEF W
    <3>3. s \in Seq(W)
      BY <1>1, <3>1, <3>2, SeqIs
    <3>. QED BY <3>3 DEF W
  <2>. QED BY <2>2, WithoutIsClass, ArrayIn
<1>. QED BY <1>2, <1>4, <1>5, <1>6

(* All the fields of an attestation are texts. *)
LEMMA AttestationTokens ==
  ASSUME NEW p, IsPolicy(p), NEW r, IsAttested(r)
  PROVE  /\ AttestationList(p, r) \in Seq(Seq(Token)) /\ Len(AttestationList(p, r)) = 19
         /\ WorkloadFields(r) \in Seq(Seq(Token)) /\ Len(WorkloadFields(r)) = 6
         /\ ObservationFields(r) \in Seq(Seq(Token)) /\ EscapeRows(r) \in Seq(Seq(Token))
         /\ AttestationDocument(p, r) \in Seq(Token)
<1>. DEFINE Q == Seq(Token)
            l == AttestationList(p, r)
<1>1. /\ Class(Q, Phrase) /\ Braced(Q) /\ Common \cup PolicyKeys \subseteq Phrase
      /\ {"assigned_cpus", "severity", "verdict", "exit_code", "escaped_cpus",
          "vis_run_attestation"} \subseteq Phrase
  <2>1. {"assigned_cpus", "severity", "verdict", "exit_code", "escaped_cpus"} \subseteq SearchedKeys
    BY DEF SearchedKeys
  <2>2. "vis_run_attestation" \in AttestationNames
    BY DEF AttestationNames
  <2>. QED BY <2>1, <2>2, AllIsClass DEF Phrase, Common
<1>2. Array(r.command) \in Q
  BY CommandIn DEF IsAttested
<1>. HIDE DEF Q
<1>3. \A i \in 1 .. 19 : i \notin {14, 15} => l[i] \in Q
  <2>1. /\ \A i \in {1, 2, 3, 4, 5, 6, 8, 9, 10, 11, 12, 13, 17, 18} :
             AttestationList(p, r)[i] \in Q
        /\ AttestationList(p, r)[7] \in Q
        /\ AttestationList(p, r)[16] \in Q
        /\ AttestationList(p, r)[19] \in Q
    BY <1>1, AttestedIn
  <2>. HIDE DEF l
  <2>2. \A i \in 1 .. 19 : i \notin {14, 15} =>
          i \in {1, 2, 3, 4, 5, 6, 8, 9, 10, 11, 12, 13, 17, 18} \cup {7, 16, 19}
    OBVIOUS
  <2>. QED BY <2>1, <2>2 DEF l
<1>4. WorkloadFields(r) \in Seq(Q) /\ Field("workload", Object(WorkloadFields(r))) \in Q
  BY <1>1, <1>2, WorkloadIn
<1>5. EscapeRows(r) \in Seq(Q) /\ Field("observation", Object(ObservationFields(r))) \in Q
  BY <1>1, ObservationIn
<1>6. /\ l[14] = Field("workload", Object(WorkloadFields(r)))
      /\ l[15] = Field("observation", Object(ObservationFields(r)))
      /\ DOMAIN l = 1 .. 19 /\ l = [i \in 1 .. 19 |-> l[i]]
  BY DEF AttestationList, ObservationFields
<1>. HIDE DEF l
<1>7. l \in Seq(Q) /\ Len(l) = 19
  <2>1. \A i \in 1 .. 19 : l[i] \in Q
    BY <1>3, <1>4, <1>5, <1>6
  <2>. QED BY <1>6, <2>1, SeqIs
<1>8. Len(WorkloadFields(r)) = 6
  BY DEF WorkloadFields
<1>9. ObservationFields(r) \in Seq(Q)
  <2>1. BeforeEscapes \in Seq(Q) /\ "affinity_escapes" \in Phrase
    BY <1>1, ObservationIn
  <2>2. Array(EscapeRows(r)) \in Q /\ Array(EscapeRows(r)) # <<>>
    BY <1>1, <1>5, ArrayIn
  <2>. DEFINE f == Field("affinity_escapes", Array(EscapeRows(r)))
  <2>3. f \in Q
    BY <1>1, <2>1, <2>2, FieldIn
  <2>. HIDE DEF f
  <2>4. <<f>> \in Seq(Q)
    BY <2>3, TuplesIn
  <2>5. BeforeEscapes \o <<f>> \in Seq(Q)
    BY <2>1, <2>4, SeqsOf
  <2>. QED BY <2>5 DEF ObservationFields, f
<1>10. AttestationDocument(p, r) \in Q
  <2>1. Object(l) \in Q /\ Object(l) # <<>>
    BY <1>1, <1>7, ObjectIn
  <2>. DEFINE g == Field("vis_run_attestation", Object(l))
  <2>2. g \in Q
    BY <1>1, <2>1, FieldIn
  <2>. HIDE DEF g
  <2>3. <<g>> \in Seq(Q)
    BY <2>2, TuplesIn
  <2>4. Object(<<g>>) \in Q
    BY <1>1, <2>3, ObjectIn
  <2>. QED BY <2>4, AttestationIs, Zenon DEF g, l
<1>. QED BY <1>4, <1>5, <1>7, <1>8, <1>9, <1>10 DEF Q, l

(* The text around a member of a list, and around a field of an attestation. *)
LEMMA MemberAround ==
  ASSUME NEW Q, NEW R, NEW C, NEW D, Class(Q, C), Class(R, D),
         NEW list \in Seq(Seq(Token)), NEW j \in 1 .. Len(list),
         \A i \in 1 .. j - 1 : list[i] \in Q, \A i \in j + 1 .. Len(list) : list[i] \in R
  PROVE  Around(Listed(list), list[j], Q, R) /\ list[j] \in Seq(Token)
<1>1. PICK s \in Seq(Q), t \in Seq(R) : Split(list, s, <<list[j]>>, t)
  BY SplitAt
<1>. DEFINE x == list[j]
<1>2. x \in Seq(Token)
  OBVIOUS
<1>3. list = (s \o <<x>>) \o t
  BY <1>1, Zenon DEF Split
<1>. HIDE DEF x
<1>4. Around(Listed((s \o <<x>>) \o t), x, Q, R)
  BY <1>2, AroundPart
<1>5. Around(Listed(list), x, Q, R)
  BY <1>3, <1>4, Zenon
<1>. QED BY <1>2, <1>5 DEF x

LEMMA AttestationAround ==
  ASSUME NEW Q, NEW R, NEW C, NEW D, Class(Q, C), Class(R, D), Braced(Q), Braced(R),
         "vis_run_attestation" \in C,
         NEW p, IsPolicy(p), NEW r, IsAttested(r), NEW j \in 1 .. 19,
         \A i \in 1 .. j - 1 : AttestationList(p, r)[i] \in Q,
         \A i \in j + 1 .. 19 : AttestationList(p, r)[i] \in R
  PROVE  Around(AttestationDocument(p, r), AttestationList(p, r)[j], Q, R)
<1>. DEFINE list == AttestationList(p, r)
            x == list[j]
            g == Field("vis_run_attestation", Object(list))
<1>1. list \in Seq(Seq(Token)) /\ Len(list) = 19
  BY AttestationTokens
<1>2. Around(Listed(list), x, Q, R) /\ x \in Seq(Token)
  <2>. HIDE DEF list
  <2>1. j \in 1 .. Len(list) /\ \A i \in 1 .. j - 1 : list[i] \in Q
    BY <1>1 DEF list
  <2>2. \A i \in j + 1 .. Len(list) : list[i] \in R
    BY <1>1 DEF list
  <2>. QED BY <1>1, <2>1, <2>2, MemberAround
<1>3. Object(list) \in Seq(Token) /\ Object(list) # <<>>
  BY <1>1, AllIsClass, ObjectIn
<1>. HIDE DEF list, x
<1>4. Around(g, x, Q, R)
  BY <1>2, AroundObject
<1>5. g \in Seq(Token)
  <2>1. "vis_run_attestation" \in Phrase
    BY DEF Class
  <2>. QED BY <1>3, <2>1, AllIsClass, FieldIn
<1>. HIDE DEF g
<1>6. Listed(<<g>>) = g
  BY <1>5, ListedOne
<1>7. Around(Object(<<g>>), x, Q, R)
  BY <1>2, <1>4, <1>6, AroundObject
<1>8. AttestationDocument(p, r) = Object(<<g>>)
  BY AttestationIs, Zenon DEF g, list
<1>. QED BY <1>7, <1>8, Zenon DEF x, list

(* A field of the attestation stands there, after fields without its name. *)
LEMMA AttestationStands ==
  ASSUME NEW K \in Phrase, K # "vis_run_attestation", NEW v \in Seq(Token),
         NEW doc, NEW x, NEW R, Around(doc, x, Without(K), R), R \subseteq Seq(Token),
         x = Field(K, v)
  PROVE  \E q : Stands(doc, K, q, v)
<1>1. PICK a \in Without(K), b \in R : Split(doc, a, Field(K, v), b)
  BY DEF Around
<1>2. b \in Seq(Token)
  OBVIOUS
<1>3. Stands(doc, K, Len(a) + 3, v)
  BY <1>1, <1>2, FieldFound
<1>. QED BY <1>3

(* The classes of the names that vis-compare looks for. *)
SearchedNames == {"assigned_cpus", "exit_code", "verdict", "escaped_cpus"}

LEMMA SearchedClass ==
  ASSUME NEW K \in SearchedNames \cup {"severity"}
  PROVE  /\ K \in Phrase /\ K # "any"
         /\ Class(Without(K), Phrase \ {K}) /\ Braced(Without(K))
         /\ Common \cup PolicyKeys \subseteq Phrase \ {K}
         /\ "vis_run_attestation" \in Phrase \ {K}
         /\ \A k \in SearchedNames \cup {"severity"} : k # K => k \in Phrase \ {K}
<1>1. SearchedNames \cup {"severity"} \subseteq Phrase
  BY DEF Phrase, SearchedKeys, SearchedNames
<1>2. Class(Without(K), Phrase \ {K}) /\ Braced(Without(K))
  BY <1>1, WithoutIsClass
<1>3. K \notin DoctorNames
  BY DEF SearchedNames, DoctorNames
<1>4. K \notin AttestationNames
  BY DEF SearchedNames, AttestationNames
<1>5. K \notin PolicyValues
  BY DEF SearchedNames, PolicyValues, PolicyWarnings
<1>6. K \notin PolicyKeys
  BY DEF SearchedNames, PolicyKeys
<1>7. Common \cup PolicyKeys \subseteq Phrase \ {K}
  BY <1>3, <1>4, <1>5, <1>6 DEF Common, Phrase
<1>8. "vis_run_attestation" \in AttestationNames
  BY DEF AttestationNames
<1>9. K # "any"
  BY DEF SearchedNames
<1>. QED BY <1>1, <1>2, <1>7, <1>8, <1>9 DEF Common

(* The fields of an attestation, but for the command line, are without a   *)
(* key that is not their own name.                                         *)
Lacks(r, K) == \A i \in DOMAIN r.command : r.command[i] # Plain(K)

LEMMA AttestedWithout ==
  ASSUME NEW K \in SearchedNames \cup {"severity"}, NEW p, IsPolicy(p), NEW r, IsAttested(r)
  PROVE  /\ \A i \in {1, 2, 3, 4, 5, 6, 8, 9, 10, 11, 12, 13, 17, 18} :
              AttestationList(p, r)[i] \in Without(K)
         /\ K # "assigned_cpus" => AttestationList(p, r)[7] \in Without(K)
         /\ K # "severity" => AttestationList(p, r)[16] \in Without(K)
         /\ K # "verdict" => AttestationList(p, r)[19] \in Without(K)
         /\ K # "escaped_cpus" => AttestationList(p, r)[15] \in Without(K)
         /\ K # "exit_code" /\ Lacks(r, K) => AttestationList(p, r)[14] \in Without(K)
         /\ Lacks(r, K) => \A i \in 1 .. 5 : WorkloadFields(r)[i] \in Without(K)
<1>. DEFINE Q == Without(K)
            C == Phrase \ {K}
            l == AttestationList(p, r)
<1>1. /\ K \in Phrase /\ K # "any" /\ Class(Q, C) /\ Braced(Q)
      /\ Common \cup PolicyKeys \subseteq C
      /\ \A k \in SearchedNames \cup {"severity"} : k # K => k \in C
  BY SearchedClass
<1>2. {"assigned_cpus", "exit_code", "verdict", "escaped_cpus"} \subseteq SearchedNames
  BY DEF SearchedNames
<1>3. Lacks(r, K) => Array(r.command) \in Q
  <2>1. r.command \in Seq(Words)
    BY DEF IsAttested
  <2>. QED BY <1>1, <2>1, CommandIn DEF Lacks
<1>4. /\ l[14] = Field("workload", Object(WorkloadFields(r)))
      /\ l[15] = Field("observation", Object(ObservationFields(r)))
  BY DEF AttestationList, ObservationFields
<1>. HIDE DEF Q, C, l
<1>5. /\ \A i \in {1, 2, 3, 4, 5, 6, 8, 9, 10, 11, 12, 13, 17, 18} : l[i] \in Q
      /\ K # "assigned_cpus" => l[7] \in Q
      /\ K # "severity" => l[16] \in Q
      /\ K # "verdict" => l[19] \in Q
  BY <1>1, <1>2, AttestedIn DEF l
<1>6. K # "escaped_cpus" => l[15] \in Q
  BY <1>1, <1>2, <1>4, ObservationIn
<1>7. Lacks(r, K) => \A i \in 1 .. 5 : WorkloadFields(r)[i] \in Q
  BY <1>1, <1>3, WorkloadIn
<1>8. K # "exit_code" /\ Lacks(r, K) => l[14] \in Q
  BY <1>1, <1>2, <1>3, <1>4, WorkloadIn
<1>. QED BY <1>5, <1>6, <1>7, <1>8 DEF Q, l

LEMMA AssignedStands ==
  ASSUME NEW p, IsPolicy(p), NEW r, IsAttested(r)
  PROVE  \E q : Stands(AttestationDocument(p, r), "assigned_cpus", q, NumberItems(r.assigned))
<1>. DEFINE K == "assigned_cpus"
            l == AttestationList(p, r)
            doc == AttestationDocument(p, r)
            v == NumberItems(r.assigned)
            S == Seq(Token)
<1>1. K \in SearchedNames \cup {"severity"} /\ K # "vis_run_attestation"
  BY DEF SearchedNames
<1>2. /\ K \in Phrase /\ Class(Without(K), Phrase \ {K}) /\ Braced(Without(K))
      /\ "vis_run_attestation" \in Phrase \ {K}
  BY <1>1, SearchedClass
<1>3. Class(S, Phrase) /\ Braced(S)
  BY AllIsClass
<1>4. \A i \in 1 .. 7 - 1 : l[i] \in Without(K)
  <2>1. \A i \in {1, 2, 3, 4, 5, 6, 8, 9, 10, 11, 12, 13, 17, 18} : l[i] \in Without(K)
    BY <1>1, AttestedWithout
  <2>2. \A i \in 1 .. 7 - 1 : i \in {1, 2, 3, 4, 5, 6, 8, 9, 10, 11, 12, 13, 17, 18}
    OBVIOUS
  <2>. QED BY <2>1, <2>2
<1>5. \A i \in 7 + 1 .. 19 : l[i] \in S
  <2>1. l \in Seq(S)
    BY AttestationTokens
  <2>2. Len(l) = 19
    BY AttestationTokens
  <2>. HIDE DEF l, S, v, doc
  <2>3. \A i \in 1 .. Len(l) : l[i] \in S
    BY <2>1
  <2>. QED BY <2>2, <2>3
<1>6. l[7] = Field(K, v)
  BY DEF AttestationList, Numbers, NumberItems
<1>7. v \in S
  BY ItemsAreTokens DEF IsAttested
<1>. HIDE DEF K, l, v, S
<1>8. Around(doc, l[7], Without(K), S)
  <2>1. 7 \in 1 .. 19
    OBVIOUS
  <2>. QED BY <1>2, <1>3, <1>4, <1>5, <2>1, AttestationAround DEF l
<1>. HIDE DEF doc
<1>9. \E q : Stands(doc, K, q, v)
  BY <1>1, <1>2, <1>6, <1>7, <1>8, AttestationStands DEF S
<1>. QED BY <1>9 DEF doc, K, v

(* The verdict is the last field: nothing is around it that is counted.    *)
LEMMA VerdictAround ==
  ASSUME NEW p, IsPolicy(p), NEW r, IsAttested(r), Lacks(r, "verdict"),
         NEW R, NEW D, Class(R, D), Braced(R)
  PROVE  /\ Around(AttestationDocument(p, r), Text("verdict", Verdict(r)), Without("verdict"), R)
         /\ \A a \in Without("verdict"), b \in R :
              Split(AttestationDocument(p, r), a, Text("verdict", Verdict(r)), b) =>
                Stands(AttestationDocument(p, r), "verdict", Len(a) + 3, <<String(Verdict(r))>>)
<1>. DEFINE K == "verdict"
            l == AttestationList(p, r)
            doc == AttestationDocument(p, r)
            v == <<String(Verdict(r))>>
<1>1. K \in SearchedNames \cup {"severity"} /\ K # "vis_run_attestation"
      /\ K # "assigned_cpus" /\ K # "severity" /\ K # "escaped_cpus" /\ K # "exit_code"
  BY DEF SearchedNames
<1>2. /\ K \in Phrase /\ Class(Without(K), Phrase \ {K}) /\ Braced(Without(K))
      /\ "vis_run_attestation" \in Phrase \ {K}
  BY <1>1, SearchedClass
<1>3. \A i \in 1 .. 19 - 1 : l[i] \in Without(K)
  <2>1. /\ \A i \in {1, 2, 3, 4, 5, 6, 8, 9, 10, 11, 12, 13, 17, 18} : l[i] \in Without(K)
        /\ l[7] \in Without(K) /\ l[16] \in Without(K) /\ l[15] \in Without(K)
        /\ l[14] \in Without(K)
    BY <1>1, AttestedWithout
  <2>2. \A i \in 1 .. 19 - 1 : i \in {1, 2, 3, 4, 5, 6, 8, 9, 10, 11, 12, 13, 17, 18}
                                     \cup {7, 14, 15, 16}
    OBVIOUS
  <2>. HIDE DEF l, K
  <2>. QED BY <2>1, <2>2
<1>4. \A i \in 19 + 1 .. 19 : l[i] \in R
  OBVIOUS
<1>5. l[19] = Text(K, Verdict(r)) /\ Text(K, Verdict(r)) = Field(K, v)
  BY DEF AttestationList, Text
<1>6. v \in Seq(Token)
  <2>1. Verdict(r) \in Phrase
    BY VerdictsAre DEF Phrase
  <2>. QED BY <2>1, TokenTypes
<1>. HIDE DEF K, l, v
<1>7. Around(doc, l[19], Without(K), R)
  <2>1. 19 \in 1 .. 19
    OBVIOUS
  <2>. QED BY <1>2, <1>3, <1>4, <2>1, AttestationAround DEF l
<1>. HIDE DEF doc
<1>8. R \subseteq Seq(Token)
  BY DEF Class
<1>9. ASSUME NEW a \in Without(K), NEW b \in R, Split(doc, a, Text(K, Verdict(r)), b)
      PROVE  Stands(doc, K, Len(a) + 3, v)
  <2>1. Split(doc, a, Field(K, v), b) /\ b \in Seq(Token)
    BY <1>5, <1>8, <1>9
  <2>. QED BY <1>2, <1>6, <2>1, FieldFound
<1>10. Around(doc, Text(K, Verdict(r)), Without(K), R)
  BY <1>5, <1>7
<1>. QED BY <1>9, <1>10 DEF doc, K, v

(* The fields of a class that the names of an attestation are in.          *)
LEMMA AttestedMembers ==
  ASSUME NEW Q, NEW C, Class(Q, C), Braced(Q), Common \cup PolicyKeys \subseteq C,
         {"assigned_cpus", "verdict", "exit_code"} \subseteq C,
         NEW p, IsPolicy(p), NEW r, IsAttested(r), Array(r.command) \in Q
  PROVE  /\ \A i \in 1 .. 14 : AttestationList(p, r)[i] \in Q
         /\ \A i \in 17 .. 19 : AttestationList(p, r)[i] \in Q
         /\ "escaped_cpus" \in C => AttestationList(p, r)[15] \in Q
         /\ "severity" \in C => AttestationList(p, r)[16] \in Q
<1>. DEFINE l == AttestationList(p, r)
<1>1. /\ l[14] = Field("workload", Object(WorkloadFields(r)))
      /\ l[15] = Field("observation", Object(ObservationFields(r)))
  BY DEF AttestationList, ObservationFields
<1>. HIDE DEF l
<1>2. /\ \A i \in {1, 2, 3, 4, 5, 6, 8, 9, 10, 11, 12, 13, 17, 18} : l[i] \in Q
      /\ l[7] \in Q /\ l[19] \in Q
      /\ "severity" \in C => l[16] \in Q
  BY AttestedIn DEF l
<1>3. l[14] \in Q
  BY <1>1, WorkloadIn
<1>4. "escaped_cpus" \in C => l[15] \in Q
  BY <1>1, ObservationIn
<1>5. \A i \in 1 .. 14 : i \in {1, 2, 3, 4, 5, 6, 8, 9, 10, 11, 12, 13, 17, 18} \cup {7, 14}
  OBVIOUS
<1>6. \A i \in 17 .. 19 : i \in {17, 18, 19}
  OBVIOUS
<1>7. \A i \in 1 .. 14 : l[i] \in Q
  BY <1>2, <1>3, <1>5
<1>8. \A i \in 17 .. 19 : l[i] \in Q
  BY <1>2, <1>6
<1>. QED BY <1>2, <1>4, <1>7, <1>8 DEF l

LEMMA ExitStands ==
  ASSUME NEW p, IsPolicy(p), NEW r, IsAttested(r), Lacks(r, "exit_code")
  PROVE  \E q : Stands(AttestationDocument(p, r), "exit_code", q, <<Number(r.exit_code)>>)
<1>. DEFINE K == "exit_code"
            l == AttestationList(p, r)
            doc == AttestationDocument(p, r)
            f == WorkloadFields(r)
            v == <<Number(r.exit_code)>>
            S == Seq(Token)
            Q == Without(K)
            C == Phrase \ {K}
<1>1. K \in SearchedNames \cup {"severity"} /\ K # "vis_run_attestation" /\ K # "assigned_cpus"
  BY DEF SearchedNames
<1>2. /\ K \in Phrase /\ Class(Q, C) /\ Braced(Q) /\ "vis_run_attestation" \in C
      /\ Common \cup PolicyKeys \subseteq C
  BY <1>1, SearchedClass
<1>3. Class(S, Phrase) /\ Braced(S)
  BY AllIsClass
<1>4. \A i \in 1 .. 14 - 1 : l[i] \in Q
  <2>1. /\ \A i \in {1, 2, 3, 4, 5, 6, 8, 9, 10, 11, 12, 13, 17, 18} : l[i] \in Q
        /\ l[7] \in Q
    BY <1>1, AttestedWithout
  <2>2. \A i \in 1 .. 14 - 1 : i \in {1, 2, 3, 4, 5, 6, 8, 9, 10, 11, 12, 13, 17, 18} \cup {7}
    OBVIOUS
  <2>. HIDE DEF l, Q
  <2>. QED BY <2>1, <2>2
<1>5. \A i \in 14 + 1 .. 19 : l[i] \in S
  <2>1. l \in Seq(S)
    BY AttestationTokens
  <2>2. Len(l) = 19
    BY AttestationTokens
  <2>. HIDE DEF l, S, v, f, doc
  <2>3. \A i \in 1 .. Len(l) : l[i] \in S
    BY <2>1
  <2>. QED BY <2>2, <2>3
<1>6. \A i \in 1 .. 6 - 1 : f[i] \in Q
  BY <1>1, AttestedWithout
<1>7. f \in Seq(S) /\ Len(f) = 6
  BY AttestationTokens
<1>8. l[14] = Field("workload", Object(f)) /\ f[6] = Field(K, v)
  BY DEF AttestationList, WorkloadFields, Count
<1>9. v \in S
  <2>1. r.exit_code \in Nat
    BY DEF IsAttested
  <2>. QED BY <2>1, TokenTypes
<1>10. "workload" \in C
  <2>1. "workload" \in AttestationNames
    BY DEF AttestationNames
  <2>. QED BY <1>2, <2>1 DEF Common
<1>. HIDE DEF K, l, v, f, Q, C
<1>11. Around(doc, l[14], Q, S)
  <2>1. 14 \in 1 .. 19
    OBVIOUS
  <2>. HIDE DEF S
  <2>. QED BY <1>2, <1>3, <1>4, <1>5, <2>1, AttestationAround DEF l
<1>. HIDE DEF doc
<1>12. Around(Listed(f), f[6], Q, S) /\ f[6] \in S
  <2>1. 6 \in 1 .. Len(f)
    BY <1>7
  <2>2. \A i \in 6 + 1 .. Len(f) : f[i] \in S
    BY <1>7
  <2>. QED BY <1>2, <1>3, <1>6, <1>7, <2>1, <2>2, MemberAround
<1>. HIDE DEF S
<1>13. Around(l[14], f[6], Q, S)
  BY <1>2, <1>3, <1>8, <1>10, <1>12, AroundObject DEF S
<1>14. Around(doc, f[6], Q, S)
  BY <1>2, <1>3, <1>11, <1>12, <1>13, AroundNests DEF S
<1>15. \E q : Stands(doc, K, q, v)
  BY <1>1, <1>2, <1>8, <1>9, <1>14, AttestationStands DEF Q, S
<1>. QED BY <1>15 DEF doc, K, v

(* The rows of the escapes and those of the events, and what is around     *)
(* either.                                                                 *)
LEMMA RowsAround ==
  ASSUME NEW Q, NEW C, Class(Q, C), Braced(Q), Common \cup PolicyKeys \subseteq C,
         {"assigned_cpus", "verdict", "exit_code", "vis_run_attestation"} \subseteq C,
         NEW p, IsPolicy(p), NEW r, IsAttested(r), Array(r.command) \in Q
  PROVE  /\ "severity" \in C =>
              Around(AttestationDocument(p, r), Listed(EscapeRows(r)), Q, Q)
         /\ "escaped_cpus" \in C =>
              Around(AttestationDocument(p, r), Listed(EventRows(r.events)), Q, Q)
<1>. DEFINE l == AttestationList(p, r)
            doc == AttestationDocument(p, r)
            f == Field("affinity_escapes", Array(EscapeRows(r)))
            y == Listed(EscapeRows(r))
            z == Listed(EventRows(r.events))
<1>1. /\ \A i \in 1 .. 14 : l[i] \in Q
      /\ \A i \in 17 .. 19 : l[i] \in Q
      /\ "escaped_cpus" \in C => l[15] \in Q
      /\ "severity" \in C => l[16] \in Q
  BY AttestedMembers
<1>2. /\ l[15] = Field("observation", Object(BeforeEscapes \o <<f>>))
      /\ l[16] = Field("events", Array(EventRows(r.events)))
  BY DEF AttestationList
<1>3. /\ BeforeEscapes \in Seq(Q) /\ "observation" \in C /\ "affinity_escapes" \in C
  BY ObservationIn
<1>4. "events" \in C
  <2>1. "events" \in AttestationNames
    BY DEF AttestationNames
  <2>. QED BY <2>1 DEF Common
<1>5. ASSUME NEW x \in Seq(Token) PROVE Around(x, x, Q, Q)
  <2>1. <<>> \in Q /\ x = (<<>> \o x) \o <<>>
    BY DEF Class
  <2>. QED BY <2>1 DEF Around, Split
<1>6. EscapeRows(r) \in Seq(Seq(Token)) /\ y \in Seq(Token)
  BY AttestationTokens, AllIsClass, ListedIn
<1>7. z \in Seq(Token)
  <2>1. r.events \in SUBSET EventType /\ IsFiniteSet(r.events)
    BY DEF IsAttested
  <2>2. "severity" \in Phrase /\ Common \cup PolicyKeys \subseteq Phrase
    BY DEF Phrase, SearchedKeys
  <2>3. EventRows(r.events) \in Seq(Seq(Token))
    BY <2>1, <2>2, AllIsClass, RowsIn
  <2>. QED BY <2>3, AllIsClass, ListedIn
<1>8. ASSUME "severity" \in C PROVE Around(doc, y, Q, Q)
  <2>. HIDE DEF l, doc
  <2>1. Around(y, y, Q, Q)
    BY <1>5, <1>6
  <2>2. Around(f, y, Q, Q)
    <3>. HIDE DEF y
    <3>1. Around(Listed(EscapeRows(r)), y, Q, Q)
      BY <2>1 DEF y
    <3>. QED BY <1>3, <1>6, <3>1, AroundArray DEF y
  <2>3. f \in Seq(Token)
    <3>1. Array(EscapeRows(r)) \in Seq(Token) /\ Array(EscapeRows(r)) # <<>>
      BY <1>6, AllIsClass, ArrayIn
    <3>2. "affinity_escapes" \in Phrase
      BY <1>3 DEF Class
    <3>. QED BY <3>1, <3>2, AllIsClass, FieldIn
  <2>. HIDE DEF f, y
  <2>4. Around(Listed(BeforeEscapes \o <<f>>), f, Q, Q)
    <3>1. <<>> \in Seq(Q)
      OBVIOUS
    <3>2. Around(Listed((BeforeEscapes \o <<f>>) \o <<>>), f, Q, Q)
      BY <1>3, <2>3, <3>1, AroundPart
    <3>3. (BeforeEscapes \o <<f>>) \o <<>> = BeforeEscapes \o <<f>>
      <4>. DEFINE T == Q \cup {f}
                  s == BeforeEscapes
                  u == <<f>>
      <4>1. s \in Seq(T) /\ u \in Seq(T)
        BY <1>3, SeqMonotonic
      <4>. HIDE DEF T, s, u
      <4>2. s \o u \in Seq(T)
        BY <4>1, SeqsOf
      <4>. DEFINE w == s \o u
      <4>3. w \in Seq(T)
        BY <4>2
      <4>. HIDE DEF w
      <4>4. w \o <<>> = w
        BY <4>3
      <4>. QED BY <4>4, Zenon DEF w, s, u
    <3>. QED BY <3>2, <3>3, Zenon
  <2>5. Around(l[15], f, Q, Q)
    BY <1>2, <1>3, <2>3, <2>4, AroundObject
  <2>6. Around(doc, l[15], Q, Q)
    <3>1. /\ 15 \in 1 .. 19 /\ \A i \in 1 .. 15 - 1 : l[i] \in Q
          /\ \A i \in 15 + 1 .. 19 : l[i] \in Q
      BY <1>1, <1>8
    <3>. QED BY <3>1, AttestationAround DEF l, doc
  <2>7. Around(doc, f, Q, Q)
    BY <2>3, <2>5, <2>6, AroundNests
  <2>. QED BY <1>6, <2>2, <2>7, AroundNests DEF y
<1>9. ASSUME "escaped_cpus" \in C PROVE Around(doc, z, Q, Q)
  <2>. HIDE DEF l, doc, f, y
  <2>1. Around(z, z, Q, Q)
    BY <1>5, <1>7
  <2>2. Around(l[16], z, Q, Q)
    <3>. HIDE DEF z
    <3>1. Around(Listed(EventRows(r.events)), z, Q, Q)
      BY <2>1 DEF z
    <3>. QED BY <1>2, <1>4, <1>7, <3>1, AroundArray
  <2>. HIDE DEF z
  <2>3. Around(doc, l[16], Q, Q)
    <3>1. /\ 16 \in 1 .. 19 /\ \A i \in 1 .. 16 - 1 : l[i] \in Q
          /\ \A i \in 16 + 1 .. 19 : l[i] \in Q
      BY <1>1, <1>9
    <3>. QED BY <3>1, AttestationAround DEF l, doc
  <2>. QED BY <1>7, <2>2, <2>3, AroundNests
<1>. QED BY <1>8, <1>9 DEF doc, y, z

----------------------------------------------------------------------------
(* Counting: the two patterns that vis-compare counts, and where they are  *)
(* in a text.  The text of a pattern with a colon is tidy if no colon is   *)
(* at its ends: then no occurrence lies across two texts.                  *)
EscapePattern == <<String("escaped_cpus")>>
WarningPattern == Text("severity", "warning")

Hits(P, t) == {p \in 1 .. Len(t) + 1 - Len(P) : \A i \in DOMAIN P : t[p + i - 1] = P[i]}

Tidy(P, t) ==
  /\ t \in Seq(Token)
  /\ P = EscapePattern \/ (P = WarningPattern /\ (t # <<>> => t[1] # Colon /\ t[Len(t)] # Colon))

LEMMA HitsAre ==
  ASSUME NEW t \in Seq(Token)
  PROVE  /\ Hits(EscapePattern, t) = {p \in 1 .. Len(t) : t[p] = String("escaped_cpus")}
         /\ Hits(WarningPattern, t) =
              {p \in 1 .. Len(t) - 2 : /\ t[p] = String("severity") /\ t[p + 1] = Colon
                                       /\ t[p + 2] = String("warning")}
<1>1. Hits(EscapePattern, t) = {p \in 1 .. Len(t) : t[p] = String("escaped_cpus")}
  <2>. DEFINE s == String("escaped_cpus")
              P == <<s>>
  <2>1. Len(P) = 1 /\ DOMAIN P = {1} /\ P[1] = s
    OBVIOUS
  <2>. HIDE DEF s, P
  <2>2. Len(t) + 1 - Len(P) = Len(t)
    BY <2>1
  <2>3. ASSUME NEW p \in 1 .. Len(t)
        PROVE  (\A i \in DOMAIN P : t[p + i - 1] = P[i]) <=> t[p] = s
    <3>1. p + 1 - 1 = p
      OBVIOUS
    <3>. QED BY <2>1, <3>1
  <2>4. Hits(P, t) = {p \in 1 .. Len(t) : t[p] = s}
    BY <2>2, <2>3 DEF Hits
  <2>. QED BY <2>4, Zenon DEF P, s, EscapePattern
<1>2. Hits(WarningPattern, t) =
        {p \in 1 .. Len(t) - 2 : /\ t[p] = String("severity") /\ t[p + 1] = Colon
                                 /\ t[p + 2] = String("warning")}
  <2>. DEFINE s == String("severity")
              w == String("warning")
              P == WarningPattern
  <2>1. Len(P) = 3 /\ DOMAIN P = 1 .. 3 /\ P[1] = s /\ P[2] = Colon /\ P[3] = w
    <3>1. s \in Token /\ w \in Token /\ Colon \in Token
      <4>1. "severity" \in Phrase /\ "warning" \in Phrase
        BY DEF Phrase, SearchedKeys, Common, AttestationNames
      <4>. QED BY <4>1, TokenTypes
    <3>2. P = <<s, Colon>> \o <<w>>
      BY DEF WarningPattern, Text, Field
    <3>. HIDE DEF s, w, P
    <3>. DEFINE u == <<s, Colon>>
                v == <<w>>
    <3>3. u \in Seq(Token) /\ v \in Seq(Token)
      BY <3>1
    <3>4. Len(u) = 2 /\ u[1] = s /\ u[2] = Colon /\ Len(v) = 1 /\ v[1] = w
      OBVIOUS
    <3>5. P = u \o v
      BY <3>2
    <3>. HIDE DEF u, v
    <3>6. /\ P \in Seq(Token) /\ Len(P) = Len(u) + Len(v)
          /\ \A i \in 1 .. Len(u) : P[i] = u[i]
          /\ \A i \in 1 .. Len(v) : P[Len(u) + i] = v[i]
      BY <3>3, <3>5, Positions
    <3>. QED BY <3>4, <3>6
  <2>. HIDE DEF s, w, P
  <2>2. Len(t) + 1 - Len(P) = Len(t) - 2
    BY <2>1
  <2>3. ASSUME NEW p \in 1 .. Len(t) - 2
        PROVE  (\A i \in DOMAIN P : t[p + i - 1] = P[i])
               <=> (t[p] = s /\ t[p + 1] = Colon /\ t[p + 2] = w)
    <3>1. /\ \A i \in 1 .. 3 : i = 1 \/ i = 2 \/ i = 3
          /\ p + 1 - 1 = p /\ p + 2 - 1 = p + 1 /\ p + 3 - 1 = p + 2
      OBVIOUS
    <3>. QED BY <2>1, <3>1
  <2>4. Hits(P, t) = {p \in 1 .. Len(t) - 2 : t[p] = s /\ t[p + 1] = Colon /\ t[p + 2] = w}
    BY <2>2, <2>3 DEF Hits
  <2>. QED BY <2>4, Zenon DEF P, s, w
<1>. QED BY <1>1, <1>2

LEMMA HitsJoin ==
  ASSUME NEW P, NEW a, NEW b, Tidy(P, a), Tidy(P, b)
  PROVE  /\ Tidy(P, a \o b)
         /\ Hits(P, a \o b) = Hits(P, a) \cup {Len(a) + p : p \in Hits(P, b)}
<1>. DEFINE c == a \o b
<1>1. a \in Seq(Token) /\ b \in Seq(Token) /\ Len(a) \in Nat /\ Len(b) \in Nat
  BY DEF Tidy
<1>2. /\ c \in Seq(Token) /\ Len(c) = Len(a) + Len(b)
      /\ \A i \in 1 .. Len(a) : c[i] = a[i]
      /\ \A i \in 1 .. Len(b) : c[Len(a) + i] = b[i]
  BY <1>1, Positions
<1>. HIDE DEF c
<1>3. CASE P = EscapePattern
  <2>. DEFINE s == String("escaped_cpus")
  <2>. HIDE DEF s
  <2>1. /\ Hits(P, a) = {p \in 1 .. Len(a) : a[p] = s} /\ Hits(P, b) = {p \in 1 .. Len(b) : b[p] = s}
        /\ Hits(P, c) = {p \in 1 .. Len(c) : c[p] = s}
    BY <1>1, <1>2, <1>3, HitsAre DEF s
  <2>2. ASSUME NEW q \in Hits(P, c) PROVE q \in Hits(P, a) \cup {Len(a) + p : p \in Hits(P, b)}
    <3>1. q \in 1 .. Len(c) /\ c[q] = s
      BY <2>1
    <3>2. CASE q <= Len(a)
      BY <1>1, <1>2, <2>1, <3>1, <3>2
    <3>3. CASE q > Len(a)
      <4>. DEFINE p == q - Len(a)
      <4>1. p \in 1 .. Len(b) /\ q = Len(a) + p
        BY <1>1, <1>2, <3>1, <3>3
      <4>. HIDE DEF p
      <4>. QED BY <1>2, <2>1, <3>1, <4>1
    <3>. QED BY <1>1, <1>2, <3>1, <3>2, <3>3
  <2>3. ASSUME NEW p \in Hits(P, a) PROVE p \in Hits(P, c)
    BY <1>1, <1>2, <2>1
  <2>4. ASSUME NEW p \in Hits(P, b) PROVE Len(a) + p \in Hits(P, c)
    BY <1>1, <1>2, <2>1
  <2>. QED BY <1>2, <1>3, <2>2, <2>3, <2>4 DEF Tidy, c
<1>4. CASE P = WarningPattern
  <2>. DEFINE s == String("severity")
              w == String("warning")
  <2>. HIDE DEF s, w
  <2>1. /\ Hits(P, a) = {p \in 1 .. Len(a) - 2 : a[p] = s /\ a[p + 1] = Colon /\ a[p + 2] = w}
        /\ Hits(P, b) = {p \in 1 .. Len(b) - 2 : b[p] = s /\ b[p + 1] = Colon /\ b[p + 2] = w}
        /\ Hits(P, c) = {p \in 1 .. Len(c) - 2 : c[p] = s /\ c[p + 1] = Colon /\ c[p + 2] = w}
    BY <1>1, <1>2, <1>4, HitsAre DEF s, w
  <2>5. P # EscapePattern
    <3>1. Len(EscapePattern) = 1
      BY DEF EscapePattern
    <3>2. Len(WarningPattern) = 3
      <4>1. String("severity") \in Token /\ String("warning") \in Token /\ Colon \in Token
        <5>1. "severity" \in Phrase /\ "warning" \in Phrase
          BY DEF Phrase, SearchedKeys, Common, AttestationNames
        <5>. QED BY <5>1, TokenTypes
      <4>. QED BY <4>1 DEF WarningPattern, Text, Field
    <3>. QED BY <1>4, <3>1, <3>2
  <2>6. /\ a # <<>> => a[1] # Colon /\ a[Len(a)] # Colon
        /\ b # <<>> => b[1] # Colon /\ b[Len(b)] # Colon
    BY <2>5 DEF Tidy
  <2>2. ASSUME NEW q \in Hits(P, c) PROVE q \in Hits(P, a) \cup {Len(a) + p : p \in Hits(P, b)}
    <3>1. q \in 1 .. Len(c) - 2 /\ c[q] = s /\ c[q + 1] = Colon /\ c[q + 2] = w
      BY <2>1
    <3>2. CASE q + 2 <= Len(a)
      <4>1. q \in 1 .. Len(a) - 2 /\ {q, q + 1, q + 2} \subseteq 1 .. Len(a)
        BY <1>1, <3>1, <3>2
      <4>. QED BY <1>2, <2>1, <3>1, <4>1
    <3>3. CASE q > Len(a)
      <4>. DEFINE p == q - Len(a)
      <4>1. p \in 1 .. Len(b) - 2 /\ q = Len(a) + p /\ {p, p + 1, p + 2} \subseteq 1 .. Len(b)
            /\ q + 1 = Len(a) + (p + 1) /\ q + 2 = Len(a) + (p + 2)
        <5>1. Len(a) \in Nat /\ Len(b) \in Nat /\ Len(c) = Len(a) + Len(b) /\ q \in Int
          BY <1>1, <1>2, <3>1
        <5>2. q <= Len(c) - 2 /\ q > Len(a)
          BY <5>1, <3>1, <3>3
        <5>3. p \in Int /\ q = Len(a) + p
          BY <5>1
        <5>. HIDE DEF p
        <5>4. p \in 1 .. Len(b) - 2
          BY <5>1, <5>2, <5>3
        <5>5. q + 1 = Len(a) + (p + 1) /\ q + 2 = Len(a) + (p + 2)
          BY <5>1, <5>3
        <5>. QED BY <5>1, <5>3, <5>4, <5>5
      <4>. HIDE DEF p
      <4>. QED BY <1>2, <2>1, <3>1, <4>1
    <3>4. CASE q = Len(a)
      <4>1. 1 \in 1 .. Len(b) /\ q + 1 = Len(a) + 1
        BY <1>1, <1>2, <3>1, <3>4
      <4>2. b[1] = Colon /\ b # <<>>
        BY <1>2, <3>1, <4>1
      <4>. QED BY <2>6, <4>2
    <3>5. CASE q + 1 = Len(a)
      <4>1. Len(a) \in 1 .. Len(a) /\ a # <<>>
        BY <1>1, <3>1, <3>5
      <4>2. a[Len(a)] = Colon
        BY <1>2, <3>1, <3>5, <4>1
      <4>. QED BY <2>6, <4>1, <4>2
    <3>. QED BY <1>1, <1>2, <3>1, <3>2, <3>3, <3>4, <3>5
  <2>3. ASSUME NEW p \in Hits(P, a) PROVE p \in Hits(P, c)
    <3>1. p \in 1 .. Len(a) - 2 /\ {p, p + 1, p + 2} \subseteq 1 .. Len(a) /\ p \in 1 .. Len(c) - 2
      BY <1>1, <1>2, <2>1
    <3>. QED BY <1>2, <2>1, <3>1
  <2>4. ASSUME NEW p \in Hits(P, b) PROVE Len(a) + p \in Hits(P, c)
    <3>0. p \in 1 .. Len(b) - 2
      BY <2>1
    <3>1. p \in 1 .. Len(b) - 2 /\ {p, p + 1, p + 2} \subseteq 1 .. Len(b)
          /\ Len(a) + p \in 1 .. Len(c) - 2
          /\ Len(a) + p + 1 = Len(a) + (p + 1) /\ Len(a) + p + 2 = Len(a) + (p + 2)
      BY <1>1, <1>2, <3>0
    <3>. QED BY <1>2, <2>1, <3>1
  <2>7. ASSUME c # <<>> PROVE c[1] # Colon /\ c[Len(c)] # Colon
    <3>1. CASE a = <<>>
      <4>1. Len(a) = 0 /\ 1 \in 1 .. Len(b) /\ Len(b) \in 1 .. Len(b) /\ b # <<>>
        BY <1>1, <1>2, <2>7, <3>1
      <4>. QED BY <1>1, <1>2, <2>6, <4>1
    <3>2. CASE a # <<>> /\ b = <<>>
      <4>1. Len(b) = 0 /\ 1 \in 1 .. Len(a) /\ Len(a) \in 1 .. Len(a)
        BY <1>1, <1>2, <2>7, <3>2
      <4>. QED BY <1>1, <1>2, <2>6, <3>2, <4>1
    <3>3. CASE a # <<>> /\ b # <<>>
      <4>1. 1 \in 1 .. Len(a) /\ Len(b) \in 1 .. Len(b)
        BY <1>1, <3>3
      <4>. QED BY <1>1, <1>2, <2>6, <3>3, <4>1
    <3>. QED BY <3>1, <3>2, <3>3
  <2>. QED BY <1>2, <1>4, <2>2, <2>3, <2>4, <2>7 DEF Tidy, c
<1>. QED BY <1>3, <1>4 DEF Tidy

Counted(P, n) ==
  {t \in Seq(Token) : Tidy(P, t) /\ IsFiniteSet(Hits(P, t)) /\ Cardinality(Hits(P, t)) = n}

LEMMA Shifted ==
  ASSUME NEW k \in Nat, NEW S \in SUBSET Nat, IsFiniteSet(S)
  PROVE  IsFiniteSet({k + p : p \in S}) /\ Cardinality({k + p : p \in S}) = Cardinality(S)
<1>. DEFINE T == {k + p : p \in S}
            f == [p \in S |-> k + p]
<1>1. f \in [S -> T]
  OBVIOUS
<1>2. \A p, q \in S : f[p] = f[q] => p = q
  OBVIOUS
<1>3. \A y \in T : \E p \in S : f[p] = y
  OBVIOUS
<1>. HIDE DEF f, T
<1>4. f \in Bijection(S, T)
  BY <1>1, <1>2, <1>3, Zenon DEF Bijection, Injection, Surjection, IsInjective
<1>5. ExistsBijection(S, T)
  BY <1>4 DEF ExistsBijection
<1>6. IsFiniteSet(T) /\ Cardinality(T) = Cardinality(S)
  BY <1>5, FS_Bijection
<1>. QED BY <1>6 DEF T

LEMMA HitsBound ==
  ASSUME NEW P, NEW t, Tidy(P, t)
  PROVE  Hits(P, t) \subseteq 1 .. Len(t)
<1>1. t \in Seq(Token) /\ Len(t) \in Nat
  BY DEF Tidy
<1>2. CASE P = EscapePattern
  BY <1>1, <1>2, HitsAre
<1>3. CASE P = WarningPattern
  <2>1. Hits(P, t) \subseteq 1 .. Len(t) - 2
    BY <1>1, <1>3, HitsAre
  <2>2. 1 .. Len(t) - 2 \subseteq 1 .. Len(t)
    BY <1>1
  <2>. QED BY <2>1, <2>2
<1>. QED BY <1>2, <1>3 DEF Tidy

LEMMA CountedJoin ==
  ASSUME NEW P, NEW m \in Nat, NEW n \in Nat, NEW a \in Counted(P, m), NEW b \in Counted(P, n)
  PROVE  a \o b \in Counted(P, m + n)
<1>1. /\ Tidy(P, a) /\ IsFiniteSet(Hits(P, a)) /\ Cardinality(Hits(P, a)) = m
      /\ Tidy(P, b) /\ IsFiniteSet(Hits(P, b)) /\ Cardinality(Hits(P, b)) = n
      /\ a \in Seq(Token) /\ b \in Seq(Token) /\ Len(a) \in Nat
  BY DEF Counted
<1>2. /\ Tidy(P, a \o b)
      /\ Hits(P, a \o b) = Hits(P, a) \cup {Len(a) + p : p \in Hits(P, b)}
  BY <1>1, HitsJoin
<1>. DEFINE A == Hits(P, a)
            B == Hits(P, b)
            T == {Len(a) + p : p \in B}
<1>3. A \subseteq 1 .. Len(a) /\ B \subseteq Nat \ {0}
  <2>1. B \subseteq 1 .. Len(b) /\ Len(b) \in Nat
    BY <1>1, HitsBound
  <2>. QED BY <1>1, <2>1, HitsBound
<1>. HIDE DEF A, B
<1>4. IsFiniteSet(T) /\ Cardinality(T) = n
  <2>1. B \in SUBSET Nat /\ IsFiniteSet(B) /\ Cardinality(B) = n
    BY <1>1, <1>3 DEF B
  <2>. QED BY <1>1, <2>1, Shifted
<1>5. A \cap T = {}
  <2>1. ASSUME NEW y \in A, NEW p \in B, y = Len(a) + p PROVE FALSE
    BY <1>1, <1>3, <2>1
  <2>. QED BY <2>1
<1>. HIDE DEF T
<1>6. IsFiniteSet(A \cup T) /\ Cardinality(A \cup T) = m + n
  <2>1. IsFiniteSet(A) /\ Cardinality(A) = m
    BY <1>1 DEF A
  <2>2. /\ IsFiniteSet(A \cup T)
        /\ Cardinality(A \cup T) = Cardinality(A) + Cardinality(T) - Cardinality(A \cap T)
    BY <1>4, <2>1, FS_Union
  <2>3. Cardinality(A \cap T) = 0
    BY <1>5, FS_EmptySet
  <2>. QED BY <1>4, <2>1, <2>2, <2>3
<1>7. a \o b \in Seq(Token)
  BY <1>1, SeqsOf
<1>8. Hits(P, a \o b) = A \cup T
  BY <1>2 DEF A, B, T
<1>. QED BY <1>2, <1>6, <1>7, <1>8 DEF Counted

Weight(B, i) == IF i \in B THEN 1 ELSE 0

LEMMA CountedList ==
  ASSUME NEW P, <<Comma>> \in Counted(P, 0), <<>> \in Counted(P, 0)
  PROVE  \A s \in Seq(Seq(Token)) : \A B \in SUBSET (1 .. Len(s)) :
           (\A i \in 1 .. Len(s) : s[i] \in Counted(P, Weight(B, i))) =>
             IsFiniteSet(B) /\ Listed(s) \in Counted(P, Cardinality(B))
<1>. DEFINE Fits(s, B) == \A i \in 1 .. Len(s) : s[i] \in Counted(P, Weight(B, i))
            G == {n \in Nat : \A s \in Seq(Seq(Token)) : \A B \in SUBSET (1 .. Len(s)) :
                    Len(s) = n /\ Fits(s, B) => Listed(s) \in Counted(P, Cardinality(B))}
<1>. HIDE DEF Fits
<1>1. 0 \in G
  <2>. SUFFICES ASSUME NEW s \in Seq(Seq(Token)), NEW B \in SUBSET (1 .. Len(s)), Len(s) = 0
                PROVE  Listed(s) \in Counted(P, Cardinality(B))
    OBVIOUS
  <2>1. s = <<>> /\ B = {}
    BY EmptySeq
  <2>2. Cardinality(B) = 0
    BY <2>1, FS_EmptySet
  <2>. QED BY <2>1, <2>2, ListedEmpty
<1>2. ASSUME NEW n \in Nat, n \in G PROVE n + 1 \in G
  <2>. SUFFICES ASSUME NEW s \in Seq(Seq(Token)), NEW B \in SUBSET (1 .. Len(s)),
                       Len(s) = n + 1, Fits(s, B)
                PROVE  Listed(s) \in Counted(P, Cardinality(B))
    OBVIOUS
  <2>. DEFINE t == SubSeq(s, 1, Len(s) - 1)
              x == s[Len(s)]
              A == B \ {n + 1}
  <2>1. s # <<>>
    BY EmptySeq
  <2>2. t \in Seq(Seq(Token)) /\ Len(t) = n /\ x \in Seq(Token) /\ s = Append(t, x)
    BY <2>1, SequenceGrows
  <2>3. x \in Counted(P, Weight(B, n + 1))
    BY DEF Fits
  <2>. HIDE DEF x
  <2>4. \A i \in 1 .. n : t[i] = s[i]
    <3>. HIDE DEF t
    <3>. QED BY <2>2
  <2>. HIDE DEF t
  <2>5. IsFiniteSet(A) /\ A \in SUBSET (1 .. Len(t)) /\ Cardinality(A) \in Nat
    <3>1. IsFiniteSet(1 .. n)
      BY FS_Interval
    <3>2. A \in SUBSET (1 .. n)
      OBVIOUS
    <3>. HIDE DEF A
    <3>. QED BY <2>2, <3>1, <3>2, FS_Subset, FS_CardinalityType
  <2>6. Fits(t, A)
    <3>1. \A i \in 1 .. n : s[i] \in Counted(P, Weight(B, i)) /\ i # n + 1
      BY DEF Fits
    <3>2. \A i \in 1 .. n : Weight(A, i) = Weight(B, i)
      BY DEF Weight
    <3>. QED BY <2>2, <2>4, <3>1, <3>2 DEF Fits
  <2>7. Listed(t) \in Counted(P, Cardinality(A))
    <3>. HIDE DEF A
    <3>. QED BY <1>2, <2>2, <2>5, <2>6
  <2>8. Cardinality(B) = Cardinality(A) + Weight(B, n + 1) /\ Weight(B, n + 1) \in Nat
    <3>1. CASE n + 1 \in B
      <4>1. B = A \cup {n + 1} /\ n + 1 \notin A
        BY <3>1
      <4>. HIDE DEF A
      <4>2. Cardinality(A \cup {n + 1}) = Cardinality(A) + 1
        BY <2>5, <4>1, FS_AddElement
      <4>. QED BY <3>1, <4>1, <4>2 DEF Weight
    <3>2. CASE n + 1 \notin B
      <4>1. B = A
        BY <3>2
      <4>. HIDE DEF A
      <4>. QED BY <2>5, <3>2, <4>1 DEF Weight
    <3>. QED BY <3>1, <3>2
  <2>. HIDE DEF A
  <2>9. Listed(s) = IF t = <<>> THEN x ELSE Listed(t) \o (<<Comma>> \o x)
    BY <2>2, ListedAppend
  <2>10. CASE t = <<>>
    <3>1. A = {} /\ Cardinality(A) = 0
      <4>1. Len(t) = 0
        BY <2>10
      <4>2. A \subseteq 1 .. Len(t)
        BY <2>5
      <4>3. A = {}
        BY <4>1, <4>2
      <4>. QED BY <4>3, FS_EmptySet
    <3>2. Cardinality(B) = Weight(B, n + 1)
      BY <2>8, <3>1
    <3>. QED BY <2>3, <2>9, <2>10, <3>2
  <2>11. CASE t # <<>>
    <3>1. <<Comma>> \o x \in Counted(P, 0 + Weight(B, n + 1))
      BY <2>3, <2>8, CountedJoin
    <3>2. 0 + Weight(B, n + 1) = Weight(B, n + 1)
      BY <2>8
    <3>3. Listed(t) \o (<<Comma>> \o x) \in Counted(P, Cardinality(A) + Weight(B, n + 1))
      BY <2>5, <2>7, <2>8, <3>1, <3>2, CountedJoin
    <3>. QED BY <2>8, <2>9, <2>11, <3>3
  <2>. QED BY <2>10, <2>11
<1>. HIDE DEF G
<1>3. \A n \in Nat : n \in G
  BY <1>1, <1>2, Induction
<1>4. \A s \in Seq(Seq(Token)) : Len(s) \in Nat
  OBVIOUS
<1>5. \A s \in Seq(Seq(Token)) : \A B \in SUBSET (1 .. Len(s)) : IsFiniteSet(B)
  <2>. SUFFICES ASSUME NEW s \in Seq(Seq(Token)), NEW B \in SUBSET (1 .. Len(s))
                PROVE  IsFiniteSet(B)
    OBVIOUS
  <2>1. IsFiniteSet(1 .. Len(s))
    BY <1>4, FS_Interval
  <2>. QED BY <2>1, FS_Subset
<1>. QED BY <1>3, <1>4, <1>5 DEF G, Fits

LEMMA AnyCounted ==
  ASSUME NEW P, NEW t, Tidy(P, t)
  PROVE  \E m \in Nat : t \in Counted(P, m)
<1>1. t \in Seq(Token) /\ Len(t) \in Nat
  BY DEF Tidy
<1>2. IsFiniteSet(1 .. Len(t))
  BY <1>1, FS_Interval
<1>3. Hits(P, t) \in SUBSET (1 .. Len(t))
  BY HitsBound
<1>4. IsFiniteSet(Hits(P, t)) /\ Cardinality(Hits(P, t)) \in Nat
  BY <1>2, <1>3, FS_Subset, FS_CardinalityType
<1>. QED BY <1>1, <1>4 DEF Counted

LEMMA NoneCounted ==
  /\ Without("escaped_cpus") \subseteq Counted(EscapePattern, 0)
  /\ Unrated \subseteq Counted(WarningPattern, 0)
<1>1. ASSUME NEW t \in Without("escaped_cpus") PROVE t \in Counted(EscapePattern, 0)
  <2>. DEFINE K == "escaped_cpus"
  <2>1. \A i \in 1 .. Len(t) : t[i] \in Others(K)
    BY DEF Without
  <2>2. t \in Seq(Token)
    <3>1. Others(K) \subseteq Token
      BY DEF Others
    <3>. QED BY <3>1, SeqMonotonic DEF Without
  <2>3. \A i \in 1 .. Len(t) : t[i] # String(K)
    BY <2>1 DEF Others
  <2>4. Hits(EscapePattern, t) = {}
    BY <2>2, <2>3, HitsAre
  <2>. QED BY <2>2, <2>4, FS_EmptySet DEF Counted, Tidy
<1>2. ASSUME NEW t \in Unrated PROVE t \in Counted(WarningPattern, 0)
  <2>1. /\ t \in Seq(Token) /\ Len(t) \in Nat
        /\ t # <<>> => t[Len(t)] # Colon
        /\ \A i \in 1 .. Len(t) : t[i] = Colon => i > 1 /\ t[i - 1] # String("severity")
    BY DEF Unrated
  <2>2. ASSUME NEW p \in Hits(WarningPattern, t) PROVE FALSE
    <3>1. p \in 1 .. Len(t) - 2 /\ t[p] = String("severity") /\ t[p + 1] = Colon
      BY <2>1, HitsAre
    <3>2. p + 1 \in 1 .. Len(t) /\ (p + 1) - 1 = p
      BY <2>1, <3>1
    <3>. QED BY <2>1, <3>1, <3>2
  <2>3. Hits(WarningPattern, t) = {}
    BY <2>2
  <2>4. t # <<>> => t[1] # Colon
    <3>1. t # <<>> => 1 \in 1 .. Len(t)
      BY <2>1
    <3>. QED BY <2>1, <3>1
  <2>5. Tidy(WarningPattern, t)
    BY <2>1, <2>4 DEF Tidy, Unrated
  <2>. QED BY <2>1, <2>3, <2>5, FS_EmptySet DEF Counted
<1>. QED BY <1>1, <1>2

LEMMA AroundCounted ==
  ASSUME NEW P, NEW Q, NEW R, Q \subseteq Counted(P, 0), R \subseteq Counted(P, 0),
         NEW n \in Nat, NEW x \in Counted(P, n), NEW doc, Around(doc, x, Q, R)
  PROVE  doc \in Counted(P, n)
<1>1. PICK a \in Q, b \in R : doc = (a \o x) \o b
  BY DEF Around, Split
<1>2. a \o x \in Counted(P, 0 + n) /\ 0 + n = n
  BY CountedJoin
<1>. DEFINE c == a \o x
<1>3. c \in Counted(P, n)
  BY <1>2
<1>. HIDE DEF c
<1>4. c \o b \in Counted(P, n + 0) /\ n + 0 = n
  BY <1>3, CountedJoin
<1>. QED BY <1>1, <1>4, Zenon DEF c

(* The row of an escape is counted once. *)
LEMMA EscapeRowCounted ==
  ASSUME NEW S \in CpuLists
  PROVE  EscapeRow(S) \in Counted(EscapePattern, 1)
<1>. DEFINE K == "escaped_cpus"
            Q == Without(K)
            C == Phrase \ {K}
            a == Counts(<<"pid", "tid">>)
            b == Text("cpus_allowed_list", "any")
            v == NumberItems(S)
            x == Field(K, v)
<1>1. K \in SearchedNames \cup {"severity"}
  BY DEF SearchedNames
<1>2. /\ K \in Phrase /\ Class(Q, C) /\ Braced(Q) /\ Common \cup PolicyKeys \subseteq C
  BY <1>1, SearchedClass
<1>3. {"pid", "tid", "cpus_allowed_list", "any"} \subseteq C
  <2>1. {"pid", "tid", "cpus_allowed_list", "any"} \subseteq Common
    BY DEF Common, AttestationNames
  <2>. QED BY <1>2, <2>1
<1>4. v \in Q /\ v # <<>> /\ v \in Seq(Token)
  <2>1. v \in Seq(Token) /\ v # <<>>
    BY ItemsAreTokens
  <2>2. v \in Q
    <3>1. SetToSeq(S) \in Seq(Nat)
      <4>1. IsFiniteSet(S) /\ S \subseteq Nat
        BY DEF CpuLists
      <4>2. SetToSeq(S) \in Seq(S)
        BY <4>1, SetToSeqListsIt
      <4>. QED BY <4>1, <4>2, SeqMonotonic
    <3>. DEFINE z == SetToSeq(S)
                n == Len(z)
                f == [i \in 1 .. n |-> <<Number(z[i])>>]
    <3>2. n \in Nat /\ DOMAIN z = 1 .. n /\ \A i \in 1 .. n : z[i] \in Nat
      <4>. HIDE DEF z
      <4>1. z \in Seq(Nat)
        BY <3>1 DEF z
      <4>. QED BY <4>1
    <3>. HIDE DEF z, n
    <3>3. \A i \in 1 .. n : f[i] \in Q
      BY <1>2, <3>2 DEF Class
    <3>4. DOMAIN f = 1 .. n /\ f = [i \in 1 .. n |-> f[i]]
      OBVIOUS
    <3>. HIDE DEF f, Q
    <3>5. f \in Seq(Q)
      BY <3>2, <3>3, <3>4, SeqIs
    <3>6. Array(f) \in Q
      BY <1>2, <3>5, ArrayIn
    <3>. QED BY <3>2, <3>6, Zenon DEF NumberItems, f, z
  <2>. QED BY <2>1, <2>2
<1>. HIDE DEF v
<1>5. a \in Seq(Q) /\ b \in Q
  <2>1. <<"pid", "tid">> \in Seq(C)
    BY <1>3
  <2>. QED BY <1>2, <1>3, <2>1, TextsIn, TextIn
<1>. HIDE DEF a, b
<1>6. x \in Seq(Token)
  BY <1>2, <1>4, AllIsClass, FieldIn
<1>7. Around(Object(a \o <<b, x>>), x, Q, Q)
  <2>. HIDE DEF Q, C, x
  <2>. DEFINE s == a \o <<b>>
  <2>1. s \in Seq(Q)
    <3>1. <<b>> \in Seq(Q)
      BY <1>5, TuplesIn
    <3>. QED BY <1>5, <3>1, SeqsOf
  <2>2. (s \o <<x>>) \o <<>> = a \o <<b, x>>
    <3>. DEFINE T == Q \cup {x}
    <3>1. a \in Seq(T) /\ b \in T /\ x \in T
      BY <1>5, SeqMonotonic
    <3>. HIDE DEF T
    <3>. QED BY <3>1
  <2>. HIDE DEF s
  <2>3. Around(Listed((s \o <<x>>) \o <<>>), x, Q, Q)
    <3>1. <<>> \in Seq(Q)
      OBVIOUS
    <3>. QED BY <1>2, <1>6, <2>1, <3>1, AroundPart
  <2>4. Around(Listed(a \o <<b, x>>), x, Q, Q)
    BY <2>2, <2>3, Zenon
  <2>. QED BY <1>2, <1>3, <1>6, <2>4, AroundObject
<1>8. x \in Counted(EscapePattern, 1)
  <2>. DEFINE u == <<String(K), Colon>>
  <2>1. u \in Seq(Token) /\ Len(u) = 2 /\ u[1] = String(K) /\ u[2] = Colon
    BY <1>2, TokenTypes
  <2>2. String(K) # Colon
    BY DEF String, Colon, Mark
  <2>3. u \o v = x
    BY DEF Field
  <2>. HIDE DEF u
  <2>4. Hits(EscapePattern, u) = {1}
    <3>1. Hits(EscapePattern, u) = {p \in 1 .. Len(u) : u[p] = String(K)}
      BY <2>1, HitsAre
    <3>. HIDE DEF K
    <3>. QED BY <2>1, <2>2, <3>1
  <2>5. u \in Counted(EscapePattern, 1)
    BY <2>1, <2>4, FS_Singleton DEF Counted, Tidy
  <2>6. v \in Counted(EscapePattern, 0)
    BY <1>4, NoneCounted
  <2>7. u \o v \in Counted(EscapePattern, 1 + 0) /\ 1 + 0 = 1
    <3>. HIDE DEF x
    <3>. QED BY <2>5, <2>6, CountedJoin
  <2>. QED BY <2>3, <2>7, Zenon
<1>. HIDE DEF x
<1>9. Object(a \o <<b, x>>) \in Counted(EscapePattern, 1)
  BY <1>7, <1>8, NoneCounted, AroundCounted
<1>10. EscapeRow(S) = Object(a \o <<b, x>>)
  BY Zenon DEF EscapeRow, a, b, x, v, Numbers, NumberItems
<1>. QED BY <1>9, <1>10

(* The row of an event is counted once if it is a warning.                 *)
LEMMA SeverityCounted ==
  ASSUME NEW s \in {"error", "warning", "info"}
  PROVE  /\ Text("severity", s) \in Seq(Token)
         /\ Text("severity", s) \in Counted(WarningPattern, IF s = "warning" THEN 1 ELSE 0)
<1>. DEFINE k == String("severity")
            w == String("warning")
            z == String(s)
            x == Text("severity", s)
<1>1. k \in Token /\ z \in Token /\ Colon \in Token
  <2>1. "severity" \in Phrase /\ s \in Phrase
    BY DEF Phrase, SearchedKeys, Common, AttestationNames
  <2>. QED BY <2>1, TokenTypes
<1>2. k # Colon /\ z # Colon /\ (z = w <=> s = "warning")
  BY DEF String, Colon, Mark
<1>3. x = <<k, Colon>> \o <<z>>
  BY DEF Text, Field
<1>. HIDE DEF k, w, z, x
<1>4. x \in Seq(Token) /\ Len(x) = 3 /\ x[1] = k /\ x[2] = Colon /\ x[3] = z
  <2>. DEFINE u == <<k, Colon>>
              v == <<z>>
  <2>1. u \in Seq(Token) /\ v \in Seq(Token)
    BY <1>1
  <2>2. Len(u) = 2 /\ u[1] = k /\ u[2] = Colon /\ Len(v) = 1 /\ v[1] = z
    OBVIOUS
  <2>3. x = u \o v
    BY <1>3
  <2>. HIDE DEF u, v
  <2>4. /\ x \in Seq(Token) /\ Len(x) = Len(u) + Len(v)
        /\ \A i \in 1 .. Len(u) : x[i] = u[i]
        /\ \A i \in 1 .. Len(v) : x[Len(u) + i] = v[i]
    BY <2>1, <2>3, Positions
  <2>. QED BY <2>2, <2>4
<1>5. Tidy(WarningPattern, x)
  <2>1. x # <<>> => x[1] # Colon /\ x[Len(x)] # Colon
    BY <1>2, <1>4
  <2>. QED BY <1>4, <2>1 DEF Tidy
<1>6. Hits(WarningPattern, x) = {p \in 1 .. Len(x) - 2 : x[p] = k /\ x[p + 1] = Colon /\ x[p + 2] = w}
  BY <1>4, HitsAre DEF k, w
<1>. DEFINE n == IF s = "warning" THEN 1 ELSE 0
<1>7. CASE s = "warning"
  <2>1. Hits(WarningPattern, x) = {1}
    BY <1>2, <1>4, <1>6, <1>7
  <2>2. n = 1
    BY <1>7
  <2>. HIDE DEF n
  <2>3. x \in Counted(WarningPattern, n)
    BY <1>4, <1>5, <2>1, <2>2, FS_Singleton DEF Counted
  <2>. QED BY <1>4, <2>3, Zenon DEF n, x
<1>8. CASE s # "warning"
  <2>1. Hits(WarningPattern, x) = {}
    BY <1>2, <1>4, <1>6, <1>8
  <2>2. n = 0
    BY <1>8
  <2>. HIDE DEF n
  <2>3. x \in Counted(WarningPattern, n)
    BY <1>4, <1>5, <2>1, <2>2, FS_EmptySet DEF Counted
  <2>. QED BY <1>4, <2>3, Zenon DEF n, x
<1>. QED BY <1>7, <1>8, Zenon

LEMMA EventRowCounted ==
  ASSUME NEW e \in EventType
  PROVE  EventRow(e) \in Counted(WarningPattern, IF e.severity = "warning" THEN 1 ELSE 0)
<1>. DEFINE Q == Unrated
            C == Phrase \ {"severity"}
            x == Text("severity", e.severity)
            n == IF e.severity = "warning" THEN 1 ELSE 0
            l == <<Text("severity", e.severity), Text("category", e.category),
                   Text("action", "any"), Text("result", e.result), Text("evidence", "any"),
                   Text("recommendation", "any")>>
<1>1. Class(Q, C) /\ Braced(Q)
  BY UnratedIsClass
<1>2. e.severity \in {"error", "warning", "info"} /\ {e.category, e.result} \subseteq C
  <2>1. {e.category, e.result} \subseteq Common
    BY EventsAre
  <2>2. Common \subseteq C
    <3>1. "severity" \in SearchedNames \cup {"severity"}
      OBVIOUS
    <3>. QED BY <3>1, SearchedClass
  <2>. QED BY <2>1, <2>2, EventsAre
<1>3. {"category", "action", "result", "evidence", "recommendation", "any"} \subseteq C
  BY DEF Phrase, Common, AttestationNames
<1>4. x \in Seq(Token) /\ x \in Counted(WarningPattern, n)
  BY <1>2, SeverityCounted
<1>5. n \in Nat
  OBVIOUS
<1>6. l[1] = x /\ DOMAIN l = 1 .. 6 /\ Len(l) = 6 /\ l = [i \in 1 .. 6 |-> l[i]]
  OBVIOUS
<1>7. \A i \in 2 .. 6 : l[i] \in Q
  <2>1. \A key \in C, s \in C : Text(key, s) \in Q
    BY <1>1, TextIn
  <2>2. l[2] = Text("category", e.category) /\ l[3] = Text("action", "any")
        /\ l[4] = Text("result", e.result) /\ l[5] = Text("evidence", "any")
        /\ l[6] = Text("recommendation", "any")
    OBVIOUS
  <2>3. \A i \in 2 .. 6 : i = 2 \/ i = 3 \/ i = 4 \/ i = 5 \/ i = 6
    OBVIOUS
  <2>. HIDE DEF l, Q, C
  <2>. QED BY <1>2, <1>3, <2>1, <2>2, <2>3
<1>. HIDE DEF l, x, n
<1>8. l \in Seq(Seq(Token))
  <2>1. \A i \in 1 .. 6 : l[i] \in Seq(Token)
    <3>1. Q \subseteq Seq(Token)
      BY DEF Unrated
    <3>. HIDE DEF Q
    <3>. QED BY <1>4, <1>6, <1>7, <3>1
  <2>. QED BY <1>6, <2>1, SeqIs
<1>. HIDE DEF Q, C
<1>9. Around(Listed(l), x, Q, Q)
  <2>1. 1 \in 1 .. Len(l) /\ \A i \in 1 .. 1 - 1 : l[i] \in Q
    BY <1>6
  <2>2. \A i \in 1 + 1 .. Len(l) : l[i] \in Q
    BY <1>6, <1>7
  <2>. QED BY <1>1, <1>6, <1>8, <2>1, <2>2, MemberAround
<1>10. Around(Object(l), x, Q, Q)
  BY <1>1, <1>3, <1>4, <1>9, AroundObject
<1>11. Object(l) \in Counted(WarningPattern, n)
  BY <1>4, <1>5, <1>10, NoneCounted, AroundCounted DEF Q
<1>12. EventRow(e) = Object(l)
  BY Zenon DEF EventRow, l
<1>. QED BY <1>11, <1>12 DEF n

LEMMA EscapeRowsCounted ==
  ASSUME NEW r, r.escapes \in Seq(CpuLists)
  PROVE  Listed(EscapeRows(r)) \in Counted(EscapePattern, Len(r.escapes))
<1>. DEFINE e == r.escapes
            n == Len(e)
            s == EscapeRows(r)
            B == 1 .. n
<1>1. n \in Nat /\ DOMAIN e = 1 .. n /\ \A i \in 1 .. n : e[i] \in CpuLists
  <2>. DEFINE c == r.escapes
  <2>1. c \in Seq(CpuLists)
    OBVIOUS
  <2>. HIDE DEF c
  <2>2. Len(c) \in Nat /\ DOMAIN c = 1 .. Len(c) /\ \A i \in 1 .. Len(c) : c[i] \in CpuLists
    BY <2>1
  <2>. QED BY <2>2, Zenon DEF c
<1>2. s = [i \in 1 .. n |-> EscapeRow(e[i])]
  <2>1. s = [i \in DOMAIN e |-> EscapeRow(e[i])]
    BY Zenon DEF EscapeRows
  <2>. HIDE DEF e, n, s
  <2>. QED BY <1>1, <2>1
<1>. HIDE DEF e, n, s
<1>3. \A i \in 1 .. n : s[i] \in Counted(EscapePattern, 1)
  BY <1>1, <1>2, EscapeRowCounted
<1>4. s \in Seq(Seq(Token)) /\ Len(s) = n
  <2>1. DOMAIN s = 1 .. n /\ s = [i \in 1 .. n |-> s[i]]
    BY <1>2
  <2>2. \A i \in 1 .. n : s[i] \in Seq(Token)
    BY <1>3 DEF Counted
  <2>. QED BY <1>1, <2>1, <2>2, SeqIs
<1>5. <<Comma>> \in Counted(EscapePattern, 0) /\ <<>> \in Counted(EscapePattern, 0)
  <2>1. "escaped_cpus" \in SearchedNames \cup {"severity"}
    BY DEF SearchedNames
  <2>2. Class(Without("escaped_cpus"), Phrase \ {"escaped_cpus"})
    BY <2>1, SearchedClass
  <2>3. <<Comma>> \in Without("escaped_cpus") /\ <<>> \in Without("escaped_cpus")
    BY <2>2 DEF Class
  <2>. QED BY <2>3, NoneCounted
<1>6. \A i \in 1 .. Len(s) : s[i] \in Counted(EscapePattern, Weight(B, i))
  BY <1>3, <1>4 DEF Weight
<1>7. Cardinality(B) = n
  BY <1>1, FS_Interval
<1>8. B \in SUBSET (1 .. Len(s))
  BY <1>4
<1>. HIDE DEF B
<1>9. Listed(s) \in Counted(EscapePattern, Cardinality(B))
  BY <1>4, <1>5, <1>6, <1>8, CountedList
<1>. QED BY <1>7, <1>9 DEF s, n, e

Warnings(E) == {e \in E : e.severity = "warning"}

LEMMA EventRowsCounted ==
  ASSUME NEW E \in SUBSET EventType, IsFiniteSet(E)
  PROVE  /\ Listed(EventRows(E)) \in Counted(WarningPattern, Cardinality(Warnings(E)))
         /\ Cardinality(Warnings(E)) \in Nat
<1>. DEFINE z == SetToSeq(E)
            n == Len(z)
            s == EventRows(E)
            B == {i \in 1 .. n : z[i].severity = "warning"}
            W == Warnings(E)
<1>1. /\ n \in Nat /\ DOMAIN z = 1 .. n /\ \A i \in 1 .. n : z[i] \in E
      /\ \A i, j \in 1 .. n : z[i] = z[j] => i = j
      /\ \A e \in E : \E i \in 1 .. n : z[i] = e
  <2>1. /\ z \in Seq(E) /\ IsInjective(z)
        /\ {z[i] : i \in 1 .. n} = E
    BY SetToSeqListsIt
  <2>. HIDE DEF z
  <2>2. n \in Nat /\ DOMAIN z = 1 .. n /\ \A i \in 1 .. n : z[i] \in E
    BY <2>1
  <2>3. \A i, j \in 1 .. n : z[i] = z[j] => i = j
    BY <2>1, <2>2 DEF IsInjective
  <2>. QED BY <2>1, <2>2, <2>3
<1>2. s = [i \in 1 .. n |-> EventRow(z[i])]
  <2>1. s = [i \in DOMAIN z |-> EventRow(z[i])]
    BY Zenon DEF EventRows
  <2>. HIDE DEF z, n, s
  <2>. QED BY <1>1, <2>1
<1>. HIDE DEF z, n, s
<1>3. \A i \in 1 .. n : s[i] \in Counted(WarningPattern, Weight(B, i))
  <2>. SUFFICES ASSUME NEW i \in 1 .. n PROVE s[i] \in Counted(WarningPattern, Weight(B, i))
    OBVIOUS
  <2>. DEFINE e == z[i]
  <2>1. e \in EventType /\ s[i] = EventRow(e)
    BY <1>1, <1>2
  <2>2. Weight(B, i) = IF e.severity = "warning" THEN 1 ELSE 0
    BY DEF Weight
  <2>. HIDE DEF e
  <2>. QED BY <2>1, <2>2, EventRowCounted, Zenon
<1>4. s \in Seq(Seq(Token)) /\ Len(s) = n
  <2>1. DOMAIN s = 1 .. n /\ s = [i \in 1 .. n |-> s[i]]
    BY <1>2
  <2>2. \A i \in 1 .. n : s[i] \in Seq(Token)
    BY <1>3 DEF Counted
  <2>. QED BY <1>1, <2>1, <2>2, SeqIs
<1>5. <<Comma>> \in Counted(WarningPattern, 0) /\ <<>> \in Counted(WarningPattern, 0)
  <2>1. <<Comma>> \in Unrated /\ <<>> \in Unrated
    BY UnratedIsClass DEF Class
  <2>. QED BY <2>1, NoneCounted
<1>6. B \in SUBSET (1 .. Len(s))
  BY <1>4
<1>7. IsFiniteSet(B) /\ Listed(s) \in Counted(WarningPattern, Cardinality(B))
  <2>. HIDE DEF B
  <2>. QED BY <1>3, <1>4, <1>5, <1>6, CountedList
<1>8. Cardinality(B) = Cardinality(W)
  <2>. DEFINE f == [i \in B |-> z[i]]
  <2>0. W = {e \in E : e.severity = "warning"}
    BY DEF Warnings
  <2>. HIDE DEF W
  <2>1. f \in [B -> W]
    BY <1>1, <2>0
  <2>2. \A i, j \in B : f[i] = f[j] => i = j
    BY <1>1
  <2>3. \A y \in W : \E i \in B : f[i] = y
    BY <1>1, <2>0
  <2>. HIDE DEF f, B
  <2>4. f \in Bijection(B, W)
    BY <2>1, <2>2, <2>3, Zenon DEF Bijection, Injection, Surjection, IsInjective
  <2>5. ExistsBijection(B, W)
    BY <2>4 DEF ExistsBijection
  <2>. QED BY <1>7, <2>5, FS_Bijection
<1>9. Cardinality(W) \in Nat
  <2>. HIDE DEF B, W
  <2>. QED BY <1>7, <1>8, FS_CardinalityType
<1>. QED BY <1>7, <1>8, <1>9 DEF s, W

(* What is counted in an attestation.                                      *)
LEMMA WarningsInAttestation ==
  ASSUME NEW p, IsPolicy(p), NEW r, IsAttested(r)
  PROVE  /\ AttestationDocument(p, r) \in Counted(WarningPattern, Cardinality(Warnings(r.events)))
         /\ IsFiniteSet(Warnings(r.events))
<1>. DEFINE Q == Unrated
            C == Phrase \ {"severity"}
            doc == AttestationDocument(p, r)
            z == Listed(EventRows(r.events))
            n == Cardinality(Warnings(r.events))
<1>1. Class(Q, C) /\ Braced(Q)
  BY UnratedIsClass
<1>2. /\ Common \cup PolicyKeys \subseteq C
      /\ {"assigned_cpus", "verdict", "exit_code", "vis_run_attestation"} \subseteq C
      /\ "escaped_cpus" \in C
  <2>1. "severity" \in SearchedNames \cup {"severity"}
    OBVIOUS
  <2>2. {"assigned_cpus", "verdict", "exit_code", "escaped_cpus"} \subseteq SearchedNames
    BY DEF SearchedNames
  <2>. QED BY <2>1, <2>2, SearchedClass
<1>3. Array(r.command) \in Q
  BY CommandIn DEF IsAttested
<1>4. r.events \in SUBSET EventType /\ IsFiniteSet(r.events)
  BY DEF IsAttested
<1>5. z \in Counted(WarningPattern, n) /\ n \in Nat
  BY <1>4, EventRowsCounted
<1>. HIDE DEF Q, C
<1>6. Around(doc, z, Q, Q)
  BY <1>1, <1>2, <1>3, RowsAround
<1>. HIDE DEF z, n, doc
<1>7. doc \in Counted(WarningPattern, n)
  BY <1>5, <1>6, NoneCounted, AroundCounted DEF Q
<1>8. IsFiniteSet(Warnings(r.events))
  BY <1>4, FS_Subset DEF Warnings
<1>. QED BY <1>7, <1>8 DEF doc, n

LEMMA EscapesInAttestation ==
  ASSUME NEW p, IsPolicy(p), NEW r, IsAttested(r)
  PROVE  /\ \E n \in Nat : /\ AttestationDocument(p, r) \in Counted(EscapePattern, n)
                           /\ n >= Len(r.escapes)
         /\ Lacks(r, "escaped_cpus") =>
              AttestationDocument(p, r) \in Counted(EscapePattern, Len(r.escapes))
<1>. DEFINE doc == AttestationDocument(p, r)
            y == Listed(EscapeRows(r))
            n == Len(r.escapes)
            K == "escaped_cpus"
<1>1. y \in Counted(EscapePattern, n) /\ n \in Nat
  <2>1. r.escapes \in Seq(CpuLists)
    BY DEF IsAttested
  <2>2. \A e \in Seq(CpuLists) : Len(e) \in Nat
    OBVIOUS
  <2>. QED BY <2>1, <2>2, EscapeRowsCounted
<1>2. {"assigned_cpus", "verdict", "exit_code", "escaped_cpus"} \subseteq SearchedNames
  BY DEF SearchedNames
<1>3. Around(doc, y, Seq(Token), Seq(Token))
  <2>. DEFINE Q == Seq(Token)
  <2>1. Class(Q, Phrase) /\ Braced(Q)
    BY AllIsClass
  <2>2. /\ Common \cup PolicyKeys \subseteq Phrase
        /\ {"assigned_cpus", "verdict", "exit_code", "vis_run_attestation"} \subseteq Phrase
        /\ "severity" \in Phrase
    <3>1. "escaped_cpus" \in SearchedNames /\ "severity" \in SearchedNames \cup {"severity"}
      BY <1>2
    <3>. QED BY <1>2, <3>1, SearchedClass
  <2>3. Array(r.command) \in Q
    BY CommandIn DEF IsAttested
  <2>. HIDE DEF Q
  <2>4. Around(doc, y, Q, Q)
    BY <2>1, <2>2, <2>3, RowsAround
  <2>. QED BY <2>4 DEF Q
<1>4. ASSUME Lacks(r, K) PROVE Around(doc, y, Without(K), Without(K))
  <2>. DEFINE Q == Without(K)
              C == Phrase \ {K}
  <2>1. K \in SearchedNames \cup {"severity"} /\ "severity" # K
    BY <1>2
  <2>2. /\ K \in Phrase /\ K # "any" /\ Class(Q, C) /\ Braced(Q) /\ Common \cup PolicyKeys \subseteq C
        /\ {"assigned_cpus", "verdict", "exit_code", "vis_run_attestation"} \subseteq C
        /\ "severity" \in C
    <3>1. {"assigned_cpus", "verdict", "exit_code"} \subseteq C
      BY <1>2, <2>1, SearchedClass
    <3>. QED BY <2>1, <3>1, SearchedClass
  <2>3. Array(r.command) \in Q
    <3>1. r.command \in Seq(Words)
      BY DEF IsAttested
    <3>. QED BY <1>4, <2>2, <3>1, CommandIn DEF Lacks
  <2>. HIDE DEF Q, C, K
  <2>4. Around(doc, y, Q, Q)
    BY <2>2, <2>3, RowsAround
  <2>. QED BY <2>4 DEF Q
<1>. HIDE DEF doc, y, n
<1>5. ASSUME Lacks(r, K) PROVE doc \in Counted(EscapePattern, n)
  BY <1>1, <1>4, <1>5, NoneCounted, AroundCounted
<1>6. \E k \in Nat : doc \in Counted(EscapePattern, k) /\ k >= n
  <2>1. PICK a \in Seq(Token), b \in Seq(Token) : doc = (a \o y) \o b
    BY <1>3 DEF Around, Split
  <2>2. Tidy(EscapePattern, a) /\ Tidy(EscapePattern, b)
    BY DEF Tidy
  <2>3. PICK i \in Nat : a \in Counted(EscapePattern, i)
    BY <2>2, AnyCounted
  <2>4. PICK j \in Nat : b \in Counted(EscapePattern, j)
    BY <2>2, AnyCounted
  <2>. DEFINE c == a \o y
  <2>5. c \in Counted(EscapePattern, i + n) /\ i + n \in Nat
    BY <1>1, <2>3, CountedJoin
  <2>. HIDE DEF c
  <2>6. c \o b \in Counted(EscapePattern, (i + n) + j) /\ (i + n) + j \in Nat /\ (i + n) + j >= n
    BY <1>1, <2>4, <2>5, CountedJoin
  <2>. QED BY <2>1, <2>6 DEF c
<1>. QED BY <1>5, <1>6 DEF doc, n, K

(* A part of a document that goes beyond the last occurrence counts as     *)
(* many as the whole.                                                      *)
LEMMA PartCounts ==
  ASSUME NEW doc \in Seq(Token), NEW text, PartOf(text, doc), NEW k \in Nat, k + 1 < Len(text),
         doc[k + 1] # Colon,
         \A i \in k + 1 .. Len(doc) :
           doc[i] # String("escaped_cpus") /\ doc[i] # String("severity")
  PROVE  /\ Hits(EscapePattern, text) = Hits(EscapePattern, doc)
         /\ Hits(WarningPattern, text) = Hits(WarningPattern, doc)
<1>1. /\ text \in Seq(Token) /\ Len(text) \in Nat /\ Len(doc) \in Nat
      /\ Len(text) <= Len(doc)
  BY DEF PartOf
<1>. DEFINE e == String("escaped_cpus")
            s == String("severity")
            w == String("warning")
<1>2. \A i \in 1 .. Len(text) :
        /\ text[i] = e => doc[i] = e
        /\ text[i] = s => doc[i] = s
        /\ text[i] = w => doc[i] = w
        /\ text[i] = Colon <=> doc[i] = Colon
        /\ i < Len(text) => text[i] = doc[i]
  <2>. SUFFICES ASSUME NEW i \in 1 .. Len(text)
                PROVE  /\ text[i] = e => doc[i] = e
                       /\ text[i] = s => doc[i] = s
                       /\ text[i] = w => doc[i] = w
                       /\ text[i] = Colon <=> doc[i] = Colon
                       /\ i < Len(text) => text[i] = doc[i]
    OBVIOUS
  <2>1. /\ \A m : text[i] = Mark(m) <=> doc[i] = Mark(m)
        /\ \A m : text[i] = String(m) => text[i] = doc[i]
        /\ i < Len(text) => text[i] = doc[i]
    BY PartHits
  <2>2. text[i] = Colon <=> doc[i] = Colon
    BY <2>1 DEF Colon
  <2>. QED BY <2>1, <2>2
<1>3. /\ Hits(EscapePattern, text) = {p \in 1 .. Len(text) : text[p] = e}
      /\ Hits(EscapePattern, doc) = {p \in 1 .. Len(doc) : doc[p] = e}
      /\ Hits(WarningPattern, text) =
           {p \in 1 .. Len(text) - 2 : text[p] = s /\ text[p + 1] = Colon /\ text[p + 2] = w}
      /\ Hits(WarningPattern, doc) =
           {p \in 1 .. Len(doc) - 2 : doc[p] = s /\ doc[p + 1] = Colon /\ doc[p + 2] = w}
  BY <1>1, HitsAre
<1>4. \A i \in k + 1 .. Len(doc) : doc[i] # e /\ doc[i] # s
  OBVIOUS
<1>. HIDE DEF e, s, w
<1>5. ASSUME NEW p \in 1 .. Len(text), text[p] = e PROVE p \in 1 .. Len(doc) /\ doc[p] = e
  BY <1>1, <1>2, <1>5
<1>6. ASSUME NEW p \in 1 .. Len(doc), doc[p] = e PROVE p \in 1 .. Len(text) /\ text[p] = e
  <2>1. p <= k
    BY <1>1, <1>4, <1>6
  <2>. QED BY <1>1, <1>2, <1>6, <2>1
<1>7. ASSUME NEW p \in 1 .. Len(text) - 2,
             text[p] = s, text[p + 1] = Colon, text[p + 2] = w
      PROVE  /\ p \in 1 .. Len(doc) - 2
             /\ doc[p] = s /\ doc[p + 1] = Colon /\ doc[p + 2] = w
  <2>1. p \in 1 .. Len(text) /\ p + 1 \in 1 .. Len(text) /\ p + 2 \in 1 .. Len(text)
        /\ p \in 1 .. Len(doc) - 2
    BY <1>1
  <2>. QED BY <1>2, <1>7, <2>1
<1>8. ASSUME NEW p \in 1 .. Len(doc) - 2,
             doc[p] = s, doc[p + 1] = Colon, doc[p + 2] = w
      PROVE  /\ p \in 1 .. Len(text) - 2
             /\ text[p] = s /\ text[p + 1] = Colon /\ text[p + 2] = w
  <2>1. p <= k
    BY <1>1, <1>4, <1>8
  <2>2. p # k
    BY <1>8
  <2>3. p \in 1 .. Len(text) /\ p + 1 \in 1 .. Len(text) /\ p + 2 \in 1 .. Len(text)
        /\ p \in 1 .. Len(text) - 2 /\ p + 2 < Len(text) /\ p + 1 < Len(text) /\ p < Len(text)
    BY <1>1, <2>1, <2>2
  <2>. QED BY <1>2, <1>8, <2>3
<1>. QED BY <1>3, <1>5, <1>6, <1>7, <1>8

(* What stands behind the last field that is counted.                      *)
Uncounted == Token \ {String("escaped_cpus"), String("severity")}

LEMMA UncountedIsClass ==
  /\ Class(Seq(Uncounted), Phrase \ {"escaped_cpus", "severity"})
  /\ Braced(Seq(Uncounted))
<1>. DEFINE C == Phrase \ {"escaped_cpus", "severity"}
            X == Uncounted
<1>1. \A t \in Token : t.kind # "string" => t \in X
  BY DEF Uncounted, String
<1>2. /\ \A m : Mark(m).kind = "mark"
      /\ \A n : Number(n).kind = "number" /\ \A b : Word(b).kind = "word" /\ Broken.kind = "broken"
  BY DEF Mark, Number, Word, Broken
<1>3. {Comma, Colon, OpenBracket, CloseBracket, Broken, OpenBrace, CloseBrace} \subseteq X
  <2>. HIDE DEF X
  <2>. QED
    BY <1>1, <1>2, TokenTypes DEF Comma, Colon, OpenBrace, CloseBrace, OpenBracket, CloseBracket
<1>4. \A s \in C : String(s) \in X
  <2>1. \A s, m : String(s) = String(m) => s = m
    BY DEF String
  <2>. QED BY <2>1, TokenTypes DEF Uncounted
<1>5. /\ \A n \in Nat : Number(n) \in X
      /\ \A b \in BOOLEAN : Word(b) \in X
  <2>. HIDE DEF X
  <2>. QED BY <1>1, <1>2, TokenTypes
<1>6. X \in SUBSET Token /\ C \in SUBSET Phrase
  BY DEF Uncounted
<1>. HIDE DEF X, C
<1>7. Class(Seq(X), C)
  BY <1>3, <1>4, <1>5, <1>6, SeqIsClass
<1>8. Braced(Seq(X))
  BY <1>3 DEF Braced
<1>. QED BY <1>7, <1>8 DEF X, C

(* Where the verdict is read, all that is counted was read.                *)
LEMMA VerdictIsRead ==
  ASSUME NEW p, IsPolicy(p), NEW r, IsAttested(r), Lacks(r, "verdict"),
         NEW text, PartOf(text, AttestationDocument(p, r)),
         NEW v \in StringField(text, "verdict")
  PROVE  /\ v = Verdict(r)
         /\ Hits(EscapePattern, text) = Hits(EscapePattern, AttestationDocument(p, r))
         /\ Hits(WarningPattern, text) = Hits(WarningPattern, AttestationDocument(p, r))
<1>. DEFINE doc == AttestationDocument(p, r)
            K == "verdict"
            V == Verdict(r)
            R == Seq(Uncounted)
            x == Text(K, V)
<1>1. Class(R, Phrase \ {"escaped_cpus", "severity"}) /\ Braced(R)
  BY UncountedIsClass
<1>2. V \in Phrase /\ V # "severity" /\ V # "escaped_cpus" /\ K \in Phrase
  <2>1. V \in Common /\ V \notin {"severity", "warning"}
    BY VerdictsAre
  <2>2. "escaped_cpus" \in SearchedNames \cup {"severity"} /\ K \in SearchedNames \cup {"severity"}
    BY DEF SearchedNames
  <2>3. Common \subseteq Phrase \ {"escaped_cpus"} /\ K \in Phrase
    BY <2>2, SearchedClass
  <2>. HIDE DEF V
  <2>. QED BY <2>1, <2>3
<1>3. doc \in Seq(Token)
  BY AttestationTokens
<1>. HIDE DEF V
<1>4. String(K) \in Token /\ String(V) \in Token /\ Colon \in Token
      /\ String(K) # Colon
      /\ \A k \in {"escaped_cpus", "severity"} :
           String(K) # String(k) /\ Colon # String(k) /\ String(V) # String(k)
  <2>1. \A s, m : String(s) = String(m) => s = m
    BY DEF String
  <2>2. \A s, m : String(s) # Mark(m)
    BY DEF String, Mark
  <2>. QED BY <1>2, <2>1, <2>2, TokenTypes DEF Colon
<1>5. x = <<String(K), Colon>> \o <<String(V)>>
  BY DEF Text, Field
<1>6. x \in Seq(Token) /\ Len(x) = 3 /\ x[1] = String(K) /\ x[2] = Colon /\ x[3] = String(V)
  <2>. DEFINE y == <<String(K), Colon>>
              z == <<String(V)>>
  <2>1. y \in Seq(Token) /\ z \in Seq(Token)
    BY <1>4
  <2>2. Len(y) = 2 /\ y[1] = String(K) /\ y[2] = Colon /\ Len(z) = 1 /\ z[1] = String(V)
    OBVIOUS
  <2>. HIDE DEF x
  <2>3. x = y \o z
    BY <1>5
  <2>. HIDE DEF y, z
  <2>4. /\ x \in Seq(Token) /\ Len(x) = Len(y) + Len(z)
        /\ \A i \in 1 .. Len(y) : x[i] = y[i]
        /\ \A i \in 1 .. Len(z) : x[Len(y) + i] = z[i]
    BY <2>1, <2>3, Positions
  <2>. QED BY <2>2, <2>4
<1>7. PICK a \in Without(K), b \in R : Split(doc, a, x, b)
  <2>1. Around(doc, x, Without(K), R)
    BY <1>1, VerdictAround DEF V
  <2>. HIDE DEF doc, x, R, K
  <2>. QED BY <2>1 DEF Around
<1>8. Stands(doc, K, Len(a) + 3, <<String(V)>>)
  <2>1. Split(AttestationDocument(p, r), a, Text("verdict", Verdict(r)), b)
    BY <1>7 DEF V
  <2>. HIDE DEF doc, R
  <2>. QED BY <1>1, <2>1, VerdictAround DEF V, doc
<1>. HIDE DEF doc, x, R
<1>9. StringField(doc, K) = {V} /\ ValueStart(doc, K) = {Len(a) + 3}
  <2>1. String(V).kind = "string" /\ String(V).text = V
    BY DEF String
  <2>2. StringField(doc, K) = {String(V).text}
    <3>. DEFINE t == String(V)
    <3>. DEFINE q == Len(a) + 3
    <3>1. Stands(doc, K, q, <<t>>)
      BY <1>8
    <3>2. t.kind = "string"
      BY <2>1
    <3>. HIDE DEF t, K, q
    <3>3. t.kind = "string" => StringField(doc, K) = {t.text}
      BY <3>1, TokenFields
    <3>4. StringField(doc, K) = {t.text}
      BY <3>2, <3>3
    <3>. QED BY <3>4 DEF t
  <2>. QED BY <1>8, <2>1, <2>2, Zenon DEF Stands
<1>10. v = V /\ Len(a) + 3 \in 1 .. Len(text)
  <2>1. PartOf(text, doc) /\ v \in StringField(text, K)
    BY DEF doc
  <2>2. /\ StringField(text, K) \subseteq StringField(doc, K)
        /\ \A u \in StringField(text, K) :
             \E q \in ValueStart(doc, K) : q \in 1 .. Len(text) /\ text[q] = doc[q]
    BY <1>3, <2>1, PartString
  <2>. HIDE DEF K
  <2>. QED BY <1>9, <2>1, <2>2
<1>11. a \in Seq(Token) /\ b \in Seq(Token) /\ \A i \in 1 .. Len(b) : b[i] \in Uncounted
  <2>1. Others(K) \subseteq Token /\ Uncounted \subseteq Token
    BY DEF Others, Uncounted
  <2>2. a \in Seq(Others(K)) /\ b \in Seq(Uncounted)
    BY DEF Without, R
  <2>. QED BY <2>1, <2>2, SeqMonotonic
<1>. DEFINE c == a \o x
<1>12. c \in Seq(Token) /\ Len(c) = Len(a) + 3
       /\ c[Len(a) + 1] = x[1] /\ c[Len(a) + 2] = x[2] /\ c[Len(a) + 3] = x[3]
  <2>. HIDE DEF K
  <2>0. a \in Seq(Token) /\ x \in Seq(Token)
    BY <1>6, <1>11
  <2>1. /\ c \in Seq(Token) /\ Len(c) = Len(a) + Len(x)
        /\ \A i \in 1 .. Len(x) : c[Len(a) + i] = x[i]
    BY <2>0, Positions
  <2>. HIDE DEF c
  <2>. QED BY <1>6, <2>1
<1>13. doc = c \o b
  BY <1>7, Zenon DEF Split
<1>. HIDE DEF c
<1>14. /\ Len(doc) = Len(c) + Len(b) /\ \A i \in 1 .. Len(c) : doc[i] = c[i]
       /\ \A i \in 1 .. Len(b) : doc[Len(c) + i] = b[i]
  <2>1. c \in Seq(Token) /\ b \in Seq(Token)
    BY <1>11, <1>12
  <2>2. /\ Len(c \o b) = Len(c) + Len(b) /\ \A i \in 1 .. Len(c) : (c \o b)[i] = c[i]
        /\ \A i \in 1 .. Len(b) : (c \o b)[Len(c) + i] = b[i]
    BY <2>1, Positions
  <2>. QED BY <1>13, <2>2
<1>15. Len(a) \in Nat /\ Len(b) \in Nat
  BY <1>11
<1>. HIDE DEF K
<1>. DEFINE k == Len(a)
<1>16. ASSUME NEW i \in k + 1 .. Len(doc)
       PROVE  doc[i] # String("escaped_cpus") /\ doc[i] # String("severity")
  <2>1. CASE i <= k + 3
    <3>1. i = k + 1 \/ i = k + 2 \/ i = k + 3
      BY <1>15, <1>14, <2>1
    <3>2. doc[i] = c[i]
      BY <1>12, <1>14, <1>15, <3>1
    <3>. QED BY <1>4, <1>6, <1>12, <3>1, <3>2
  <2>2. CASE i > k + 3
    <3>1. i - Len(c) \in 1 .. Len(b) /\ Len(c) + (i - Len(c)) = i
      BY <1>12, <1>14, <1>15, <2>2
    <3>2. doc[i] \in Uncounted
      BY <1>11, <1>14, <3>1
    <3>. QED BY <3>2 DEF Uncounted
  <2>. QED BY <1>14, <1>15, <2>1, <2>2
<1>17. k \in Nat /\ k + 1 < Len(text) /\ doc[k + 1] # Colon
  <2>1. Len(text) \in Nat
    BY DEF PartOf
  <2>2. k + 1 \in 1 .. Len(c)
    BY <1>12, <1>15
  <2>. QED BY <1>4, <1>6, <1>10, <1>12, <1>14, <1>15, <2>1, <2>2
<1>18. PartOf(text, doc)
  BY DEF doc
<1>. HIDE DEF k
<1>19. /\ Hits(EscapePattern, text) = Hits(EscapePattern, doc)
       /\ Hits(WarningPattern, text) = Hits(WarningPattern, doc)
  BY <1>3, <1>16, <1>17, <1>18, PartCounts
<1>. QED BY <1>10, <1>19 DEF V, doc

----------------------------------------------------------------------------
(* A command line that names the verdict.  Its reader then takes what is   *)
(* behind the next colon for the verdict: no string, unless a word ends in *)
(* a colon there.                                                          *)
Verdicts == String("verdict")

Harmless ==
  {t \in Seq(Token) :
     \A c \in 1 .. Len(t) : t[c] = Colon => c < Len(t) /\ t[c + 1].kind # "string"}

Guarded ==
  {t \in Seq(Token) :
     \A c \in 1 .. Len(t) : \A k \in 1 .. c - 1 :
       t[k] = Verdicts /\ t[c] = Colon => c < Len(t) /\ t[c + 1].kind # "string"}

LEMMA GuardedJoin ==
  /\ \A a \in Guarded, b \in Harmless : a \o b \in Guarded
  /\ \A a \in Without("verdict"), b \in Guarded : a \o b \in Guarded
  /\ \A a \in Harmless, b \in Harmless : a \o b \in Harmless
  /\ Without("verdict") \subseteq Guarded
<1>0. \A a \in Without("verdict") : a \in Seq(Token) /\ \A i \in 1 .. Len(a) : a[i] # Verdicts
  <2>. SUFFICES ASSUME NEW a \in Without("verdict")
                PROVE  a \in Seq(Token) /\ \A i \in 1 .. Len(a) : a[i] # Verdicts
    OBVIOUS
  <2>1. \A i \in 1 .. Len(a) : a[i] \in Others("verdict")
    BY DEF Without
  <2>2. Others("verdict") \subseteq Token
    BY DEF Others
  <2>3. a \in Seq(Token)
    BY <2>2, SeqMonotonic DEF Without
  <2>. QED BY <2>1, <2>3 DEF Others, Verdicts
<1>1. ASSUME NEW a \in Guarded, NEW b \in Harmless PROVE a \o b \in Guarded
  <2>. DEFINE d == a \o b
  <2>1. a \in Seq(Token) /\ b \in Seq(Token)
    BY DEF Guarded, Harmless
  <2>2. /\ d \in Seq(Token) /\ Len(d) = Len(a) + Len(b)
        /\ \A i \in 1 .. Len(a) : d[i] = a[i]
        /\ \A i \in 1 .. Len(b) : d[Len(a) + i] = b[i]
    BY <2>1, Positions
  <2>3. Len(a) \in Nat /\ Len(b) \in Nat
    BY <2>1
  <2>. HIDE DEF d
  <2>4. ASSUME NEW c \in 1 .. Len(d), NEW k \in 1 .. c - 1, d[k] = Verdicts, d[c] = Colon
        PROVE  c < Len(d) /\ d[c + 1].kind # "string"
    <3>1. CASE c <= Len(a)
      <4>1. c \in 1 .. Len(a) /\ k \in 1 .. Len(a) /\ a[k] = Verdicts /\ a[c] = Colon
        BY <2>2, <2>3, <2>4, <3>1
      <4>2. c < Len(a) /\ a[c + 1].kind # "string"
        BY <4>1 DEF Guarded
      <4>3. c + 1 \in 1 .. Len(a)
        BY <2>3, <4>1, <4>2
      <4>. QED BY <2>2, <2>3, <4>2, <4>3
    <3>2. CASE c > Len(a)
      <4>. DEFINE e == c - Len(a)
      <4>1. e \in 1 .. Len(b) /\ c = Len(a) + e /\ c + 1 = Len(a) + (e + 1)
        BY <2>2, <2>3, <3>2
      <4>. HIDE DEF e
      <4>2. b[e] = Colon
        BY <2>2, <2>4, <4>1
      <4>3. e < Len(b) /\ b[e + 1].kind # "string"
        BY <4>1, <4>2 DEF Harmless
      <4>4. e + 1 \in 1 .. Len(b)
        BY <2>3, <4>1, <4>3
      <4>. QED BY <2>2, <2>3, <4>1, <4>3, <4>4
    <3>. QED BY <2>2, <2>3, <3>1, <3>2
  <2>. QED BY <2>2, <2>4 DEF Guarded, d
<1>2. ASSUME NEW a \in Without("verdict"), NEW b \in Guarded PROVE a \o b \in Guarded
  <2>. DEFINE d == a \o b
  <2>1. a \in Seq(Token) /\ b \in Seq(Token)
    BY <1>0 DEF Guarded
  <2>2. /\ d \in Seq(Token) /\ Len(d) = Len(a) + Len(b)
        /\ \A i \in 1 .. Len(a) : d[i] = a[i]
        /\ \A i \in 1 .. Len(b) : d[Len(a) + i] = b[i]
    BY <2>1, Positions
  <2>3. Len(a) \in Nat /\ Len(b) \in Nat
    BY <2>1
  <2>. HIDE DEF d
  <2>4. ASSUME NEW c \in 1 .. Len(d), NEW k \in 1 .. c - 1, d[k] = Verdicts, d[c] = Colon
        PROVE  c < Len(d) /\ d[c + 1].kind # "string"
    <3>1. k > Len(a)
      <4>1. ASSUME k <= Len(a) PROVE FALSE
        <5>1. k \in 1 .. Len(a) /\ a[k] = Verdicts
          BY <2>2, <2>3, <2>4, <4>1
        <5>. QED BY <1>0, <5>1
      <4>. QED BY <2>2, <2>3, <4>1
    <3>. DEFINE e == c - Len(a)
                h == k - Len(a)
    <3>2. /\ e \in 1 .. Len(b) /\ c = Len(a) + e /\ c + 1 = Len(a) + (e + 1)
          /\ h \in 1 .. e - 1 /\ h \in 1 .. Len(b) /\ k = Len(a) + h
      BY <2>2, <2>3, <3>1
    <3>. HIDE DEF e, h
    <3>3. b[e] = Colon /\ b[h] = Verdicts
      BY <2>2, <2>4, <3>2
    <3>4. e < Len(b) /\ b[e + 1].kind # "string"
      BY <3>2, <3>3 DEF Guarded
    <3>5. e + 1 \in 1 .. Len(b)
      BY <2>3, <3>2, <3>4
    <3>. QED BY <2>2, <2>3, <3>2, <3>4, <3>5
  <2>. QED BY <2>2, <2>4 DEF Guarded, d
<1>3. ASSUME NEW a \in Harmless, NEW b \in Harmless PROVE a \o b \in Harmless
  <2>. DEFINE d == a \o b
  <2>1. a \in Seq(Token) /\ b \in Seq(Token)
    BY DEF Harmless
  <2>2. /\ d \in Seq(Token) /\ Len(d) = Len(a) + Len(b)
        /\ \A i \in 1 .. Len(a) : d[i] = a[i]
        /\ \A i \in 1 .. Len(b) : d[Len(a) + i] = b[i]
    BY <2>1, Positions
  <2>3. Len(a) \in Nat /\ Len(b) \in Nat
    BY <2>1
  <2>. HIDE DEF d
  <2>4. ASSUME NEW c \in 1 .. Len(d), d[c] = Colon
        PROVE  c < Len(d) /\ d[c + 1].kind # "string"
    <3>1. CASE c <= Len(a)
      <4>1. c \in 1 .. Len(a) /\ a[c] = Colon
        BY <2>2, <2>3, <2>4, <3>1
      <4>2. c < Len(a) /\ a[c + 1].kind # "string"
        BY <4>1 DEF Harmless
      <4>3. c + 1 \in 1 .. Len(a)
        BY <2>3, <4>1, <4>2
      <4>. QED BY <2>2, <2>3, <4>2, <4>3
    <3>2. CASE c > Len(a)
      <4>. DEFINE e == c - Len(a)
      <4>1. e \in 1 .. Len(b) /\ c = Len(a) + e /\ c + 1 = Len(a) + (e + 1)
        BY <2>2, <2>3, <3>2
      <4>. HIDE DEF e
      <4>2. b[e] = Colon
        BY <2>2, <2>4, <4>1
      <4>3. e < Len(b) /\ b[e + 1].kind # "string"
        BY <4>1, <4>2 DEF Harmless
      <4>4. e + 1 \in 1 .. Len(b)
        BY <2>3, <4>1, <4>3
      <4>. QED BY <2>2, <2>3, <4>1, <4>3, <4>4
    <3>. QED BY <2>2, <2>3, <3>1, <3>2
  <2>. QED BY <2>2, <2>4 DEF Harmless, d
<1>4. ASSUME NEW a \in Without("verdict") PROVE a \in Guarded
  <2>1. a \in Seq(Token) /\ \A i \in 1 .. Len(a) : a[i] # Verdicts
    BY <1>0
  <2>2. Len(a) \in Nat
    BY <2>1
  <2>3. \A c \in 1 .. Len(a) : \A k \in 1 .. c - 1 : k \in 1 .. Len(a)
    BY <2>2
  <2>. QED BY <2>1, <2>3 DEF Guarded
<1>. QED BY <1>1, <1>2, <1>3, <1>4

LEMMA HarmlessTexts ==
  /\ \A t \in Token : t # Colon => <<t>> \in Harmless
  /\ \A w \in Words : w = EndsInColon \/ w \in Harmless
  /\ \A b \in BOOLEAN : Flag("started", b) \in Harmless
<1>1. ASSUME NEW t \in Token, t # Colon PROVE <<t>> \in Harmless
  <2>1. <<t>> \in Seq(Token) /\ Len(<<t>>) = 1 /\ <<t>>[1] = t
    OBVIOUS
  <2>2. \A i \in 1 .. 1 : <<t>>[i] # Colon
    BY <1>1, <2>1
  <2>. QED BY <2>1, <2>2 DEF Harmless
<1>2. /\ \A s, m : String(s) # Mark(m)
      /\ \A n, m : Number(n) # Mark(m)
      /\ \A b, m : Word(b) # Mark(m)
      /\ \A m : Broken # Mark(m)
      /\ \A n : Number(n).kind = "number" /\ \A b : Word(b).kind = "word"
      /\ Broken.kind = "broken"
  BY DEF String, Mark, Number, Word, Broken
<1>3. ASSUME NEW t \in Token, t # Colon, t.kind # "string" PROVE WithColon(t) \in Harmless
  <2>. DEFINE w == WithColon(t)
  <2>0. Broken \in Token /\ Colon \in Token
    BY TokenTypes
  <2>1. w = <<Broken, Colon, t, Broken>>
    BY DEF WithColon
  <2>2. /\ w \in Seq(Token) /\ Len(w) = 4 /\ w[1] = Broken /\ w[2] = Colon /\ w[3] = t
        /\ w[4] = Broken
    BY <2>0, <2>1
  <2>3. Broken # Colon
    BY <1>2 DEF Colon
  <2>. HIDE DEF w
  <2>4. ASSUME NEW c \in 1 .. Len(w), w[c] = Colon PROVE c < Len(w) /\ w[c + 1].kind # "string"
    <3>1. c = 2
      BY <1>3, <2>2, <2>3, <2>4
    <3>. QED BY <1>3, <2>2, <3>1
  <2>. QED BY <2>2, <2>4 DEF Harmless, w
<1>4. ASSUME NEW w \in Words PROVE w = EndsInColon \/ w \in Harmless
  <2>1. CASE w[1].text \in Phrase /\ w = Plain(w[1].text)
    <3>. DEFINE s == w[1].text
    <3>1. w = <<String(s)>> /\ s \in Phrase
      BY <2>1 DEF Plain
    <3>. HIDE DEF s
    <3>2. String(s) \in Token /\ String(s) # Colon
      BY <1>2, <3>1, TokenTypes DEF Colon
    <3>. QED BY <1>1, <3>1, <3>2
  <2>2. CASE w = WithColon(Broken)
    <3>1. Broken \in Token /\ Broken # Colon /\ Broken.kind # "string"
      BY <1>2, TokenTypes DEF Colon
    <3>. QED BY <1>3, <2>2, <3>1
  <2>3. ASSUME NEW n \in Nat, w = WithColon(Number(n)) PROVE w \in Harmless
    <3>1. Number(n) \in Token /\ Number(n) # Colon /\ Number(n).kind # "string"
      BY <1>2, TokenTypes DEF Colon
    <3>. QED BY <1>3, <2>3, <3>1
  <2>. QED BY <2>1, <2>2, <2>3, WordsAre
<1>5. ASSUME NEW b \in BOOLEAN PROVE Flag("started", b) \in Harmless
  <2>. DEFINE f == Flag("started", b)
              s == String("started")
              t == Word(b)
  <2>1. s \in Token /\ t \in Token /\ Colon \in Token
    <3>1. "started" \in Phrase
      BY DEF Phrase, Common, AttestationNames
    <3>. QED BY <3>1, TokenTypes
  <2>2. s # Colon /\ t # Colon /\ t.kind # "string"
    BY <1>2 DEF Colon
  <2>3. f = <<s, Colon>> \o <<t>>
    BY DEF Flag, Field
  <2>. HIDE DEF s, t, f
  <2>. DEFINE y == <<s, Colon>>
              z == <<t>>
  <2>4. y \in Seq(Token) /\ z \in Seq(Token)
    BY <2>1
  <2>5. Len(y) = 2 /\ y[1] = s /\ y[2] = Colon /\ Len(z) = 1 /\ z[1] = t
    OBVIOUS
  <2>6. f = y \o z
    BY <2>3
  <2>. HIDE DEF y, z
  <2>7. /\ f \in Seq(Token) /\ Len(f) = Len(y) + Len(z)
        /\ \A i \in 1 .. Len(y) : f[i] = y[i]
        /\ \A i \in 1 .. Len(z) : f[Len(y) + i] = z[i]
    BY <2>4, <2>6, Positions
  <2>8. Len(f) = 3 /\ f[1] = s /\ f[2] = Colon /\ f[3] = t
    BY <2>5, <2>7
  <2>9. ASSUME NEW c \in 1 .. Len(f), f[c] = Colon PROVE c < Len(f) /\ f[c + 1].kind # "string"
    <3>1. c = 2
      BY <2>2, <2>8, <2>9
    <3>. QED BY <2>2, <2>8, <3>1
  <2>. QED BY <2>7, <2>9 DEF Harmless, f
<1>. QED BY <1>1, <1>4, <1>5

Misled(s) == \E i, j \in DOMAIN s : i < j /\ s[i] = Plain("verdict") /\ s[j] = EndsInColon

LEMMA CommandGuarded ==
  \A s \in Seq(Words) : ~Misled(s) => Listed(s) \in Guarded
<1>. DEFINE G == {n \in Nat : \A s \in Seq(Words) : Len(s) = n /\ ~Misled(s) => Listed(s) \in Guarded}
            K == "verdict"
<1>0. /\ K \in Phrase /\ K # "any" /\ Class(Without(K), Phrase \ {K})
      /\ <<Comma>> \in Without(K) /\ <<>> \in Without(K)
  <2>1. K \in SearchedNames \cup {"severity"}
    BY DEF SearchedNames
  <2>2. K \in Phrase /\ K # "any" /\ Class(Without(K), Phrase \ {K})
    BY <2>1, SearchedClass
  <2>. QED BY <2>2 DEF Class
<1>1. 0 \in G
  <2>1. \A s \in Seq(Words) : Len(s) = 0 => s = <<>>
    BY EmptySeq
  <2>2. <<>> \in Guarded
    BY <1>0, GuardedJoin
  <2>. QED BY <2>1, <2>2, ListedEmpty
<1>. HIDE DEF K
<1>2. ASSUME NEW n \in Nat, n \in G PROVE n + 1 \in G
  <2>. SUFFICES ASSUME NEW s \in Seq(Words), Len(s) = n + 1, ~Misled(s)
                PROVE  Listed(s) \in Guarded
    OBVIOUS
  <2>. DEFINE t == SubSeq(s, 1, Len(s) - 1)
              x == s[Len(s)]
  <2>1. s # <<>>
    BY EmptySeq
  <2>2. t \in Seq(Words) /\ Len(t) = n /\ x \in Words /\ s = Append(t, x) /\ x = s[n + 1]
    BY <2>1, SequenceGrows
  <2>. HIDE DEF t, x
  <2>3. DOMAIN s = 1 .. n + 1 /\ DOMAIN t = 1 .. n /\ \A i \in 1 .. n : t[i] = s[i]
    BY <2>2
  <2>4. ~Misled(t)
    <3>1. \A i \in 1 .. n : i \in 1 .. n + 1
      OBVIOUS
    <3>. QED BY <2>3, <3>1 DEF Misled
  <2>5. Listed(t) \in Guarded
    BY <1>2, <2>2, <2>4
  <2>6. \A w \in Words : w \in Seq(Token)
    BY WordsAre
  <2>7. t \in Seq(Seq(Token)) /\ x \in Seq(Token)
    <3>1. Words \subseteq Seq(Token)
      BY <2>6
    <3>. QED BY <2>2, <3>1, SeqMonotonic
  <2>8. Listed(s) = IF t = <<>> THEN x ELSE Listed(t) \o (<<Comma>> \o x)
    BY <2>2, <2>7, ListedAppend
  <2>9. <<Comma>> \in Harmless
    <3>1. Comma \in Token /\ Comma # Colon
      BY TokenTypes DEF Comma, Colon, Mark
    <3>. QED BY <3>1, HarmlessTexts
  <2>10. CASE x = EndsInColon
    <3>1. x # Plain(K)
      <4>1. Plain(K)[1].kind = "string" /\ EndsInColon[1].kind = "broken"
        BY DEF Plain, EndsInColon, String, Broken
      <4>. QED BY <2>10, <4>1
    <3>2. x \in Without(K)
      BY <1>0, <2>2, <3>1, WordWithout
    <3>3. Listed(t) \in Without(K)
      <4>1. \A i \in 1 .. n : s[i] # Plain(K) /\ i \in 1 .. n + 1 /\ i < n + 1 /\ n + 1 \in 1 .. n + 1
        <5>. SUFFICES ASSUME NEW i \in 1 .. n, s[i] = Plain(K) PROVE FALSE
          OBVIOUS
        <5>1. i \in DOMAIN s /\ n + 1 \in DOMAIN s /\ i < n + 1
          BY <2>3
        <5>. QED BY <2>2, <2>10, <5>1 DEF Misled, K
      <4>2. \A i \in 1 .. n : t[i] \in Words /\ t[i] # Plain(K)
        BY <2>2, <2>3, <4>1
      <4>3. \A i \in 1 .. n : t[i] \in Without(K)
        BY <1>0, <4>2, WordWithout
      <4>4. t = [i \in 1 .. n |-> t[i]]
        BY <2>2, <2>3
      <4>. DEFINE W == Without(K)
      <4>5. \A i \in 1 .. n : t[i] \in W
        BY <4>3
      <4>. HIDE DEF W
      <4>6. t \in Seq(W)
        BY <2>3, <4>4, <4>5, SeqIs
      <4>. QED BY <1>0, <4>6, ListedIn DEF W
    <3>4. Listed(s) \in Without(K)
      <4>1. <<Comma>> \o x \in Without(K)
        BY <1>0, <3>2 DEF Class
      <4>2. Listed(t) \o (<<Comma>> \o x) \in Without(K)
        BY <1>0, <3>3, <4>1 DEF Class
      <4>. QED BY <2>8, <3>2, <4>2
    <3>. QED BY <3>4, GuardedJoin DEF K
  <2>11. CASE x # EndsInColon
    <3>1. x \in Harmless
      BY <2>2, <2>11, HarmlessTexts
    <3>2. <<Comma>> \o x \in Harmless
      BY <2>9, <3>1, GuardedJoin
    <3>3. Listed(t) \o (<<Comma>> \o x) \in Guarded
      BY <2>5, <3>2, GuardedJoin
    <3>4. x \in Guarded
      <4>1. <<>> \o x \in Guarded
        <5>1. <<>> \in Guarded
          BY <1>0, GuardedJoin DEF K
        <5>. QED BY <3>1, <5>1, GuardedJoin
      <4>2. <<>> \o x = x
        BY <2>7
      <4>. QED BY <4>1, <4>2
    <3>. QED BY <2>8, <3>3, <3>4
  <2>. QED BY <2>10, <2>11
<1>. HIDE DEF G
<1>3. \A n \in Nat : n \in G
  BY <1>1, <1>2, Induction
<1>4. \A s \in Seq(Words) : Len(s) \in Nat
  OBVIOUS
<1>. QED BY <1>3, <1>4 DEF G

(* The text from the command line to the field behind it.                  *)
CommandText(r) == Argv(r) \o (<<Comma>> \o Flag("started", ~r.dry_run))

LEMMA StartedHarmless ==
  ASSUME NEW r, IsAttested(r)
  PROVE  /\ Flag("started", ~r.dry_run) \in Harmless
         /\ Flag("started", ~r.dry_run)[2] = Colon /\ Len(Flag("started", ~r.dry_run)) = 3
<1>. DEFINE f == Flag("started", ~r.dry_run)
<1>1. \E b \in BOOLEAN : f = Flag("started", b)
  <2>1. r.dry_run \in BOOLEAN
    BY DEF IsAttested
  <2>2. CASE r.dry_run
    <3>1. f = Flag("started", FALSE)
      BY <2>2 DEF Flag, Word
    <3>. HIDE DEF f
    <3>. QED BY <3>1
  <2>3. CASE ~r.dry_run
    <3>1. f = Flag("started", TRUE)
      BY <2>3 DEF Flag, Word
    <3>. HIDE DEF f
    <3>. QED BY <3>1
  <2>. QED BY <2>1, <2>2, <2>3
<1>. HIDE DEF f
<1>2. PICK b \in BOOLEAN : f = Flag("started", b)
  BY <1>1
<1>. DEFINE s == String("started")
            t == Word(b)
            y == <<s, Colon>>
            z == <<t>>
<1>3. s \in Token /\ t \in Token /\ Colon \in Token
  <2>1. "started" \in Phrase
    BY DEF Phrase, Common, AttestationNames
  <2>. QED BY <2>1, TokenTypes
<1>4. f = y \o z
  BY <1>2 DEF Flag, Field
<1>. HIDE DEF s, t
<1>5. y \in Seq(Token) /\ z \in Seq(Token)
  BY <1>3
<1>6. Len(y) = 2 /\ y[2] = Colon /\ Len(z) = 1
  OBVIOUS
<1>. HIDE DEF y, z
<1>7. Len(f) = Len(y) + Len(z) /\ \A i \in 1 .. Len(y) : f[i] = y[i]
  <2>1. /\ Len(y \o z) = Len(y) + Len(z)
        /\ \A i \in 1 .. Len(y) : (y \o z)[i] = y[i]
    BY <1>5, Positions
  <2>. QED BY <1>4, <2>1
<1>8. f[2] = Colon /\ Len(f) = 3
  BY <1>6, <1>7
<1>9. f \in Harmless
  BY <1>2, HarmlessTexts
<1>. QED BY <1>8, <1>9 DEF f

LEMMA CommandTextIs ==
  ASSUME NEW r, IsAttested(r)
  PROVE  /\ Argv(r) \in Seq(Token) /\ CommandText(r) \in Seq(Token)
         /\ ~Misled(r.command) => CommandText(r) \in Guarded
         /\ ~Lacks(r, "verdict") => \E k \in 1 .. Len(Argv(r)) : Argv(r)[k] = Verdicts
<1>. DEFINE s == r.command
            K == "verdict"
            l == Listed(s)
            o == <<String("argv"), Colon>>
            f == Flag("started", ~r.dry_run)
<1>1. s \in Seq(Words)
  BY DEF IsAttested
<1>2. s \in Seq(Seq(Token)) /\ l \in Seq(Token)
  <2>1. s \in Seq(Seq(Token))
    BY <1>1, CommandIn
  <2>. QED BY <2>1, AllIsClass, ListedIn
<1>3. /\ String("argv") \in Token /\ Colon \in Token /\ OpenBracket \in Token /\ Comma \in Token
      /\ CloseBracket \in Token
      /\ OpenBracket # Colon /\ CloseBracket # Colon /\ Comma # Colon
  <2>1. "argv" \in Phrase
    BY DEF Phrase, Common, AttestationNames
  <2>2. OpenBracket # Colon /\ CloseBracket # Colon /\ Comma # Colon
    BY DEF OpenBracket, CloseBracket, Comma, Colon, Mark
  <2>. QED BY <2>1, <2>2, TokenTypes
<1>4. Argv(r) = o \o ((<<OpenBracket>> \o l) \o <<CloseBracket>>)
  BY DEF Argv, Field, Array
<1>5. f \in Harmless /\ f \in Seq(Token)
  BY StartedHarmless DEF Harmless
<1>6. /\ Class(Without(K), Phrase \ {K}) /\ K \in Phrase
      /\ <<OpenBracket>> \in Without(K) /\ o \in Without(K)
  <2>1. K \in SearchedNames \cup {"severity"}
    BY DEF SearchedNames
  <2>2. Class(Without(K), Phrase \ {K}) /\ K \in Phrase
    BY <2>1, SearchedClass
  <2>3. <<OpenBracket>> \in Without(K)
    BY <2>2 DEF Class
  <2>4. String("argv") # String(K) /\ Colon # String(K)
    BY DEF String, Colon, Mark
  <2>5. String("argv") \in Others(K) /\ Colon \in Others(K)
    BY <1>3, <2>4 DEF Others
  <2>6. o \in Without(K)
    BY <2>5, TuplesIn DEF Without
  <2>. QED BY <2>2, <2>3, <2>6
<1>7. o \in Seq(Token) /\ <<OpenBracket>> \in Seq(Token) /\ <<CloseBracket>> \in Seq(Token)
      /\ <<Comma>> \in Seq(Token)
  BY <1>3
<1>8. <<CloseBracket>> \in Harmless /\ <<Comma>> \in Harmless
  BY <1>3, HarmlessTexts
<1>. DEFINE b1 == <<OpenBracket>>
            b2 == <<CloseBracket>>
            m == <<Comma>>
<1>. HIDE DEF o, b1, b2, m, l, f
<1>9. /\ b1 \in Seq(Token) /\ b2 \in Seq(Token) /\ m \in Seq(Token) /\ o \in Seq(Token)
      /\ b2 \in Harmless /\ m \in Harmless /\ b1 \in Without(K)
      /\ Argv(r) = o \o ((b1 \o l) \o b2)
  BY <1>4, <1>6, <1>7, <1>8 DEF b1, b2, m
<1>10. Argv(r) \in Seq(Token) /\ CommandText(r) \in Seq(Token)
  <2>1. b1 \o l \in Seq(Token)
    BY <1>2, <1>9, SeqsOf
  <2>2. (b1 \o l) \o b2 \in Seq(Token)
    BY <1>9, <2>1, SeqsOf
  <2>3. o \o ((b1 \o l) \o b2) \in Seq(Token)
    BY <1>9, <2>2, SeqsOf
  <2>4. m \o f \in Seq(Token)
    BY <1>5, <1>9, SeqsOf
  <2>5. Argv(r) \o (m \o f) \in Seq(Token)
    BY <1>9, <2>3, <2>4, SeqsOf
  <2>. QED BY <1>9, <2>3, <2>5 DEF CommandText, m, f
<1>11. ASSUME ~Misled(s) PROVE CommandText(r) \in Guarded
  <2>1. l \in Guarded
    BY <1>1, <1>11, CommandGuarded DEF l
  <2>2. b1 \o l \in Guarded
    BY <1>9, <2>1, GuardedJoin DEF K
  <2>3. (b1 \o l) \o b2 \in Guarded
    BY <1>9, <2>2, GuardedJoin
  <2>4. o \o ((b1 \o l) \o b2) \in Guarded
    BY <1>6, <2>3, GuardedJoin DEF K
  <2>5. m \o f \in Harmless
    BY <1>5, <1>9, GuardedJoin
  <2>6. Argv(r) \o (m \o f) \in Guarded
    BY <1>9, <2>4, <2>5, GuardedJoin
  <2>. QED BY <2>6 DEF CommandText, m, f
<1>12. ASSUME ~Lacks(r, K) PROVE \E k \in 1 .. Len(Argv(r)) : Argv(r)[k] = Verdicts
  <2>1. PICK i \in DOMAIN s : s[i] = Plain(K)
    BY <1>12 DEF Lacks
  <2>2. i \in 1 .. Len(s)
    BY <1>1
  <2>3. Around(l, Plain(K), Seq(Token), Seq(Token))
    <3>. DEFINE Q == Seq(Token)
    <3>1. Class(Q, Phrase)
      BY AllIsClass
    <3>2. \A j \in 1 .. Len(s) : s[j] \in Q
      BY <1>2
    <3>3. (\A j \in 1 .. i - 1 : s[j] \in Q) /\ \A j \in i + 1 .. Len(s) : s[j] \in Q
      BY <1>2, <2>2, <3>2
    <3>. HIDE DEF Q
    <3>. DEFINE S == s
    <3>4. S \in Seq(Seq(Token)) /\ i \in 1 .. Len(S) /\ S[i] = Plain(K)
          /\ (\A j \in 1 .. i - 1 : S[j] \in Q) /\ \A j \in i + 1 .. Len(S) : S[j] \in Q
      BY <1>2, <2>1, <2>2, <3>3
    <3>. HIDE DEF S
    <3>5. Around(Listed(S), S[i], Q, Q)
      BY <3>1, <3>4, MemberAround
    <3>. QED BY <3>4, <3>5 DEF Q, S, l
  <2>4. PICK a \in Seq(Token), b \in Seq(Token) : l = (a \o Plain(K)) \o b
    BY <2>3 DEF Around, Split
  <2>. DEFINE x == Plain(K)
  <2>5. x \in Seq(Token) /\ Len(x) = 1 /\ x[1] = Verdicts
    <3>1. String(K) \in Token
      BY <1>6, TokenTypes
    <3>. QED BY <3>1 DEF Plain, Verdicts
  <2>. HIDE DEF x
  <2>. DEFINE y == a \o x
  <2>6. y \in Seq(Token) /\ Len(y) = Len(a) + 1 /\ y[Len(a) + 1] = Verdicts
    <3>0. a \in Seq(Token) /\ x \in Seq(Token)
      BY <2>5
    <3>1. /\ y \in Seq(Token) /\ Len(y) = Len(a) + Len(x)
          /\ \A j \in 1 .. Len(x) : y[Len(a) + j] = x[j]
      BY <3>0, Positions
    <3>. HIDE DEF y
    <3>. QED BY <2>5, <3>1
  <2>7. l = y \o b
    BY <2>4 DEF x
  <2>. HIDE DEF y
  <2>8. \E k \in 1 .. Len(l) : l[k] = Verdicts
    <3>1. /\ Len(y \o b) = Len(y) + Len(b)
          /\ \A j \in 1 .. Len(y) : (y \o b)[j] = y[j]
      BY <2>6, Positions
    <3>2. Len(a) \in Nat /\ Len(b) \in Nat
      OBVIOUS
    <3>3. Len(a) + 1 \in 1 .. Len(y) /\ Len(a) + 1 \in 1 .. Len(y) + Len(b)
      BY <2>6, <3>2
    <3>. QED BY <2>6, <2>7, <3>1, <3>3
  <2>9. PICK k \in 1 .. Len(l) : l[k] = Verdicts
    BY <2>8
  <2>. DEFINE c == b1 \o l
              d == c \o b2
              g == o \o d
  <2>10. /\ c \in Seq(Token) /\ Len(c) = Len(b1) + Len(l)
         /\ \A j \in 1 .. Len(l) : c[Len(b1) + j] = l[j]
    <3>1. b1 \in Seq(Token) /\ l \in Seq(Token)
      BY <1>2, <1>9
    <3>. QED BY <3>1, Positions
  <2>. HIDE DEF c
  <2>11. /\ d \in Seq(Token) /\ Len(d) = Len(c) + Len(b2)
         /\ \A j \in 1 .. Len(c) : d[j] = c[j]
    <3>1. c \in Seq(Token) /\ b2 \in Seq(Token)
      BY <1>9, <2>10
    <3>. QED BY <3>1, Positions
  <2>. HIDE DEF d
  <2>12. /\ g \in Seq(Token) /\ Len(g) = Len(o) + Len(d)
         /\ \A j \in 1 .. Len(d) : g[Len(o) + j] = d[j]
    <3>1. o \in Seq(Token) /\ d \in Seq(Token)
      BY <1>9, <2>11
    <3>. QED BY <3>1, Positions
  <2>. HIDE DEF g
  <2>13. /\ Len(l) \in Nat /\ Len(b1) \in Nat /\ Len(b2) \in Nat /\ Len(o) \in Nat
    BY <1>2, <1>9
  <2>14. Len(b1) + k \in 1 .. Len(c) /\ c[Len(b1) + k] = Verdicts
    BY <2>9, <2>10, <2>13
  <2>15. Len(b1) + k \in 1 .. Len(d) /\ d[Len(b1) + k] = Verdicts
    BY <2>10, <2>11, <2>13, <2>14
  <2>16. Len(o) + (Len(b1) + k) \in 1 .. Len(g) /\ g[Len(o) + (Len(b1) + k)] = Verdicts
    BY <2>10, <2>11, <2>12, <2>13, <2>15
  <2>17. g = Argv(r)
    BY <1>9, Zenon DEF g, d, c
  <2>. QED BY <2>16, <2>17
<1>. QED BY <1>10, <1>11, <1>12 DEF K, s

(* The command line stands in the attestation behind text without verdict. *)
LEMMA CommandAround ==
  ASSUME NEW p, IsPolicy(p), NEW r, IsAttested(r)
  PROVE  Around(AttestationDocument(p, r), CommandText(r), Without("verdict"), Seq(Token))
<1>. DEFINE K == "verdict"
            Q == Without(K)
            C == Phrase \ {K}
            S == Seq(Token)
            l == AttestationList(p, r)
            doc == AttestationDocument(p, r)
            w == WorkloadFields(r)
            x == CommandText(r)
            f1 == Argv(r)
            f2 == Flag("started", ~r.dry_run)
            f3 == Flag("dry_run", r.dry_run)
            f4 == Flag("affinity_applied", r.applied)
            f5 == Text("status", r.status.how)
            f6 == Count("exit_code", r.exit_code)
<1>1. K \in SearchedNames \cup {"severity"} /\ K # "assigned_cpus"
  BY DEF SearchedNames
<1>2. /\ K \in Phrase /\ Class(Q, C) /\ Braced(Q) /\ "vis_run_attestation" \in C
      /\ Common \cup PolicyKeys \subseteq C
  BY <1>1, SearchedClass
<1>3. Class(S, Phrase) /\ Braced(S)
  BY AllIsClass
<1>4. \A i \in 1 .. 14 - 1 : l[i] \in Q
  <2>1. /\ \A i \in {1, 2, 3, 4, 5, 6, 8, 9, 10, 11, 12, 13, 17, 18} : l[i] \in Q
        /\ l[7] \in Q
    BY <1>1, AttestedWithout
  <2>2. \A i \in 1 .. 14 - 1 : i \in {1, 2, 3, 4, 5, 6, 8, 9, 10, 11, 12, 13, 17, 18} \cup {7}
    OBVIOUS
  <2>. HIDE DEF l, Q
  <2>. QED BY <2>1, <2>2
<1>5. \A i \in 14 + 1 .. 19 : l[i] \in S
  <2>1. l \in Seq(S)
    BY AttestationTokens
  <2>2. Len(l) = 19
    BY AttestationTokens
  <2>. HIDE DEF l, S, w, x, f1, f2, f3, f4, f5, f6, doc
  <2>3. \A i \in 1 .. Len(l) : l[i] \in S
    BY <2>1
  <2>. QED BY <2>2, <2>3
<1>6. l[14] = Field("workload", Object(w))
  BY DEF AttestationList
<1>7. "workload" \in C
  <2>1. "workload" \in AttestationNames
    BY DEF AttestationNames
  <2>. QED BY <1>2, <2>1 DEF Common
<1>8. w \in Seq(S) /\ Len(w) = 6
  BY AttestationTokens
<1>9. w = <<f1, f2, f3, f4, f5, f6>>
  BY DEF WorkloadFields
<1>10. f1 \in S /\ f2 \in S /\ x \in S /\ x = f1 \o (<<Comma>> \o f2)
  <2>1. f2 \in S
    BY StartedHarmless DEF Harmless
  <2>. QED BY <2>1, CommandTextIs DEF CommandText
<1>. HIDE DEF f1, f2, f3, f4, f5, f6, w, x, l, doc
<1>11. Around(doc, l[14], Q, S)
  <2>1. 14 \in 1 .. 19
    OBVIOUS
  <2>. HIDE DEF K, Q, C, S
  <2>. QED BY <1>2, <1>3, <1>4, <1>5, <2>1, AttestationAround DEF l, doc
<1>12. Around(Listed(w), x, Q, S)
  <2>. DEFINE u == <<f1, f2>>
              v == <<f3, f4, f5, f6>>
  <2>1. f3 \in S /\ f4 \in S /\ f5 \in S /\ f6 \in S
    <3>. HIDE DEF S
    <3>1. w \in Seq(S)
      BY <1>8
    <3>2. Len(w) = 6
      BY <1>8
    <3>3. \A i \in 1 .. Len(w) : w[i] \in S
      BY <3>1
    <3>4. w[3] \in S /\ w[4] \in S /\ w[5] \in S /\ w[6] \in S
      BY <3>2, <3>3
    <3>. QED BY <1>9, <3>4
  <2>2. w = u \o v
    BY <1>9
  <2>3. u \in Seq(S) /\ v \in Seq(S) /\ u # <<>> /\ v # <<>>
    BY <1>10, <2>1
  <2>4. Listed(u) = x
    <3>1. <<f1>> \in Seq(S) /\ <<f1>> # <<>>
      BY <1>10
    <3>2. Append(<<f1>>, f2) = u
      <4>1. ASSUME NEW T, NEW c \in T, NEW d \in T PROVE Append(<<c>>, d) = <<c, d>>
        <5>. DEFINE v1 == <<c>>
                    v2 == <<c, d>>
                    v3 == Append(v1, d)
        <5>1. v1 \in Seq(T) /\ v2 \in Seq(T) /\ Len(v1) = 1 /\ Len(v2) = 2
              /\ v1[1] = c /\ v2[1] = c /\ v2[2] = d
          OBVIOUS
        <5>. HIDE DEF v1, v2
        <5>2. v3 \in Seq(T) /\ Len(v3) = 2 /\ v3[1] = c /\ v3[2] = d
          <6>1. v1 \in Seq(T)
            BY <5>1
          <6>2. Len(v1) = 1 /\ v1[1] = c /\ 1 \in 1 .. Len(v1)
            BY <5>1
          <6>3. /\ v3 \in Seq(T) /\ Len(v3) = Len(v1) + 1
                /\ \A i \in 1 .. Len(v1) : v3[i] = v1[i]
                /\ v3[Len(v1) + 1] = d
            BY <6>1, AppendProperties
          <6>. HIDE DEF v3
          <6>. QED BY <6>2, <6>3
        <5>. HIDE DEF v3
        <5>3. v3 = v2
          BY <5>1, <5>2, SeqEqual
        <5>. QED BY <5>3 DEF v1, v2, v3
      <4>. QED BY <1>10, <4>1
    <3>3. Listed(<<f1>>) = f1
      BY <1>10, ListedOne
    <3>. HIDE DEF u
    <3>4. Listed(Append(<<f1>>, f2)) = Listed(<<f1>>) \o (<<Comma>> \o f2)
      BY <1>10, <3>1, ListedAppend
    <3>. QED BY <1>10, <3>2, <3>3, <3>4
  <2>. HIDE DEF u, v
  <2>5. Listed(w) = x \o (<<Comma>> \o Listed(v))
    BY <2>2, <2>3, <2>4, ListedJoins
  <2>6. <<Comma>> \o Listed(v) \in S
    <3>1. Listed(v) \in S
      BY <2>3, AllIsClass, ListedIn
    <3>2. <<Comma>> \in S
      BY CommaText
    <3>. QED BY <3>1, <3>2, SeqsOf
  <2>. DEFINE z == <<Comma>> \o Listed(v)
  <2>7. z \in S /\ Listed(w) = x \o z
    BY <2>5, <2>6
  <2>. HIDE DEF z
  <2>8. <<>> \o x = x
    BY <1>10
  <2>9. <<>> \in Q
    BY <1>2 DEF Class
  <2>10. Split(Listed(w), <<>>, x, z)
    BY <2>7, <2>8 DEF Split
  <2>. HIDE DEF Q
  <2>. QED BY <2>7, <2>9, <2>10 DEF Around
<1>13. x \in Seq(Token)
  BY <1>10
<1>. HIDE DEF Q, C, S
<1>14. Around(l[14], x, Q, S)
  BY <1>2, <1>3, <1>6, <1>7, <1>12, <1>13, AroundObject
<1>15. Around(doc, x, Q, S)
  BY <1>2, <1>3, <1>11, <1>13, <1>14, AroundNests
<1>. QED BY <1>15, Zenon DEF doc, x, Q, S, K

LEMMA VerdictIsHidden ==
  ASSUME NEW p, IsPolicy(p), NEW r, IsAttested(r), ~Lacks(r, "verdict"), ~Misled(r.command)
  PROVE  StringField(AttestationDocument(p, r), "verdict") = {}
<1>. DEFINE doc == AttestationDocument(p, r)
            K == "verdict"
            f == Flag("started", ~r.dry_run)
            g == Argv(r)
            h == <<Comma>>
            m == h \o f
            x == CommandText(r)
<1>1. /\ g \in Seq(Token) /\ f \in Seq(Token) /\ h \in Seq(Token)
      /\ Len(f) = 3 /\ f[2] = Colon /\ Len(h) = 1
  BY CommaText, CommandTextIs, StartedHarmless DEF Harmless
<1>2. x = g \o m
  BY DEF CommandText
<1>3. PICK k0 \in 1 .. Len(g) : g[k0] = Verdicts
  BY CommandTextIs
<1>4. PICK a \in Without(K), b \in Seq(Token) : doc = (a \o x) \o b
  BY CommandAround DEF Around, Split
<1>. DEFINE z == a \o x
<1>5. z \in Guarded
  BY CommandTextIs, GuardedJoin
<1>. HIDE DEF f, g, h, x
<1>6. /\ m \in Seq(Token) /\ Len(m) = Len(h) + Len(f)
      /\ \A i \in 1 .. Len(f) : m[Len(h) + i] = f[i]
  <2>1. h \in Seq(Token) /\ f \in Seq(Token)
    BY <1>1
  <2>. QED BY <2>1, Positions
<1>. HIDE DEF m
<1>7. /\ x \in Seq(Token) /\ Len(x) = Len(g) + Len(m)
      /\ \A i \in 1 .. Len(g) : x[i] = g[i]
      /\ \A i \in 1 .. Len(m) : x[Len(g) + i] = m[i]
  <2>1. g \in Seq(Token) /\ m \in Seq(Token)
    BY <1>1, <1>6
  <2>2. /\ g \o m \in Seq(Token) /\ Len(g \o m) = Len(g) + Len(m)
        /\ \A i \in 1 .. Len(g) : (g \o m)[i] = g[i]
        /\ \A i \in 1 .. Len(m) : (g \o m)[Len(g) + i] = m[i]
    BY <2>1, Positions
  <2>. QED BY <1>2, <2>2
<1>8. a \in Seq(Token)
  <2>1. Others(K) \subseteq Token
    BY DEF Others
  <2>. QED BY <2>1, SeqMonotonic DEF Without
<1>9. /\ z \in Seq(Token) /\ Len(z) = Len(a) + Len(x)
      /\ \A i \in 1 .. Len(x) : z[Len(a) + i] = x[i]
  <2>1. a \in Seq(Token) /\ x \in Seq(Token)
    BY <1>7, <1>8
  <2>. QED BY <2>1, Positions
<1>10. doc = z \o b
  BY <1>4
<1>. HIDE DEF z
<1>11. /\ Len(doc) = Len(z) + Len(b) /\ \A i \in 1 .. Len(z) : doc[i] = z[i]
       /\ doc \in Seq(Token)
  <2>1. z \in Seq(Token) /\ b \in Seq(Token)
    BY <1>9
  <2>2. /\ z \o b \in Seq(Token) /\ Len(z \o b) = Len(z) + Len(b)
        /\ \A i \in 1 .. Len(z) : (z \o b)[i] = z[i]
    BY <2>1, Positions
  <2>. QED BY <1>10, <2>2
<1>12. /\ Len(a) \in Nat /\ Len(g) \in Nat /\ Len(b) \in Nat
  BY <1>1, <1>8
<1>. HIDE DEF doc
<1>. DEFINE k1 == Len(a) + k0
            c1 == Len(a) + (Len(g) + (Len(h) + 2))
<1>13. /\ k1 \in 1 .. Len(z) /\ z[k1] = Verdicts /\ c1 \in 1 .. Len(z) /\ z[c1] = Colon /\ k1 < c1
  <2>1. k0 \in 1 .. Len(x) /\ x[k0] = Verdicts
    BY <1>1, <1>3, <1>6, <1>7, <1>12
  <2>2. 2 \in 1 .. Len(f) /\ m[Len(h) + 2] = Colon /\ Len(h) + 2 \in 1 .. Len(m)
    BY <1>1, <1>6
  <2>3. Len(g) + (Len(h) + 2) \in 1 .. Len(x) /\ x[Len(g) + (Len(h) + 2)] = Colon
    BY <1>1, <1>6, <1>7, <1>12, <2>2
  <2>4. Len(x) \in Nat
    BY <1>7
  <2>. QED BY <1>1, <1>9, <1>12, <2>1, <2>3, <2>4
<1>. HIDE DEF k1, c1
<1>14. ASSUME NEW p0 \in ValueStart(doc, K), p0 \in 1 .. Len(doc)
       PROVE  doc[p0].kind # "string"
  <2>1. PICK k \in First(doc, String(K), 1) : p0 \in {c + 1 : c \in First(doc, Colon, k + 1)}
    BY Zenon DEF ValueStart
  <2>2. PICK c \in First(doc, Colon, k + 1) : p0 = c + 1
    BY <2>1
  <2>3. /\ k \in 1 .. Len(doc) /\ doc[k] = String(K)
        /\ \A i \in 1 .. k - 1 : doc[i] # String(K)
    BY <1>11, <2>1, FirstIs
  <2>4. Len(z) \in Nat /\ Len(doc) \in Nat /\ k + 1 \in Nat
    BY <1>9, <1>11, <2>3
  <2>5. k <= k1
    <3>1. ASSUME k1 < k PROVE FALSE
      <4>1. k1 \in 1 .. k - 1 /\ doc[k1] = String(K)
        BY <1>11, <1>13, <2>3, <2>4, <3>1 DEF Verdicts
      <4>. QED BY <2>3, <4>1
    <3>. QED BY <1>13, <2>3, <2>4, <3>1
  <2>6. /\ c \in k + 1 .. Len(doc) /\ doc[c] = Colon
        /\ \A i \in k + 1 .. c - 1 : doc[i] # Colon
    BY <1>11, <2>2, <2>4, FirstIs
  <2>7. c <= c1
    <3>1. ASSUME c1 < c PROVE FALSE
      <4>1. c1 \in k + 1 .. c - 1 /\ doc[c1] = Colon
        BY <1>11, <1>13, <2>3, <2>4, <2>5, <2>6, <3>1
      <4>. QED BY <2>6, <4>1
    <3>. QED BY <1>13, <2>3, <2>4, <2>6, <3>1
  <2>8. c \in 1 .. Len(z) /\ k \in 1 .. c - 1 /\ k \in 1 .. Len(z)
    BY <1>13, <2>3, <2>4, <2>6, <2>7
  <2>9. z[k] = Verdicts /\ z[c] = Colon
    BY <1>11, <2>3, <2>6, <2>8 DEF Verdicts
  <2>10. c < Len(z) /\ z[c + 1].kind # "string"
    BY <1>5, <2>8, <2>9 DEF Guarded
  <2>11. c + 1 \in 1 .. Len(z)
    BY <2>4, <2>8, <2>10
  <2>. QED BY <1>11, <2>2, <2>10, <2>11
<1>15. DOMAIN doc = 1 .. Len(doc)
  BY <1>11
<1>16. \A q \in ValueStart(doc, K) : TokenAt(doc, q, "string") = {}
  <2>. SUFFICES ASSUME NEW q \in ValueStart(doc, K), NEW t \in TokenAt(doc, q, "string")
                PROVE  FALSE
    OBVIOUS
  <2>1. q \in DOMAIN doc /\ doc[q].kind = "string"
    BY DEF TokenAt
  <2>. QED BY <1>14, <1>15, <2>1
<1>17. StringField(doc, K) = {}
  <2>. HIDE DEF K
  <2>. QED BY <1>16 DEF StringField
<1>. QED BY <1>17 DEF doc, K

----------------------------------------------------------------------------
(* What vis-compare reads of an attestation. *)
NamesAKey(s) == \E i \in DOMAIN s : ToSet(s[i]) \cap Searched # {}

LEMMA NamesNoKey ==
  ASSUME NEW r, IsAttested(r), ~NamesAKey(r.command), NEW K \in SearchedNames
  PROVE  Lacks(r, K)
<1>. SUFFICES ASSUME NEW i \in DOMAIN r.command, r.command[i] = Plain(K) PROVE FALSE
  BY DEF Lacks
<1>1. String(K) \in ToSet(Plain(K))
  <2>1. Plain(K)[1] = String(K) /\ 1 \in DOMAIN Plain(K)
    BY DEF Plain
  <2>. QED BY <2>1 DEF ToSet
<1>2. String(K) \in Searched
  BY DEF Searched, SearchedNames
<1>. QED BY <1>1, <1>2 DEF NamesAKey

LEMMA AttestationRead ==
  ASSUME NEW p, IsPolicy(p), NEW r, IsAttested(r),
         NEW text, PartOf(text, AttestationDocument(p, r)), NEW a \in ParseAttestation(text)
  PROVE  /\ a.assigned = r.assigned
         /\ ~Misled(r.command) =>
              /\ a.verdict = Verdict(r)
              /\ a.warnings = Cardinality(Warnings(r.events))
              /\ a.escapes >= Len(r.escapes)
              /\ ~NamesAKey(r.command) => a.escapes = Len(r.escapes)
<1>. DEFINE doc == AttestationDocument(p, r)
<1>1. doc \in Seq(Token)
  BY AttestationTokens
<1>2. PICK s \in NumberSetField(text, "assigned_cpus"), c \in NumberField(text, "exit_code"),
           v \in StringField(text, "verdict") :
        a = [assigned |-> s, exit_code |-> c, verdict |-> v,
             escapes |-> Occurrences(text, EscapePattern),
             warnings |-> Occurrences(text, WarningPattern)]
  BY DEF ParseAttestation, EscapePattern, WarningPattern
<1>3. /\ a.escapes = Cardinality(Hits(EscapePattern, text))
      /\ a.warnings = Cardinality(Hits(WarningPattern, text))
  <2>1. \A P : Occurrences(text, P) = Cardinality(Hits(P, text))
    BY Zenon DEF Occurrences, Hits
  <2>2. a.escapes = Occurrences(text, EscapePattern) /\ a.warnings = Occurrences(text, WarningPattern)
    BY <1>2
  <2>. QED BY <2>1, <2>2
<1>4. a.assigned = s /\ a.verdict = v
  BY <1>2
<1>. HIDE DEF doc
<1>5. s = r.assigned
  <2>1. PICK q : Stands(doc, "assigned_cpus", q, NumberItems(r.assigned))
    BY AssignedStands DEF doc
  <2>2. r.assigned \in CpuLists
    BY DEF IsAttested
  <2>3. NumberSetField(doc, "assigned_cpus") = {r.assigned}
    BY <2>1, <2>2, NumbersFields
  <2>4. PartOf(text, doc)
    BY DEF doc
  <2>5. NumberSetField(text, "assigned_cpus") \subseteq NumberSetField(doc, "assigned_cpus")
    BY <1>1, <2>4, PartNumbers
  <2>. QED BY <2>3, <2>5
<1>6. ASSUME ~Misled(r.command)
      PROVE  /\ a.verdict = Verdict(r)
             /\ a.warnings = Cardinality(Warnings(r.events))
             /\ a.escapes >= Len(r.escapes)
             /\ ~NamesAKey(r.command) => a.escapes = Len(r.escapes)
  <2>1. Lacks(r, "verdict")
    <3>1. ASSUME ~Lacks(r, "verdict") PROVE FALSE
      <4>1. StringField(doc, "verdict") = {}
        BY <1>6, <3>1, VerdictIsHidden DEF doc
      <4>2. PartOf(text, doc)
        BY DEF doc
      <4>3. StringField(text, "verdict") \subseteq StringField(doc, "verdict")
        BY <1>1, <4>2, PartString
      <4>. QED BY <4>1, <4>3
    <3>. QED BY <3>1
  <2>2. /\ v = Verdict(r)
        /\ Hits(EscapePattern, text) = Hits(EscapePattern, doc)
        /\ Hits(WarningPattern, text) = Hits(WarningPattern, doc)
    BY <2>1, VerdictIsRead DEF doc
  <2>3. Cardinality(Hits(WarningPattern, doc)) = Cardinality(Warnings(r.events))
    <3>1. doc \in Counted(WarningPattern, Cardinality(Warnings(r.events)))
      BY WarningsInAttestation DEF doc
    <3>. QED BY <3>1 DEF Counted
  <2>4. Cardinality(Hits(EscapePattern, doc)) >= Len(r.escapes)
    <3>1. PICK n \in Nat : doc \in Counted(EscapePattern, n) /\ n >= Len(r.escapes)
      BY EscapesInAttestation DEF doc
    <3>2. Cardinality(Hits(EscapePattern, doc)) = n
      BY <3>1 DEF Counted
    <3>. QED BY <3>1, <3>2
  <2>5. ASSUME ~NamesAKey(r.command)
        PROVE  Cardinality(Hits(EscapePattern, doc)) = Len(r.escapes)
    <3>1. "escaped_cpus" \in SearchedNames
      BY DEF SearchedNames
    <3>2. Lacks(r, "escaped_cpus")
      BY <2>5, <3>1, NamesNoKey
    <3>3. doc \in Counted(EscapePattern, Len(r.escapes))
      BY <3>2, EscapesInAttestation DEF doc
    <3>. QED BY <3>3 DEF Counted
  <2>. QED BY <1>3, <1>4, <2>2, <2>3, <2>4, <2>5
<1>. QED BY <1>4, <1>5, <1>6

LEMMA WholeIsRead ==
  ASSUME NEW p, IsPolicy(p), NEW r, IsAttested(r), ~NamesAKey(r.command)
  PROVE  ParseAttestation(AttestationDocument(p, r)) # {}
<1>. DEFINE doc == AttestationDocument(p, r)
<1>1. Lacks(r, "verdict") /\ Lacks(r, "exit_code")
  <2>1. "verdict" \in SearchedNames /\ "exit_code" \in SearchedNames
    BY DEF SearchedNames
  <2>. QED BY <2>1, NamesNoKey
<1>2. PICK q : Stands(doc, "assigned_cpus", q, NumberItems(r.assigned))
  BY AssignedStands
<1>3. r.assigned \in CpuLists
  BY DEF IsAttested
<1>4. PICK e : Stands(doc, "exit_code", e, <<Number(r.exit_code)>>)
  BY <1>1, ExitStands
<1>5. PICK v : Stands(doc, "verdict", v, <<String(Verdict(r))>>)
  <2>. DEFINE Q == Without("verdict")
              R == Seq(Token)
              x == Text("verdict", Verdict(r))
  <2>1. Class(R, Phrase) /\ Braced(R)
    BY AllIsClass
  <2>2. /\ Around(doc, x, Q, R)
        /\ \A a \in Q, b \in R : Split(doc, a, x, b) =>
             Stands(doc, "verdict", Len(a) + 3, <<String(Verdict(r))>>)
    BY <1>1, <2>1, VerdictAround
  <2>. HIDE DEF doc, Q, R, x
  <2>. QED BY <2>2, Zenon DEF Around
<1>. HIDE DEF doc
<1>6. NumberSetField(doc, "assigned_cpus") = {r.assigned}
  BY <1>2, <1>3, NumbersFields
<1>7. NumberField(doc, "exit_code") # {}
  <2>. DEFINE t == Number(r.exit_code)
  <2>1. t.kind = "number"
    BY DEF Number
  <2>. HIDE DEF t
  <2>2. Stands(doc, "exit_code", e, <<t>>)
    BY <1>4 DEF t
  <2>3. t.kind = "number" => NumberField(doc, "exit_code") = {t.n}
    BY <2>2, TokenFields
  <2>. QED BY <2>1, <2>3
<1>8. StringField(doc, "verdict") # {}
  <2>. DEFINE t == String(Verdict(r))
  <2>1. t.kind = "string"
    BY DEF String
  <2>. HIDE DEF t
  <2>2. Stands(doc, "verdict", v, <<t>>)
    BY <1>5 DEF t
  <2>3. t.kind = "string" => StringField(doc, "verdict") = {t.text}
    BY <2>2, TokenFields
  <2>. QED BY <2>1, <2>3
<1>9. PICK c \in NumberField(doc, "exit_code"), d \in StringField(doc, "verdict") : TRUE
  BY <1>7, <1>8
<1>10. r.assigned \in NumberSetField(doc, "assigned_cpus")
  BY <1>6
<1>11. ParseAttestation(doc) # {}
  <2>1. \A x \in NumberSetField(doc, "assigned_cpus") : \A y \in NumberField(doc, "exit_code") :
          \A z \in StringField(doc, "verdict") :
            [assigned |-> x, exit_code |-> y, verdict |-> z,
             escapes |-> Occurrences(doc, <<String("escaped_cpus")>>),
             warnings |-> Occurrences(doc, Text("severity", "warning"))] \in ParseAttestation(doc)
    BY DEF ParseAttestation
  <2>. QED BY <1>9, <1>10, <2>1
<1>. QED BY <1>11 DEF doc

----------------------------------------------------------------------------
(* What vis-run does between the two files.                                *)
(* The kernel's list of a mask, read by vis-run, is the mask.              *)
LEMMA MaskIsReadBack ==
  ASSUME NEW mask \in CpuLists
  PROVE  CpuList(KernelList(mask)) = mask
<1>1. mask \in SUBSET Nat /\ IsFiniteSet(mask)
  BY DEF CpuLists
<1>2. ASSUME NEW x \in CpuList(KernelList(mask)) PROVE x \in mask
  <2>1. PICK range \in KernelList(mask) : x \in range[1] .. range[2]
    BY <1>2 DEF CpuList
  <2>2. range[1] .. range[2] \subseteq mask
    BY <2>1 DEF KernelList
  <2>. QED BY <2>1, <2>2
<1>3. ASSUME NEW x \in mask PROVE x \in CpuList(KernelList(mask))
  <2>0. x \in Nat
    BY <1>1
  <2>. DEFINE L == {l \in Nat : l <= x /\ l .. x \subseteq mask}
              K == {k \in Nat : x <= k /\ k \notin mask}
  <2>1. x \in L /\ L \in SUBSET Nat /\ K \in SUBSET Nat
    <3>1. x .. x \subseteq mask
      BY <2>0
    <3>. QED BY <2>0, <3>1
  <2>2. PICK l \in L : \A y \in L : l <= y
    <3>. HIDE DEF L, K
    <3>. QED BY <2>1, HasLeast
  <2>3. K # {}
    <3>. DEFINE n == Cardinality(mask)
    <3>1. n \in Nat
      BY <1>1, FS_CardinalityType
    <3>2. CASE x .. (x + n) \subseteq mask
      <4>1. Cardinality(x .. (x + n)) <= n
        BY <1>1, <3>2, FS_Subset
      <4>. HIDE DEF n
      <4>2. x \in Int /\ x + n \in Int
        BY <2>0, <3>1
      <4>3. Cardinality(x .. (x + n)) = IF x > x + n THEN 0 ELSE (x + n) - x + 1
        BY <4>2, FS_Interval
      <4>. QED BY <2>0, <3>1, <4>1, <4>3
    <3>3. CASE ~(x .. (x + n) \subseteq mask)
      <4>. HIDE DEF n
      <4>1. PICK k \in x .. (x + n) : k \notin mask
        BY <3>3
      <4>2. k \in Nat /\ x <= k
        BY <2>0, <3>1, <4>1
      <4>. QED BY <4>1, <4>2
    <3>. QED BY <3>2, <3>3
  <2>4. PICK k \in K : \A y \in K : k <= y
    <3>. HIDE DEF L, K
    <3>. QED BY <2>1, <2>3, HasLeast
  <2>5. l \in Nat /\ l <= x /\ l .. x \subseteq mask
    OBVIOUS
  <2>. DEFINE h == k - 1
  <2>6. h \in Nat /\ x <= h /\ h + 1 = k
    <3>1. k \in Nat /\ x <= k /\ k # x
      OBVIOUS
    <3>. QED BY <2>0, <3>1
  <2>7. l - 1 \notin mask
    <3>1. ASSUME l - 1 \in mask PROVE FALSE
      <4>1. l - 1 \in Nat /\ l - 1 <= x
        BY <1>1, <2>0, <2>5, <3>1
      <4>2. (l - 1) .. x \subseteq mask
        BY <2>0, <2>5, <3>1
      <4>3. l - 1 \in L
        BY <4>1, <4>2
      <4>. QED BY <2>2, <2>5, <4>3
    <3>. QED BY <3>1
  <2>8. h + 1 \notin mask /\ x .. h \subseteq mask
    <3>1. \A y \in x .. h : y \in mask
      <4>1. ASSUME NEW y \in x .. h PROVE y \in Nat /\ x <= y /\ y < k
        BY <2>0, <2>6
      <4>2. k \in Nat
        OBVIOUS
      <4>. HIDE DEF h
      <4>3. ASSUME NEW y \in x .. h, y \notin mask PROVE FALSE
        <5>1. y \in K
          BY <4>1, <4>3
        <5>2. k <= y
          BY <2>4, <5>1
        <5>. QED BY <4>1, <4>2, <5>2
      <4>. QED BY <4>3
    <3>. QED BY <2>6, <3>1
  <2>9. l .. h \subseteq mask /\ l \in mask /\ l <= h /\ x \in l .. h /\ h \in mask
    <3>. HIDE DEF L, K, h
    <3>1. l <= h /\ x \in l .. h /\ l \in l .. x /\ h \in x .. h
      BY <2>0, <2>5, <2>6
    <3>2. \A y \in l .. h : y \in l .. x \/ y \in x .. h
      BY <2>0, <2>5, <2>6
    <3>. QED BY <2>5, <2>8, <3>1, <3>2
  <2>. HIDE DEF L, K, h
  <2>. DEFINE range == <<l, h>>
  <2>10. range \in KernelList(mask) /\ range[1] = l /\ range[2] = h
    BY <2>6, <2>7, <2>8, <2>9 DEF KernelList
  <2>. HIDE DEF range
  <2>. QED BY <2>9, <2>10 DEF CpuList
<1>. QED BY <1>2, <1>3

LEMMA EscapesAre ==
  ASSUME NEW masks \in Seq(CpuLists), NEW assigned
  PROVE  /\ EscapesSeen(masks, assigned) \in Seq(CpuLists)
         /\ EscapesSeen(masks, assigned) = <<>> =>
              \A i \in DOMAIN masks : masks[i] \subseteq assigned
<1>. DEFINE Outside(i) == CpuList(KernelList(masks[i])) \ assigned
            S == {i \in DOMAIN masks : Outside(i) # {}}
            z == SetToSeq(S)
            e == [k \in DOMAIN z |-> Outside(z[k])]
<1>1. /\ DOMAIN masks = 1 .. Len(masks) /\ Len(masks) \in Nat
      /\ \A i \in DOMAIN masks : masks[i] \in CpuLists
  OBVIOUS
<1>2. \A i \in DOMAIN masks : Outside(i) = masks[i] \ assigned
  BY <1>1, MaskIsReadBack
<1>3. \A i \in DOMAIN masks : Outside(i) \in CpuLists
  <2>1. \A i \in DOMAIN masks : masks[i] \in SUBSET Nat /\ IsFiniteSet(masks[i])
    BY <1>1 DEF CpuLists
  <2>. HIDE DEF Outside
  <2>2. \A i \in DOMAIN masks : Outside(i) \in SUBSET Nat /\ IsFiniteSet(Outside(i))
    BY <1>2, <2>1, FS_Subset
  <2>. QED BY <2>2 DEF CpuLists
<1>4. IsFiniteSet(S) /\ S \in SUBSET DOMAIN masks
  <2>1. IsFiniteSet(DOMAIN masks)
    BY <1>1, FS_Interval
  <2>2. S \in SUBSET DOMAIN masks
    OBVIOUS
  <2>. HIDE DEF S
  <2>. QED BY <2>1, <2>2, FS_Subset
<1>5. EscapesSeen(masks, assigned) = e
  BY Zenon DEF EscapesSeen
<1>6. /\ z \in Seq(S) /\ {z[i] : i \in 1 .. Len(z)} = S
  <2>. HIDE DEF S
  <2>. QED BY <1>4, SetToSeqListsIt
<1>. HIDE DEF z
<1>7. Len(z) \in Nat /\ DOMAIN z = 1 .. Len(z) /\ \A k \in 1 .. Len(z) : z[k] \in S
  <2>. HIDE DEF S
  <2>. QED BY <1>6
<1>8. DOMAIN e = 1 .. Len(z) /\ e = [i \in 1 .. Len(z) |-> e[i]]
      /\ \A k \in 1 .. Len(z) : e[k] = Outside(z[k])
  BY <1>7
<1>9. e \in Seq(CpuLists) /\ Len(e) = Len(z)
  <2>1. \A k \in 1 .. Len(z) : e[k] \in CpuLists
    <3>. HIDE DEF e, Outside
    <3>1. \A k \in 1 .. Len(z) : z[k] \in DOMAIN masks
      BY <1>7
    <3>. QED BY <1>3, <1>8, <3>1
  <2>. HIDE DEF e
  <2>. QED BY <1>7, <1>8, <2>1, SeqIs
<1>10. ASSUME e = <<>> PROVE \A i \in DOMAIN masks : masks[i] \subseteq assigned
  <2>. HIDE DEF e, Outside, S
  <2>1. Len(z) = 0
    BY <1>9, <1>10
  <2>2. S = {}
    BY <1>6, <2>1
  <2>3. \A i \in DOMAIN masks : Outside(i) = {}
    BY <2>2 DEF S
  <2>. QED BY <1>2, <2>3
<1>. HIDE DEF e
<1>. QED BY <1>5, <1>9, <1>10

LEMMA EventsAreFinite ==
  /\ \A p : IsPolicy(p) => PolicyEvents(p) \in SUBSET EventType /\ IsFiniteSet(PolicyEvents(p))
  /\ \A s : EndEvents(s) \in SUBSET EventType /\ IsFiniteSet(EndEvents(s))
  /\ \A r : EscapeEvents(r) \in SUBSET EventType /\ IsFiniteSet(EscapeEvents(r))
  /\ \A c \in {"policy", "affinity", "process"} : Event("error", c, "failed") \in EventType
  /\ \A n \in {{}, {Event("warning", "observation", "read_failed")}} :
       n \in SUBSET EventType /\ IsFiniteSet(n)
<1>1. ASSUME NEW p, IsPolicy(p)
      PROVE  PolicyEvents(p) \in SUBSET EventType /\ IsFiniteSet(PolicyEvents(p))
  <2>1. PolicyEvents(p) \in SUBSET EventType
    BY DEF PolicyEvents, WarningEvent, Event, EventType
  <2>. DEFINE W == p.warnings \cap DOMAIN WarningEvent
              T == {WarningEvent[w] : w \in W}
              f == [w \in W |-> WarningEvent[w]]
              o == IF p.requires_longer_validation
                   THEN {WarningEvent.short_scan_requires_longer_validation} ELSE {}
  <2>2. IsFiniteSet(W)
    <3>1. IsFiniteSet(p.warnings)
      BY <1>1, PolicyIs
    <3>. QED BY <3>1, FS_Subset
  <2>3. IsFiniteSet(T)
    <3>. HIDE DEF W
    <3>1. f \in [W -> T] /\ \A t \in T : \E w \in W : f[w] = t
      OBVIOUS
    <3>. HIDE DEF T, f
    <3>2. f \in Surjection(W, T)
      BY <3>1, Zenon DEF Surjection
    <3>. QED BY <2>2, <3>2, FS_Surjection
  <2>4. IsFiniteSet(o)
    BY FS_Singleton, FS_EmptySet
  <2>5. PolicyEvents(p) = T \cup o
    BY DEF PolicyEvents
  <2>. HIDE DEF T, o
  <2>6. IsFiniteSet(T \cup o)
    BY <2>3, <2>4, FS_Union
  <2>. QED BY <2>1, <2>5, <2>6
<1>2. ASSUME NEW s PROVE EndEvents(s) \in SUBSET EventType /\ IsFiniteSet(EndEvents(s))
  <2>1. EndEvents(s) \in SUBSET EventType
    BY DEF EndEvents, Event, EventType
  <2>2. \/ EndEvents(s) = {Event("error", "affinity", "failed")}
        \/ EndEvents(s) = {Event("error", "workload", "failed")}
        \/ EndEvents(s) = {Event("error", "workload", "signaled")}
        \/ EndEvents(s) = {Event("error", "workload", "nonzero_exit")}
        \/ EndEvents(s) = {}
    BY DEF EndEvents
  <2>. QED BY <2>1, <2>2, FS_Singleton, FS_EmptySet
<1>3. ASSUME NEW r PROVE EscapeEvents(r) \in SUBSET EventType /\ IsFiniteSet(EscapeEvents(r))
  <2>1. EscapeEvents(r) \in SUBSET EventType
    BY DEF EscapeEvents, Event, EventType
  <2>2. EscapeEvents(r) = {} \/ \E e : EscapeEvents(r) = {e}
    BY DEF EscapeEvents
  <2>. QED BY <2>1, <2>2, FS_Singleton, FS_EmptySet
<1>4. \A c \in {"policy", "affinity", "process"} : Event("error", c, "failed") \in EventType
  BY DEF Event, EventType
<1>5. Event("warning", "observation", "read_failed") \in EventType
  BY DEF Event, EventType
<1>6. \A e : IsFiniteSet({e}) /\ IsFiniteSet({})
  BY FS_Singleton, FS_EmptySet
<1>. QED BY <1>1, <1>2, <1>3, <1>4, <1>5, <1>6

----------------------------------------------------------------------------
(* A run of vis-run under the policy p: it assigned the CPUs that p lists, *)
(* succeeded only with an affinity applied to CPUs that p lets it select,  *)
(* and reports an escape when it saw one.                                  *)
IsRun(p, r) ==
  /\ IsAttested(r)
  /\ r.assigned = ListedCpus(p, r.source)
  /\ r.exit \in 0 .. 255 /\ r.exit_code \in 0 .. 255
  /\ r.exit = 0 => r.applied /\ Selectable(p, r.source)
  /\ r.escapes = <<>> => \A i \in DOMAIN r.masks : r.masks[i] \subseteq r.assigned

Started(p, source, command) ==
  [NoRun EXCEPT !.source = source, !.command = command,
                !.assigned = ListedCpus(p, source), !.events = PolicyEvents(p)]

LEMMA StartedIs ==
  ASSUME NEW p, IsPolicy(p), NEW source \in Sources, NEW command \in Commands
  PROVE  LET r == Started(p, source, command) IN
         /\ r = [source |-> source, command |-> command, dry_run |-> FALSE,
                 assigned |-> ListedCpus(p, source), applied |-> FALSE, status |-> NotEnded,
                 exit_code |-> 0, masks |-> <<>>, escapes |-> <<>>,
                 events |-> PolicyEvents(p), exit |-> 0]
         /\ source \in {"primary", "secondary"} /\ command \in Seq(Words)
         /\ ListedCpus(p, source) \in CpuLists
<1>1. source \in {"primary", "secondary"} /\ command \in Seq(Words)
  BY DocumentsAssumption
<1>2. ListedCpus(p, source) \in CpuLists
  <2>1. {} \in CpuLists
    BY FS_EmptySet DEF CpuLists
  <2>2. p.primary \in CpuLists /\ p.secondary \in CpuLists
    BY PolicyIs
  <2>3. ListedCpus(p, source) \in {{}, p.primary, p.secondary}
    BY <1>1 DEF ListedCpus
  <2>. QED BY <2>1, <2>2, <2>3
<1>3. Started(p, source, command) =
        [source |-> source, command |-> command, dry_run |-> FALSE,
         assigned |-> ListedCpus(p, source), applied |-> FALSE, status |-> NotEnded,
         exit_code |-> 0, masks |-> <<>>, escapes |-> <<>>,
         events |-> PolicyEvents(p), exit |-> 0]
  <2>. DEFINE r == Started(p, source, command)
  <2>1. r = [NoRun EXCEPT !.source = source, !.command = command,
                          !.assigned = ListedCpus(p, source), !.events = PolicyEvents(p)]
    BY Zenon DEF Started
  <2>2. NoRun = [source |-> "none", command |-> <<>>, dry_run |-> FALSE, assigned |-> {},
                 applied |-> FALSE, status |-> NotEnded, exit_code |-> 0, masks |-> <<>>,
                 escapes |-> <<>>, events |-> {}, exit |-> 0]
    BY Zenon DEF NoRun
  <2>. HIDE DEF r
  <2>3. r = [source |-> source, command |-> command, dry_run |-> FALSE,
             assigned |-> ListedCpus(p, source), applied |-> FALSE, status |-> NotEnded,
             exit_code |-> 0, masks |-> <<>>, escapes |-> <<>>,
             events |-> PolicyEvents(p), exit |-> 0]
    BY <2>1, <2>2
  <2>. QED BY <2>3 DEF r
<1>. QED BY <1>1, <1>2, <1>3, Zenon

LEMMA NoWorkloadIsRun ==
  ASSUME NEW p, IsPolicy(p), NEW source \in Sources, NEW command \in Commands,
         NoWorkload(p, Started(p, source, command))
  PROVE  IsRun(p, run')
<1>. DEFINE r == Started(p, source, command)
<1>1. PICK c \in {"policy", "affinity", "process"} :
        Publish([r EXCEPT !.events = @ \cup {Event("error", c, "failed")}], 1)
  BY DEF NoWorkload
<1>2. /\ r = [source |-> source, command |-> command, dry_run |-> FALSE,
              assigned |-> ListedCpus(p, source), applied |-> FALSE, status |-> NotEnded,
              exit_code |-> 0, masks |-> <<>>, escapes |-> <<>>,
              events |-> PolicyEvents(p), exit |-> 0]
      /\ source \in {"primary", "secondary"} /\ command \in Seq(Words)
      /\ ListedCpus(p, source) \in CpuLists
  BY StartedIs
<1>. HIDE DEF r
<1>. DEFINE E == PolicyEvents(p) \cup {Event("error", c, "failed")}
<1>3. E \in SUBSET EventType /\ IsFiniteSet(E)
  <2>1. PolicyEvents(p) \in SUBSET EventType /\ IsFiniteSet(PolicyEvents(p))
    BY EventsAreFinite
  <2>2. Event("error", c, "failed") \in EventType
    BY EventsAreFinite
  <2>3. IsFiniteSet({Event("error", c, "failed")})
    BY FS_Singleton
  <2>4. IsFiniteSet(E)
    BY <2>1, <2>3, FS_Union
  <2>. QED BY <2>1, <2>2, <2>4
<1>4. run' = [source |-> source, command |-> command, dry_run |-> FALSE,
              assigned |-> ListedCpus(p, source), applied |-> FALSE, status |-> NotEnded,
              exit_code |-> 0, masks |-> <<>>, escapes |-> <<>>, events |-> E, exit |-> 1]
  <2>. DEFINE n == [r EXCEPT !.events = @ \cup {Event("error", c, "failed")}]
  <2>1. n = [r EXCEPT !.events = @ \cup {Event("error", c, "failed")}]
    OBVIOUS
  <2>2. Publish(n, 1)
    BY <1>1, Zenon
  <2>. HIDE DEF n
  <2>3. n = [source |-> source, command |-> command, dry_run |-> FALSE,
             assigned |-> ListedCpus(p, source), applied |-> FALSE, status |-> NotEnded,
             exit_code |-> 0, masks |-> <<>>, escapes |-> <<>>, events |-> E, exit |-> 0]
    BY <1>2, <2>1
  <2>4. run' = [n EXCEPT !.exit = 1]
    BY <2>2 DEF Publish
  <2>. QED BY <2>3, <2>4
<1>5. <<>> \in Seq(CpuLists)
  OBVIOUS
<1>. HIDE DEF E
<1>6. IsAttested(run')
  BY <1>2, <1>3, <1>4, <1>5 DEF IsAttested, NotEnded
<1>. QED BY <1>4, <1>6 DEF IsRun

(* What vis-run has seen when the workload is over. *)
IsSeen(seen, p, source, command, masks, notes, escapes) ==
  /\ seen = [source |-> source, command |-> command, dry_run |-> FALSE,
             assigned |-> ListedCpus(p, source), applied |-> FALSE, status |-> NotEnded,
             exit_code |-> 0, masks |-> masks, escapes |-> escapes,
             events |-> PolicyEvents(p) \cup notes, exit |-> 0]
  /\ masks \in Seq(CpuLists) /\ escapes \in Seq(CpuLists)
  /\ escapes = <<>> => \A i \in DOMAIN masks : masks[i] \subseteq ListedCpus(p, source)
  /\ PolicyEvents(p) \cup notes \in SUBSET EventType
  /\ IsFiniteSet(PolicyEvents(p) \cup notes)

LEMMA WatchedIs ==
  ASSUME NEW p, IsPolicy(p), NEW source \in Sources, NEW command \in Commands,
         NEW masks \in Sightings,
         NEW notes \in {{}, {Event("warning", "observation", "read_failed")}}
  PROVE  IsSeen(Watched(Started(p, source, command), masks, notes), p, source, command,
                masks, notes, EscapesSeen(masks, ListedCpus(p, source)))
<1>. DEFINE r == Started(p, source, command)
            seen == Watched(r, masks, notes)
            escapes == EscapesSeen(masks, ListedCpus(p, source))
            E == PolicyEvents(p) \cup notes
<1>1. r = [source |-> source, command |-> command, dry_run |-> FALSE,
           assigned |-> ListedCpus(p, source), applied |-> FALSE, status |-> NotEnded,
           exit_code |-> 0, masks |-> <<>>, escapes |-> <<>>,
           events |-> PolicyEvents(p), exit |-> 0]
  BY StartedIs
<1>2. masks \in Seq(CpuLists)
  BY DocumentsAssumption
<1>3. escapes \in Seq(CpuLists)
      /\ (escapes = <<>> => \A i \in DOMAIN masks : masks[i] \subseteq ListedCpus(p, source))
  BY <1>2, EscapesAre
<1>4. E \in SUBSET EventType /\ IsFiniteSet(E)
  <2>1. PolicyEvents(p) \in SUBSET EventType /\ IsFiniteSet(PolicyEvents(p))
    BY EventsAreFinite
  <2>2. notes \in SUBSET EventType /\ IsFiniteSet(notes)
    BY EventsAreFinite
  <2>3. IsFiniteSet(E)
    BY <2>1, <2>2, FS_Union
  <2>. QED BY <2>1, <2>2, <2>3
<1>5. seen = [source |-> source, command |-> command, dry_run |-> FALSE,
              assigned |-> ListedCpus(p, source), applied |-> FALSE, status |-> NotEnded,
              exit_code |-> 0, masks |-> masks, escapes |-> escapes, events |-> E, exit |-> 0]
  <2>. HIDE DEF r
  <2>1. seen = [r EXCEPT !.masks = masks, !.escapes = EscapesSeen(masks, r.assigned),
                         !.events = @ \cup notes]
    BY Zenon DEF Watched
  <2>. HIDE DEF seen
  <2>. QED BY <1>1, <2>1
<1>. HIDE DEF seen, escapes, E
<1>6. /\ seen = [source |-> source, command |-> command, dry_run |-> FALSE,
                 assigned |-> ListedCpus(p, source), applied |-> FALSE, status |-> NotEnded,
                 exit_code |-> 0, masks |-> masks, escapes |-> escapes, events |-> E,
                 exit |-> 0]
      /\ masks \in Seq(CpuLists) /\ escapes \in Seq(CpuLists)
      /\ escapes = <<>> => \A i \in DOMAIN masks : masks[i] \subseteq ListedCpus(p, source)
      /\ E \in SUBSET EventType /\ IsFiniteSet(E)
  BY <1>2, <1>3, <1>4, <1>5
<1>7. IsSeen(seen, p, source, command, masks, notes, escapes)
  BY <1>6, Zenon DEF IsSeen, E
<1>. QED BY <1>7, Zenon DEF seen, escapes

(* Of a lost workload only the failure is attested, and what was seen. *)
LEMMA LostIsRun ==
  ASSUME NEW p, IsPolicy(p), NEW source \in Sources, NEW command \in Commands,
         NEW masks \in Sightings,
         NEW notes \in {{}, {Event("warning", "observation", "read_failed")}},
         Publish(Lost(Watched(Started(p, source, command), masks, notes)), 1)
  PROVE  IsRun(p, run')
<1>. DEFINE seen == Watched(Started(p, source, command), masks, notes)
            escapes == EscapesSeen(masks, ListedCpus(p, source))
            E0 == PolicyEvents(p) \cup notes
            E == E0 \cup {Event("error", "process", "failed")}
            n == Lost(seen)
<1>0. IsSeen(seen, p, source, command, masks, notes, escapes)
  BY WatchedIs
<1>1. /\ seen = [source |-> source, command |-> command, dry_run |-> FALSE,
                 assigned |-> ListedCpus(p, source), applied |-> FALSE, status |-> NotEnded,
                 exit_code |-> 0, masks |-> masks, escapes |-> escapes, events |-> E0,
                 exit |-> 0]
      /\ masks \in Seq(CpuLists) /\ escapes \in Seq(CpuLists)
      /\ escapes = <<>> => \A i \in DOMAIN masks : masks[i] \subseteq ListedCpus(p, source)
      /\ E0 \in SUBSET EventType /\ IsFiniteSet(E0)
  <2>. HIDE DEF seen, escapes
  <2>. QED BY <1>0, Zenon DEF IsSeen
<1>2. /\ source \in {"primary", "secondary"} /\ command \in Seq(Words)
      /\ ListedCpus(p, source) \in CpuLists
  BY StartedIs
<1>. HIDE DEF seen, escapes, E0
<1>3. E \in SUBSET EventType /\ IsFiniteSet(E)
  <2>1. Event("error", "process", "failed") \in EventType
    BY EventsAreFinite
  <2>2. IsFiniteSet({Event("error", "process", "failed")})
    BY FS_Singleton
  <2>3. IsFiniteSet(E)
    BY <1>1, <2>2, FS_Union
  <2>. QED BY <1>1, <2>1, <2>3
<1>4. n = [source |-> source, command |-> command, dry_run |-> FALSE,
           assigned |-> ListedCpus(p, source), applied |-> FALSE, status |-> NotEnded,
           exit_code |-> 0, masks |-> masks, escapes |-> escapes, events |-> E, exit |-> 0]
  <2>1. n = [seen EXCEPT !.events = @ \cup {Event("error", "process", "failed")}]
    BY Zenon DEF Lost
  <2>. HIDE DEF n
  <2>. QED BY <1>1, <2>1
<1>5. Publish(n, 1)
  BY Zenon DEF seen
<1>. HIDE DEF n, E
<1>6. run' = [n EXCEPT !.exit = 1]
  BY <1>5 DEF Publish
<1>7. run' = [source |-> source, command |-> command, dry_run |-> FALSE,
              assigned |-> ListedCpus(p, source), applied |-> FALSE, status |-> NotEnded,
              exit_code |-> 0, masks |-> masks, escapes |-> escapes, events |-> E, exit |-> 1]
  BY <1>4, <1>6
<1>8. IsAttested(run')
  BY <1>1, <1>2, <1>3, <1>7 DEF IsAttested, NotEnded
<1>. QED BY <1>1, <1>7, <1>8 DEF IsRun

(* A workload that was reaped. *)
LEMMA ReapedIsRun ==
  ASSUME NEW p, IsPolicy(p), NEW source \in Sources, NEW command \in Commands,
         NEW masks \in Sightings,
         NEW notes \in {{}, {Event("warning", "observation", "read_failed")}},
         NEW s \in Ends, Selectable(p, source),
         Publish(Reaped(Watched(Started(p, source, command), masks, notes), s), ExitCode(s))
  PROVE  IsRun(p, run')
<1>. DEFINE seen == Watched(Started(p, source, command), masks, notes)
            escapes == EscapesSeen(masks, ListedCpus(p, source))
            record == [escapes |-> ToSet(escapes)]
            E0 == PolicyEvents(p) \cup notes
            E == (E0 \cup EndEvents(s)) \cup EscapeEvents(record)
            applied == s # Exited(126)
            n == Reaped(seen, s)
<1>0. IsSeen(seen, p, source, command, masks, notes, escapes)
  BY WatchedIs
<1>1. /\ seen = [source |-> source, command |-> command, dry_run |-> FALSE,
                 assigned |-> ListedCpus(p, source), applied |-> FALSE, status |-> NotEnded,
                 exit_code |-> 0, masks |-> masks, escapes |-> escapes, events |-> E0,
                 exit |-> 0]
      /\ masks \in Seq(CpuLists) /\ escapes \in Seq(CpuLists)
      /\ escapes = <<>> => \A i \in DOMAIN masks : masks[i] \subseteq ListedCpus(p, source)
      /\ E0 \in SUBSET EventType /\ IsFiniteSet(E0)
  <2>. HIDE DEF seen, escapes
  <2>. QED BY <1>0, Zenon DEF IsSeen
<1>2. /\ source \in {"primary", "secondary"} /\ command \in Seq(Words)
      /\ ListedCpus(p, source) \in CpuLists
  BY StartedIs
<1>. HIDE DEF seen, escapes, E0
<1>3. n = [source |-> source, command |-> command, dry_run |-> FALSE,
           assigned |-> ListedCpus(p, source), applied |-> applied, status |-> s,
           exit_code |-> ExitCode(s), masks |-> masks, escapes |-> escapes, events |-> E,
           exit |-> 0]
  <2>1. n = [seen EXCEPT !.applied = (s # Exited(126)), !.status = s,
                         !.exit_code = ExitCode(s),
                         !.events = @ \cup EndEvents(s) \cup
                                    EscapeEvents([escapes |-> ToSet(seen.escapes)])]
    BY Zenon DEF Reaped
  <2>. HIDE DEF n
  <2>. QED BY <1>1, <2>1
<1>4. PICK code \in {ExitCode(s), 1} : run' = [n EXCEPT !.exit = code]
  <2>1. Publish(n, ExitCode(s))
    BY Zenon DEF seen
  <2>. HIDE DEF n
  <2>. QED BY <2>1 DEF Publish
<1>. HIDE DEF n
<1>5. run' = [source |-> source, command |-> command, dry_run |-> FALSE,
              assigned |-> ListedCpus(p, source), applied |-> applied, status |-> s,
              exit_code |-> ExitCode(s), masks |-> masks, escapes |-> escapes, events |-> E,
              exit |-> code]
  BY <1>3, <1>4
<1>6. E \in SUBSET EventType /\ IsFiniteSet(E)
  <2>. HIDE DEF record
  <2>2. EndEvents(s) \in SUBSET EventType /\ IsFiniteSet(EndEvents(s))
    BY EventsAreFinite
  <2>3. EscapeEvents(record) \in SUBSET EventType /\ IsFiniteSet(EscapeEvents(record))
    BY EventsAreFinite
  <2>4. IsFiniteSet(E0 \cup EndEvents(s))
    BY <1>1, <2>2, FS_Union
  <2>5. IsFiniteSet(E)
    BY <2>3, <2>4, FS_Union
  <2>. QED BY <1>1, <2>2, <2>3, <2>5
<1>7. /\ ExitCode(s) \in 0 .. 255 /\ s.how \in {"exited", "signaled"}
      /\ ExitCode(s) = 0 => s # Exited(126)
  <2>1. s = Signaled \/ \E c \in 0 .. 255 : s = Exited(c)
    BY DocumentsAssumption
  <2>2. Signaled.how = "signaled" /\ Signaled.code = 9
    BY DEF Signaled
  <2>3. \A c : Exited(c).how = "exited" /\ Exited(c).code = c
    BY DEF Exited
  <2>4. CASE s = Signaled
    BY <2>2, <2>4 DEF ExitCode
  <2>5. CASE \E c \in 0 .. 255 : s = Exited(c)
    BY <2>3, <2>5 DEF ExitCode
  <2>. QED BY <2>1, <2>4, <2>5
<1>8. applied \in BOOLEAN /\ code \in 0 .. 255 /\ (code = 0 => applied)
  BY <1>4, <1>7
<1>9. ExitCode(s) \in Nat
  BY <1>7
<1>. HIDE DEF E, applied
<1>10. IsAttested(run')
  BY <1>1, <1>2, <1>5, <1>6, <1>7, <1>8, <1>9 DEF IsAttested
<1>. QED BY <1>1, <1>5, <1>7, <1>8, <1>10 DEF IsRun

LEMMA WorkloadIsRun ==
  ASSUME NEW p, IsPolicy(p), NEW source \in Sources, NEW command \in Commands,
         Workload(p, Started(p, source, command))
  PROVE  IsRun(p, run')
<1>. DEFINE r == Started(p, source, command)
<1>1. r = [source |-> source, command |-> command, dry_run |-> FALSE,
           assigned |-> ListedCpus(p, source), applied |-> FALSE, status |-> NotEnded,
           exit_code |-> 0, masks |-> <<>>, escapes |-> <<>>,
           events |-> PolicyEvents(p), exit |-> 0]
  BY StartedIs
<1>. HIDE DEF r
<1>2. Selectable(p, source)
  BY <1>1 DEF Workload, r
<1>3. PICK masks \in Sightings, notes \in {{}, {Event("warning", "observation", "read_failed")}} :
        \/ \E s \in Ends : Publish(Reaped(Watched(r, masks, notes), s), ExitCode(s))
        \/ Publish(Lost(Watched(r, masks, notes)), 1)
  BY Zenon DEF Workload, r
<1>4. CASE \E s \in Ends : Publish(Reaped(Watched(r, masks, notes), s), ExitCode(s))
  BY <1>2, <1>4, ReapedIsRun, Zenon DEF r
<1>5. CASE Publish(Lost(Watched(r, masks, notes)), 1)
  BY <1>5, LostIsRun, Zenon DEF r
<1>. QED BY <1>3, <1>4, <1>5

(* Everything the evidence rests on, in every state: the policy that was   *)
(* read, the run that was made under it, and what was read of that run.    *)
EvidenceInv ==
  /\ PolicyInv
  /\ pc \in {"workload", "attested", "unattested", "compared"} => policy = {report.policy}
  /\ pc \in {"attested", "unattested", "compared"} => IsRun(report.policy, run)
  /\ pc \notin {"attested", "unattested", "compared"} => run = NoRun
  /\ pc # "compared" => row = {}
  /\ \A a \in row : a.exit_code = run.exit
  /\ AttestationIsReadAsWritten

LEMMA InitEvidence == Init => EvidenceInv
<1>. SUFFICES ASSUME Init PROVE EvidenceInv
  OBVIOUS
<1>1. PolicyInv
  BY DEF Init, PolicyInv
<1>. QED BY <1>1 DEF Init, EvidenceInv, AttestationIsReadAsWritten

(* vis-run reads the policy. *)
LEMMA VisRunReadsEvidence ==
  ASSUME EvidenceInv, PolicyInv', VisRunReads PROVE EvidenceInv'
<1>1. /\ pc = "vis-run" /\ pc' \in {"refused", "workload"} /\ (pc' = "workload" => policy' # {})
      /\ report' = report /\ run' = run /\ row' = row
  BY DEF VisRunReads
<1>2. policy' \subseteq {report'.policy}
  BY DEF PolicyInv
<1>3. pc' = "workload" => policy' = {report'.policy}
  BY <1>1, <1>2
<1>4. run' = NoRun /\ row' = {}
  BY <1>1 DEF EvidenceInv
<1>5. AttestationIsReadAsWritten'
  BY <1>1 DEF AttestationIsReadAsWritten
<1>. QED BY <1>1, <1>3, <1>4, <1>5 DEF EvidenceInv

(* vis-run runs the workload, or fails before there is one. *)
LEMMA VisRunRunsEvidence ==
  ASSUME EvidenceInv, PolicyInv', VisRunRuns PROVE EvidenceInv'
<1>1. /\ pc = "workload" /\ report' = report /\ policy' = policy /\ row' = row
      /\ policy = {report.policy} /\ report \in Reports /\ row = {}
  BY DEF VisRunRuns, EvidenceInv, PolicyInv
<1>2. IsPolicy(report.policy)
  BY <1>1, DocumentsAssumption
<1>3. PICK p \in policy, source \in Sources, command \in Commands :
        NoWorkload(p, Started(p, source, command)) \/ Workload(p, Started(p, source, command))
  BY DEF VisRunRuns, Started
<1>4. p = report.policy
  BY <1>1, <1>3
<1>a. pc' \in {"attested", "unattested"}
  BY <1>3, Zenon DEF NoWorkload, Workload, Publish
<1>5. IsRun(report.policy, run')
  <2>1. IsPolicy(p)
    BY <1>2, <1>4
  <2>2. CASE NoWorkload(p, Started(p, source, command))
    BY <1>4, <2>1, <2>2, NoWorkloadIsRun, Zenon
  <2>3. CASE Workload(p, Started(p, source, command))
    BY <1>4, <2>1, <2>3, WorkloadIsRun, Zenon
  <2>. QED BY <1>3, <2>2, <2>3
<1>6. AttestationIsReadAsWritten'
  BY <1>a DEF AttestationIsReadAsWritten
<1>. QED BY <1>1, <1>a, <1>5, <1>6 DEF EvidenceInv

(* vis-compare reads the attestation. *)
LEMMA VisCompareReadsEvidence ==
  ASSUME EvidenceInv, PolicyInv', VisCompareReads PROVE EvidenceInv'
<1>1. /\ pc = "attested" /\ pc' = "compared" /\ report' = report /\ policy' = policy /\ run' = run
      /\ policy = {report.policy} /\ report \in Reports /\ IsRun(report.policy, run)
  BY DEF VisCompareReads, EvidenceInv, PolicyInv
<1>. DEFINE doc == AttestationDocument(report.policy, run)
            Row(text) == {[a EXCEPT !.exit_code = run.exit] : a \in ParseAttestation(text)}
<1>2. PICK text \in Readable(doc) : row' = Row(text) /\ whole' = (text = doc)
  BY <1>1 DEF VisCompareReads
<1>3. IsPolicy(report.policy) /\ IsAttested(run)
  BY <1>1, DocumentsAssumption DEF IsRun
<1>4. doc \in Seq(Token)
  BY <1>3, AttestationTokens
<1>5. PartOf(text, doc)
  <2>. HIDE DEF doc
  <2>. QED BY <1>2, <1>4, ReadableIsPart
<1>6. ASSUME NEW b \in row'
      PROVE  \E a \in ParseAttestation(text) :
               /\ b.exit_code = run.exit
               /\ b.assigned = a.assigned /\ b.verdict = a.verdict
               /\ b.escapes = a.escapes /\ b.warnings = a.warnings
  <2>. HIDE DEF doc
  <2>1. PICK a \in ParseAttestation(text) : b = [a EXCEPT !.exit_code = run.exit]
    BY <1>2, <1>6
  <2>2. a = [assigned |-> a.assigned, exit_code |-> a.exit_code, verdict |-> a.verdict,
             escapes |-> a.escapes, warnings |-> a.warnings]
    BY DEF ParseAttestation
  <2>3. /\ b.exit_code = run.exit
        /\ b.assigned = a.assigned /\ b.verdict = a.verdict
        /\ b.escapes = a.escapes /\ b.warnings = a.warnings
    BY <2>1, <2>2
  <2>. QED BY <2>3
<1>7. ASSUME NEW b \in row'
      PROVE  /\ b.exit_code = run.exit /\ b.assigned = run.assigned
             /\ ~Misled(run.command) =>
                  /\ b.verdict = Verdict(run)
                  /\ b.warnings = Cardinality(Warnings(run.events))
                  /\ b.escapes >= Len(run.escapes)
                  /\ ~NamesAKey(run.command) => b.escapes = Len(run.escapes)
  <2>1. PICK a \in ParseAttestation(text) :
               /\ b.exit_code = run.exit
               /\ b.assigned = a.assigned /\ b.verdict = a.verdict
               /\ b.escapes = a.escapes /\ b.warnings = a.warnings
    BY <1>6
  <2>2. /\ a.assigned = run.assigned
        /\ ~Misled(run.command) =>
             /\ a.verdict = Verdict(run)
             /\ a.warnings = Cardinality(Warnings(run.events))
             /\ a.escapes >= Len(run.escapes)
             /\ ~NamesAKey(run.command) => a.escapes = Len(run.escapes)
    BY <1>3, <1>5, AttestationRead
  <2>. QED BY <2>1, <2>2, Zenon
<1>8. whole' /\ ~NamesAKey(run.command) => row' # {}
  <2>. SUFFICES ASSUME whole', ~NamesAKey(run.command) PROVE row' # {}
    OBVIOUS
  <2>1. ParseAttestation(doc) # {}
    BY <1>3, WholeIsRead
  <2>. HIDE DEF doc
  <2>2. text = doc
    BY <1>2
  <2>. QED BY <1>2, <2>1, <2>2
<1>9. AttestationIsReadAsWritten'
  <2>1. (Misleads <=> Misled(run.command)) /\ (NamesKey <=> NamesAKey(run.command))
        /\ Warnings(run.events) = {e \in run.events : e.severity = "warning"}
    BY Zenon DEF Misleads, Misled, NamesKey, NamesAKey, Warnings
  <2>2. (Misleads' <=> Misleads) /\ (NamesKey' <=> NamesKey)
    BY <1>1, Zenon DEF Misleads, NamesKey
  <2>3. Verdict(run') = Verdict(run) /\ run'.escapes = run.escapes
        /\ run'.assigned = run.assigned /\ run'.events = run.events
    BY <1>1
  <2>. QED BY <1>1, <1>7, <1>8, <2>1, <2>2, <2>3, Zenon DEF AttestationIsReadAsWritten
<1>. QED BY <1>1, <1>7, <1>9 DEF EvidenceInv

LEMMA EvidenceInvHolds == Spec => []EvidenceInv
<1>1. EvidenceInv /\ PolicyInv' /\ [Next]_vars => EvidenceInv'
  <2>. SUFFICES ASSUME EvidenceInv, PolicyInv', [Next]_vars PROVE EvidenceInv'
    OBVIOUS
  <2>1. CASE VisRunReads
    BY <2>1, VisRunReadsEvidence
  <2>2. CASE VisRunRuns
    BY <2>2, VisRunRunsEvidence
  <2>3. CASE VisCompareReads
    BY <2>3, VisCompareReadsEvidence
  <2>4. CASE UNCHANGED vars
    BY <2>4 DEF vars, EvidenceInv, AttestationIsReadAsWritten, Misleads, NamesKey
  <2>. QED BY <2>1, <2>2, <2>3, <2>4 DEF Next
<1>. QED BY <1>1, InitEvidence, PolicyInvHolds, PTL DEF Spec

LEMMA WholeIsKnown == Spec => [](whole \in BOOLEAN)
<1>1. Init => whole \in BOOLEAN
  BY DEF Init
<1>2. whole \in BOOLEAN /\ [Next]_vars => (whole \in BOOLEAN)'
  <2>. SUFFICES ASSUME whole \in BOOLEAN, [Next]_vars PROVE whole' \in BOOLEAN
    OBVIOUS
  <2>1. CASE VisRunReads
    <3>1. PICK text : whole' = (text = DoctorDocument(report))
      BY <2>1 DEF VisRunReads
    <3>2. (text = DoctorDocument(report)) \in BOOLEAN
      OBVIOUS
    <3>. QED BY <3>1, <3>2, Zenon
  <2>2. CASE VisRunRuns
    BY <2>2, Zenon DEF VisRunRuns
  <2>3. CASE VisCompareReads
    <3>1. PICK p, text : whole' = (text = AttestationDocument(p, run))
      BY <2>3 DEF VisCompareReads
    <3>2. (text = AttestationDocument(p, run)) \in BOOLEAN
      OBVIOUS
    <3>. QED BY <3>1, <3>2, Zenon
  <2>4. CASE UNCHANGED vars
    BY <2>4 DEF vars
  <2>. QED BY <2>1, <2>2, <2>3, <2>4 DEF Next
<1>. QED BY <1>1, <1>2, PTL DEF Spec

----------------------------------------------------------------------------
(* vis-compare takes no part of an attestation for the whole: of whatever  *)
(* was written of it, it reads the CPUs, the verdict and the warnings of   *)
(* the run that was attested and no fewer escapes, or refuses; and it does *)
(* read a whole one.  A command line can deceive it on all but the CPUs    *)
(* only with a word verdict and, behind it, a word that ends in a colon,   *)
(* and can make it refuse or count escapes in excess only with a key.      *)
(* (vis_compare_parse_run_attestation, vis_run_attestation_to_json)        *)
THEOREM AttestationIsRead == Spec => []AttestationIsReadAsWritten
<1>1. EvidenceInv => AttestationIsReadAsWritten
  BY DEF EvidenceInv
<1>. QED BY <1>1, EvidenceInvHolds, PTL

(* A run that vis-compare reads as clean was pinned to CPUs that Doctor    *)
(* listed for its profile, none contaminated, and was seen on no other,    *)
(* unless its command line misled vis-compare as above.                    *)
(* (the chain vis-doctor, vis-run, vis-compare)                            *)
THEOREM EvidenceFollows == Spec => []EvidenceFollowsPolicy
<1>1. EvidenceInv => EvidenceFollowsPolicy
  <2>. SUFFICES ASSUME EvidenceInv, NEW a \in row, a.exit_code = 0, a.escapes = 0
                PROVE  /\ run.applied /\ report.scan_ran
                       /\ a.assigned = (IF run.source = "primary" THEN report.policy.primary
                                        ELSE report.policy.secondary)
                       /\ a.assigned # {} /\ a.assigned \cap report.policy.contaminated = {}
                       /\ ~Misleads =>
                            \A i \in DOMAIN run.masks : run.masks[i] \subseteq a.assigned
    BY DEF EvidenceFollowsPolicy
  <2>1. pc = "compared" /\ policy = {report.policy} /\ report.scan_ran
        /\ IsRun(report.policy, run) /\ run.exit = 0
    BY DEF EvidenceInv, PolicyInv
  <2>2. a.assigned = run.assigned /\ (~Misleads => a.escapes >= Len(run.escapes))
    BY <2>1 DEF EvidenceInv, AttestationIsReadAsWritten
  <2>3. run.applied /\ Selectable(report.policy, run.source)
        /\ run.assigned = ListedCpus(report.policy, run.source)
        /\ run.source \in {"primary", "secondary"} /\ run.escapes \in Seq(CpuLists)
        /\ (run.escapes = <<>> => \A i \in DOMAIN run.masks : run.masks[i] \subseteq run.assigned)
    BY <2>1 DEF IsRun, IsAttested
  <2>4. run.assigned # {} /\ run.assigned \cap report.policy.contaminated = {}
    BY <2>3 DEF Selectable
  <2>5. run.assigned = (IF run.source = "primary" THEN report.policy.primary
                        ELSE report.policy.secondary)
    BY <2>3, <2>4 DEF ListedCpus
  <2>6. ~Misleads => run.escapes = <<>>
    BY <2>2, <2>3
  <2>. QED BY <2>1, <2>2, <2>3, <2>4, <2>5, <2>6, Zenon
<1>. QED BY <1>1, EvidenceInvHolds, PTL

(* The types: a policy that is read has the fields of one, and the CPUs    *)
(* and the exit codes of a run and of a row are CPUs and exit codes.       *)
(* (VisRunPolicy, VisRunResult and CompareProfileResult)                   *)
THEOREM TypeCorrectness == Spec => []TypeOK
<1>1. EvidenceInv /\ whole \in BOOLEAN => TypeOK
  <2>. SUFFICES ASSUME EvidenceInv, whole \in BOOLEAN PROVE TypeOK
    OBVIOUS
  <2>1. /\ pc \in {"vis-run", "refused", "workload", "attested", "unattested", "compared"}
        /\ report \in Reports /\ whole \in BOOLEAN
        /\ \A p \in policy : DOMAIN p = DOMAIN report.policy
    BY DEF EvidenceInv, PolicyInv
  <2>2. run = NoRun \/ IsRun(report.policy, run)
    BY <2>1 DEF EvidenceInv
  <2>3. run.assigned \subseteq Cpus /\ run.exit_code \in 0 .. 255 /\ run.exit \in 0 .. 255
    <3>1. CASE run = NoRun
      BY <3>1 DEF NoRun
    <3>2. CASE IsRun(report.policy, run)
      <4>1. /\ run.assigned = ListedCpus(report.policy, run.source)
            /\ run.source \in {"primary", "secondary"}
            /\ run.exit_code \in 0 .. 255 /\ run.exit \in 0 .. 255
        BY <3>2 DEF IsRun, IsAttested
      <4>2. run.assigned \subseteq report.policy.primary \cup report.policy.secondary
        BY <4>1 DEF ListedCpus
      <4>. QED BY <2>1, <4>1, <4>2 DEF Cpus
    <3>. QED BY <2>2, <3>1, <3>2
  <2>4. ASSUME NEW a \in row PROVE a.assigned = run.assigned /\ a.exit_code = run.exit
    BY <2>4 DEF EvidenceInv, AttestationIsReadAsWritten
  <2>. QED BY <2>1, <2>3, <2>4 DEF TypeOK
<1>. QED BY <1>1, EvidenceInvHolds, WholeIsKnown, PTL
=============================================================================
