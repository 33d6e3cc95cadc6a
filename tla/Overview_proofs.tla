--------------------------- MODULE Overview_proofs ---------------------------
(***************************************************************************)
(* Proofs about Overview, for every set of loaded runs: however many       *)
(* requests, steps and metrics they have, and whatever is missing.         *)
(*                                                                         *)
(* The first part is about sums over finite sets.  The model adds up with  *)
(* folds that choose an element at each step, so what a sum is worth is to *)
(* be shown before anything can be shown of a mean: Sigma is a sum without *)
(* its fold, and its lemmas add an element (SigmaAdd), subtract            *)
(* (SigmaMinus) and go group by group (SigmaFibers); TotalIs does the same *)
(* for fractions, over a common denominator.  The second part follows a    *)
(* latency from the markers of one request (PairSpan, SamplingSpan) over   *)
(* its row to the mean over the requests (CollectedMean).  The third shows *)
(* that the plan has one slice for each pair of markers (StageItems) and   *)
(* its rows their time (RowsOfStage), that the contract leaves no KPI      *)
(* without its value on one clock (RowWhole), and that hence the report,   *)
(* the plan and the trace agree (ReportsHold).  The last is about the      *)
(* sampled resources: values in order and what lies between them           *)
(* (StatisticsHold), quotients in lowest terms, which are equal only when  *)
(* they are the same (LowestSame), a walk along intervals in order         *)
(* (WalkAddsUp), and the moments of a window, which the weights of a mean  *)
(* count (MomentsAddUp), so that it is the mean over them (StageMeansHold).*)
(***************************************************************************)
EXTENDS Overview, TLAPS, FiniteSetTheorems

------------------------------------------------------------------------------
(* Induction over finite sets, and folds.                                      *)

\* The element a fold takes next.
Taken(s) == CHOOSE x \in s : TRUE

\* Some set of a family loses its place in it with any of its elements.
LEMMA HasSmallest ==
    ASSUME NEW S, IsFiniteSet(S), NEW Sets \in SUBSET SUBSET S, Sets # {}
    PROVE  \E T \in Sets : \A x \in T : T \ {x} \notin Sets
<1>1. Sets \subseteq FiniteSubsetsOf(S) /\ Sets # {}
  BY FS_Subset DEF FiniteSubsetsOf
<1>2. \E T \in Sets : \A R \in Sets : <<R, T>> \notin StrictSubsetOrdering(S)
  BY <1>1, WFMin, FS_StrictSubsetOrderingWellFounded
<1>3. PICK T \in Sets : \A R \in Sets : <<R, T>> \notin StrictSubsetOrdering(S)
  BY <1>2
<1>4. ASSUME NEW x \in T, T \ {x} \in Sets
      PROVE  FALSE
  <2>1. T \ {x} # T /\ T \ {x} \subseteq T /\ T \in SUBSET S /\ T \ {x} \in SUBSET S
    OBVIOUS
  <2> QED
    BY <1>3, <1>4, <2>1 DEF StrictSubsetOrdering
<1> QED
  BY <1>4

\* Induction over the subsets of a finite set, for a property given as a set:
\* adding any element keeps it, or taking back the one a fold takes.
LEMMA SetInduction ==
    ASSUME NEW S, IsFiniteSet(S), NEW F, {} \in F,
           \A T \in SUBSET S : \A x \in S \ T : T \in F => T \cup {x} \in F
    PROVE  SUBSET S \subseteq F
<1> DEFINE Bad == {T \in SUBSET S : T \notin F}
<1> SUFFICES ASSUME Bad # {} PROVE FALSE
  OBVIOUS
<1>1. Bad \in SUBSET SUBSET S
  OBVIOUS
<1>2. \E T \in Bad : \A x \in T : T \ {x} \notin Bad
  <2> HIDE DEF Bad
  <2> QED
    BY <1>1, HasSmallest
<1>3. PICK T \in Bad : \A x \in T : T \ {x} \notin Bad
  BY <1>2
<1>4. PICK x \in T : TRUE
  OBVIOUS
<1>5. T = (T \ {x}) \cup {x} /\ T \ {x} \in SUBSET S /\ x \in S \ (T \ {x})
  BY <1>4
<1>6. T \ {x} \in F
  BY <1>3, <1>4, <1>5
<1>7. (T \ {x}) \cup {x} \in F
  BY <1>5, <1>6
<1> QED
  BY <1>5, <1>7

\* The same, for what a fold does: taking away one element at a time.
LEMMA FoldInduction ==
    ASSUME NEW S, IsFiniteSet(S), NEW F, {} \in F,
           \A T \in SUBSET S : T # {} /\ T \ {Taken(T)} \in F => T \in F
    PROVE  SUBSET S \subseteq F
<1> DEFINE Bad == {T \in SUBSET S : T \notin F}
<1> SUFFICES ASSUME Bad # {} PROVE FALSE
  OBVIOUS
<1>1. Bad \in SUBSET SUBSET S
  OBVIOUS
<1>2. \E T \in Bad : \A x \in T : T \ {x} \notin Bad
  <2> HIDE DEF Bad
  <2> QED
    BY <1>1, HasSmallest
<1>3. PICK T \in Bad : \A x \in T : T \ {x} \notin Bad
  BY <1>2
<1>4. Taken(T) \in T /\ T # {}
  BY DEF Taken
<1>5. T \ {Taken(T)} \in F
  BY <1>3, <1>4
<1> QED
  BY <1>3, <1>4, <1>5

\* it folds the subsets of S, where step[<<x, v>>] adds x to v.
FoldsBy(it, S, V, base, step) ==
    /\ it \in [SUBSET S -> V]
    /\ \A s \in SUBSET S :
          it[s] = IF s = {} THEN base ELSE step[<<Taken(s), it[s \ {Taken(s)}]>>]

\* What a fold defines by itself is defined: the function is there for every step.
LEMMA FoldExists ==
    ASSUME NEW S, IsFiniteSet(S), NEW V, NEW base \in V, NEW step \in [S \X V -> V]
    PROVE  \E it : FoldsBy(it, S, V, base, step)
<1> DEFINE Is(it, s) == it[s] = IF s = {} THEN base ELSE step[<<Taken(s), it[s \ {Taken(s)}]>>]
           F == {T \in SUBSET S : \E it \in [SUBSET S -> V] : \A s \in SUBSET S :
                                     Cardinality(s) <= Cardinality(T) => Is(it, s)}
<1>1. \A s \in SUBSET S : IsFiniteSet(s) /\ Cardinality(s) \in Nat
  BY FS_Subset, FS_CardinalityType
<1>2. \A s \in SUBSET S : s # {} =>
         /\ Taken(s) \in s /\ s \ {Taken(s)} \in SUBSET S
         /\ Cardinality(s \ {Taken(s)}) = Cardinality(s) - 1
  <2> TAKE s \in SUBSET S
  <2> HAVE s # {}
  <2>1. Taken(s) \in s
    BY DEF Taken
  <2> QED
    BY <2>1, <1>1, FS_RemoveElement
<1>3. {} \in F
  <2> DEFINE it == [s \in SUBSET S |-> base]
  <2>1. it \in [SUBSET S -> V]
    OBVIOUS
  <2>2. \A s \in SUBSET S : Cardinality(s) <= Cardinality({}) => Is(it, s)
    BY <1>1, FS_EmptySet
  <2> QED
    BY <2>1, <2>2
<1>4. ASSUME NEW T \in SUBSET S, NEW x \in S \ T, T \in F
      PROVE  T \cup {x} \in F
  <2>1. PICK it \in [SUBSET S -> V] : \A s \in SUBSET S : Cardinality(s) <= Cardinality(T) => Is(it, s)
    BY <1>4
  <2>2. Cardinality(T \cup {x}) = Cardinality(T) + 1
    BY <1>1, FS_AddElement
  <2> DEFINE jt == [s \in SUBSET S |->
                      IF Cardinality(s) <= Cardinality(T) THEN it[s]
                      ELSE step[<<Taken(s), it[s \ {Taken(s)}]>>]]
  <2>3. ASSUME NEW s \in SUBSET S, ~(Cardinality(s) <= Cardinality(T))
        PROVE  s # {} /\ step[<<Taken(s), it[s \ {Taken(s)}]>>] \in V
    <3>1. s # {}
      BY <2>3, <1>1, FS_EmptySet
    <3> QED
      BY <3>1, <1>2
  <2>4. jt \in [SUBSET S -> V]
    BY <2>3
  <2>5. ASSUME NEW s \in SUBSET S, Cardinality(s) <= Cardinality(T) + 1
        PROVE  Is(jt, s)
    <3>1. CASE s = {}
      BY <3>1, <1>1, <2>1, FS_EmptySet
    <3>2. CASE s # {}
      <4>1. Cardinality(s \ {Taken(s)}) <= Cardinality(T) /\ s \ {Taken(s)} \in SUBSET S
        BY <1>1, <1>2, <2>5, <3>2
      <4>2. jt[s \ {Taken(s)}] = it[s \ {Taken(s)}]
        BY <4>1
      <4>3. jt[s] = step[<<Taken(s), it[s \ {Taken(s)}]>>]
        BY <2>1, <3>2
      <4> QED
        BY <3>2, <4>2, <4>3
    <3> QED
      BY <3>1, <3>2
  <2>6. \A s \in SUBSET S : Cardinality(s) <= Cardinality(T \cup {x}) => Is(jt, s)
    BY <2>2, <2>5
  <2>7. T \cup {x} \in SUBSET S
    OBVIOUS
  <2> HIDE DEF jt, Is
  <2> QED
    BY <2>4, <2>6, <2>7
<1>5. S \in F
  <2> HIDE DEF F
  <2> QED
    BY <1>3, <1>4, SetInduction
<1>6. PICK it \in [SUBSET S -> V] : \A s \in SUBSET S : Cardinality(s) <= Cardinality(S) => Is(it, s)
  BY <1>5
<1>7. \A s \in SUBSET S : Cardinality(s) <= Cardinality(S)
  BY FS_Subset
<1>8. FoldsBy(it, S, V, base, step)
  BY <1>6, <1>7 DEF FoldsBy
<1> QED
  BY <1>8

\* The same steps, whatever the values between them.
Follows(jt, S, V, base, step) ==
    /\ jt[{}] = base
    /\ \A s \in SUBSET S : s # {} /\ jt[s \ {Taken(s)}] \in V
                              => jt[s] = step[<<Taken(s), jt[s \ {Taken(s)}]>>]

\* Two folds that start alike and take the same steps come to the same.
LEMMA FoldUnique ==
    ASSUME NEW S, IsFiniteSet(S), NEW V, NEW base, NEW step,
           NEW it, FoldsBy(it, S, V, base, step), NEW jt, Follows(jt, S, V, base, step)
    PROVE  jt[S] = it[S]
<1> DEFINE F == {s \in SUBSET S : jt[s] = it[s]}
<1>1. {} \in F
  BY DEF FoldsBy, Follows
<1>2. ASSUME NEW T \in SUBSET S, T # {}, T \ {Taken(T)} \in F
      PROVE  T \in F
  <2>1. T \ {Taken(T)} \in SUBSET S
    OBVIOUS
  <2>2. jt[T \ {Taken(T)}] = it[T \ {Taken(T)}] /\ jt[T \ {Taken(T)}] \in V
    BY <1>2, <2>1 DEF FoldsBy
  <2> QED
    BY <1>2, <2>2 DEF FoldsBy, Follows
<1>3. SUBSET S \subseteq F
  <2> HIDE DEF F
  <2> QED
    BY <1>1, <1>2, FoldInduction
<1> QED
  BY <1>3

------------------------------------------------------------------------------
(* Sums of integers: Sigma(g, S) is the sum of g[x] over the x of S.           *)

Adds(it, g, S) ==
    /\ it \in [SUBSET S -> Int]
    /\ \A s \in SUBSET S : it[s] = IF s = {} THEN 0 ELSE g[Taken(s)] + it[s \ {Taken(s)}]
Sigma(g, S) == (CHOOSE it : Adds(it, g, S))[S]
Summable(g, S) == IsFiniteSet(S) /\ \A x \in S : g[x] \in Int

\* The sums of all the subsets of S are there.
LEMMA AddsExists ==
    ASSUME NEW g, NEW S, Summable(g, S)
    PROVE  \E it : Adds(it, g, S)
<1> DEFINE step == [p \in S \X Int |-> g[p[1]] + p[2]]
<1>1. step \in [S \X Int -> Int] /\ 0 \in Int /\ IsFiniteSet(S)
  BY DEF Summable
<1>2. \E it : FoldsBy(it, S, Int, 0, step)
  <2> HIDE DEF step
  <2> QED
    BY <1>1, FoldExists, Zenon
<1>3. PICK it : FoldsBy(it, S, Int, 0, step)
  BY <1>2
<1>4. \A s \in SUBSET S : s # {} =>
         step[<<Taken(s), it[s \ {Taken(s)}]>>] = g[Taken(s)] + it[s \ {Taken(s)}]
  <2> TAKE s \in SUBSET S
  <2> HAVE s # {}
  <2>1. Taken(s) \in S /\ s \ {Taken(s)} \in SUBSET S
    BY DEF Taken
  <2> QED
    BY <1>3, <2>1 DEF FoldsBy
<1> HIDE DEF step
<1>5. Adds(it, g, S)
  BY <1>3, <1>4 DEF Adds, FoldsBy
<1> QED
  BY <1>5

\* A sum may take its elements in any order.
LEMMA AddsAny ==
    ASSUME NEW g, NEW S, Summable(g, S), NEW it, Adds(it, g, S)
    PROVE  \A s \in SUBSET S : \A x \in s : it[s] = g[x] + it[s \ {x}]
<1> DEFINE Is(s) == \A x \in s : it[s] = g[x] + it[s \ {x}]
           F == {T \in SUBSET S : \A s \in SUBSET S : Cardinality(s) <= Cardinality(T) => Is(s)}
<1>1. \A s \in SUBSET S : IsFiniteSet(s) /\ Cardinality(s) \in Nat
  BY FS_Subset, FS_CardinalityType DEF Summable
<1>2. \A s \in SUBSET S : \A x \in s :
         s \ {x} \in SUBSET S /\ Cardinality(s \ {x}) = Cardinality(s) - 1
  BY <1>1, FS_RemoveElement
<1>3. {} \in F
  <2>1. Cardinality({}) = 0 /\ \A s \in SUBSET S : Cardinality(s) <= 0 => s = {}
    BY <1>1, FS_EmptySet
  <2> QED
    BY <2>1
<1>4. ASSUME NEW T \in SUBSET S, NEW y \in S \ T, T \in F
      PROVE  T \cup {y} \in F
  <2>1. Cardinality(T \cup {y}) = Cardinality(T) + 1
    BY <1>1, FS_AddElement
  <2>2. ASSUME NEW s \in SUBSET S, Cardinality(s) <= Cardinality(T) + 1, NEW x \in s
        PROVE  it[s] = g[x] + it[s \ {x}]
    <3> DEFINE p == Taken(s)
    <3>1. p \in s
      BY DEF Taken
    <3>2. it[s] = g[p] + it[s \ {p}]
      BY <3>1 DEF Adds
    <3> HIDE DEF p
    <3>3. CASE p = x
      BY <3>2, <3>3
    <3>4. CASE p # x
      <4>1. Is(s \ {p}) /\ Is(s \ {x})
        <5>1. Cardinality(s \ {p}) <= Cardinality(T) /\ Cardinality(s \ {x}) <= Cardinality(T)
          BY <1>1, <1>2, <2>2, <3>1
        <5> QED
          BY <5>1, <1>2, <1>4, <2>2, <3>1
      <4>2. it[s \ {p}] = g[x] + it[(s \ {p}) \ {x}] /\ it[s \ {x}] = g[p] + it[(s \ {x}) \ {p}]
        BY <4>1, <3>1, <3>4
      <4>3. (s \ {p}) \ {x} = (s \ {x}) \ {p} /\ (s \ {p}) \ {x} \in SUBSET S
        OBVIOUS
      <4>4. g[x] \in Int /\ g[p] \in Int /\ it[(s \ {p}) \ {x}] \in Int
        BY <3>1, <4>3 DEF Summable, Adds
      <4>5. it[s \ {x}] = g[p] + it[(s \ {p}) \ {x}]
        BY <4>2, <4>3
      <4> HIDE DEF Is, F
      <4> QED
        BY <3>2, <4>2, <4>4, <4>5
    <3> QED
      BY <3>3, <3>4
  <2>3. \A s \in SUBSET S : Cardinality(s) <= Cardinality(T \cup {y}) => Is(s)
    BY <2>1, <2>2
  <2> HIDE DEF Is
  <2> QED
    BY <2>3
<1>5. S \in F
  <2> HIDE DEF F
  <2> QED
    BY <1>3, <1>4, SetInduction DEF Summable
<1>6. \A s \in SUBSET S : Cardinality(s) <= Cardinality(S)
  BY FS_Subset DEF Summable
<1> QED
  BY <1>5, <1>6

\* Two functions that agree have the same sums.
LEMMA AddsSame ==
    ASSUME NEW f, NEW g, NEW S, Summable(f, S), \A x \in S : f[x] = g[x],
           NEW it, Adds(it, f, S), NEW jt, Adds(jt, g, S)
    PROVE  \A s \in SUBSET S : it[s] = jt[s]
<1> DEFINE F == {s \in SUBSET S : it[s] = jt[s]}
<1>1. {} \in F
  BY DEF Adds
<1>2. Summable(g, S)
  BY DEF Summable
<1>3. ASSUME NEW T \in SUBSET S, NEW x \in S \ T, T \in F
      PROVE  T \cup {x} \in F
  <2>1. (T \cup {x}) \ {x} = T /\ T \cup {x} \in SUBSET S
    OBVIOUS
  <2>2. it[T \cup {x}] = f[x] + it[T]
    BY <2>1, AddsAny
  <2>3. jt[T \cup {x}] = g[x] + jt[T]
    BY <1>2, <2>1, AddsAny
  <2> QED
    BY <1>3, <2>1, <2>2, <2>3
<1> HIDE DEF F
<1>4. SUBSET S \subseteq F
  BY <1>1, <1>3, SetInduction DEF Summable
<1> QED
  BY <1>4 DEF F

\* What the sum is, without its fold.
LEMMA SigmaIs ==
    ASSUME NEW g, NEW S, Summable(g, S), NEW it, Adds(it, g, S)
    PROVE  Sigma(g, S) = it[S] /\ Sigma(g, S) \in Int
<1>1. Adds(CHOOSE jt : Adds(jt, g, S), g, S)
  OBVIOUS
<1>2. (CHOOSE jt : Adds(jt, g, S))[S] = it[S]
  <2> DEFINE jt == CHOOSE kt : Adds(kt, g, S)
  <2> HIDE DEF jt
  <2>1. Adds(jt, g, S)
    BY <1>1 DEF jt
  <2>2. jt[S] = it[S]
    BY <2>1, AddsSame
  <2> QED
    BY <2>2 DEF jt
<1>3. it[S] \in Int
  BY DEF Adds
<1> QED
  BY <1>2, <1>3 DEF Sigma

\* A sum of whole numbers is one.
LEMMA SigmaInt ==
    ASSUME NEW g, NEW S, Summable(g, S)
    PROVE  Sigma(g, S) \in Int
BY AddsExists, SigmaIs

\* The sum of nothing, of one number, of zeros.
LEMMA SigmaEmpty == ASSUME NEW g PROVE Sigma(g, {}) = 0
<1>1. Summable(g, {})
  BY FS_EmptySet DEF Summable
<1>2. PICK it : Adds(it, g, {})
  BY <1>1, AddsExists
<1> QED
  BY <1>1, <1>2, SigmaIs DEF Adds

\* Equal numbers have equal sums.
LEMMA SigmaSame ==
    ASSUME NEW f, NEW g, NEW S, Summable(f, S), \A x \in S : f[x] = g[x]
    PROVE  Sigma(f, S) = Sigma(g, S)
<1>1. Summable(g, S)
  BY DEF Summable
<1>2. PICK it : Adds(it, f, S)
  BY AddsExists
<1>3. PICK jt : Adds(jt, g, S)
  BY <1>1, AddsExists
<1>4. it[S] = jt[S]
  BY <1>2, <1>3, AddsSame
<1> QED
  BY <1>1, <1>2, <1>3, <1>4, SigmaIs

\* One number more.
LEMMA SigmaAdd ==
    ASSUME NEW g, NEW S, NEW x, x \notin S, Summable(g, S \cup {x})
    PROVE  Sigma(g, S \cup {x}) = Sigma(g, S) + g[x]
<1>1. PICK it : Adds(it, g, S \cup {x})
  BY AddsExists
<1>2. Summable(g, S)
  BY FS_Subset DEF Summable
<1> DEFINE jt == [s \in SUBSET S |-> it[s]]
<1>3. Adds(jt, g, S)
  <2>1. \A s \in SUBSET S : s \in SUBSET (S \cup {x}) /\ s \ {Taken(s)} \in SUBSET S
    OBVIOUS
  <2>2. jt \in [SUBSET S -> Int]
    BY <1>1, <2>1 DEF Adds
  <2> QED
    BY <1>1, <2>1, <2>2 DEF Adds
<1>4. it[S \cup {x}] = g[x] + it[S]
  <2>1. (S \cup {x}) \ {x} = S
    OBVIOUS
  <2> QED
    BY <1>1, <2>1, AddsAny
<1>5. Sigma(g, S) = it[S]
  BY <1>2, <1>3, SigmaIs
<1>6. Sigma(g, S \cup {x}) = it[S \cup {x}]
  BY <1>1, SigmaIs
<1>7. it[S] \in Int /\ g[x] \in Int
  BY <1>1 DEF Adds, Summable
<1> QED
  BY <1>4, <1>5, <1>6, <1>7

\* Some of the numbers can be added up too.
LEMMA SummableSub ==
    ASSUME NEW g, NEW S, Summable(g, S), NEW T \in SUBSET S
    PROVE  Summable(g, T)
BY FS_Subset DEF Summable

\* The sum over one element.
LEMMA SigmaOne ==
    ASSUME NEW g, NEW x, g[x] \in Int
    PROVE  Sigma(g, {x}) = g[x]
<1>1. Summable(g, {} \cup {x})
  BY FS_EmptySet, FS_AddElement DEF Summable
<1>2. Sigma(g, {} \cup {x}) = Sigma(g, {}) + g[x]
  BY <1>1, SigmaAdd
<1>3. {} \cup {x} = {x}
  OBVIOUS
<1> QED
  BY <1>2, <1>3, SigmaEmpty

\* Nothing but zeros adds up to zero.
LEMMA SigmaZero ==
    ASSUME NEW g, NEW S, IsFiniteSet(S), \A x \in S : g[x] = 0
    PROVE  Sigma(g, S) = 0
<1> DEFINE F == {T \in SUBSET S : Sigma(g, T) = 0}
<1>1. {} \in F
  BY SigmaEmpty
<1>2. ASSUME NEW T \in SUBSET S, NEW x \in S \ T, T \in F
      PROVE  T \cup {x} \in F
  <2>1. Summable(g, T \cup {x})
    BY FS_Subset DEF Summable
  <2>2. Sigma(g, T \cup {x}) = Sigma(g, T) + g[x]
    BY <2>1, SigmaAdd
  <2> QED
    BY <1>2, <2>2
<1>3. SUBSET S \subseteq F
  <2> HIDE DEF F
  <2> QED
    BY <1>1, <1>2, SetInduction
<1> QED
  BY <1>3

\* The sum of the differences is the difference of the sums.
LEMMA SigmaMinus ==
    ASSUME NEW f, NEW g, NEW h, NEW S, Summable(f, S), Summable(g, S),
           \A x \in S : h[x] = f[x] - g[x]
    PROVE  Sigma(h, S) = Sigma(f, S) - Sigma(g, S)
<1> DEFINE F == {T \in SUBSET S : Sigma(h, T) = Sigma(f, T) - Sigma(g, T)}
<1>0. Summable(h, S)
  BY DEF Summable
<1>1. {} \in F
  BY SigmaEmpty
<1>2. ASSUME NEW T \in SUBSET S, NEW x \in S \ T, T \in F
      PROVE  T \cup {x} \in F
  <2>1. /\ Summable(f, T \cup {x}) /\ Summable(g, T \cup {x}) /\ Summable(h, T \cup {x})
        /\ Summable(f, T) /\ Summable(g, T)
    BY <1>0, SummableSub
  <2>2. /\ Sigma(f, T \cup {x}) = Sigma(f, T) + f[x]
        /\ Sigma(g, T \cup {x}) = Sigma(g, T) + g[x]
        /\ Sigma(h, T \cup {x}) = Sigma(h, T) + h[x]
    BY <2>1, SigmaAdd
  <2>3. Sigma(f, T) \in Int /\ Sigma(g, T) \in Int /\ f[x] \in Int /\ g[x] \in Int
    BY <2>1, SigmaInt DEF Summable
  <2> QED
    BY <1>2, <2>2, <2>3
<1>3. SUBSET S \subseteq F
  <2>1. IsFiniteSet(S)
    BY DEF Summable
  <2> HIDE DEF F
  <2> QED
    BY <1>1, <1>2, <2>1, SetInduction
<1> QED
  BY <1>3

\* One value more at one place.
LEMMA SigmaBump ==
    ASSUME NEW f, NEW g, NEW C, NEW c \in C, NEW v \in Int, Summable(f, C),
           \A d \in C \ {c} : g[d] = f[d], g[c] = f[c] + v
    PROVE  Sigma(g, C) = Sigma(f, C) + v
<1> DEFINE D == C \ {c}
<1>1. C = D \cup {c} /\ c \notin D /\ D \in SUBSET C
  OBVIOUS
<1>2. Summable(g, C) /\ Summable(f, D)
  BY <1>1, SummableSub DEF Summable
<1>3. Sigma(g, D) = Sigma(f, D)
  <2>1. \A d \in D : f[d] = g[d]
    OBVIOUS
  <2> HIDE DEF D
  <2> QED
    BY <1>2, <2>1, SigmaSame
<1> HIDE DEF D
<1>4. Sigma(g, C) = Sigma(g, D) + g[c] /\ Sigma(f, C) = Sigma(f, D) + f[c]
  BY <1>1, <1>2, SigmaAdd
<1>5. Sigma(f, D) \in Int /\ f[c] \in Int
  BY <1>2, SigmaInt DEF Summable
<1> QED
  BY <1>3, <1>4, <1>5

\* A sum may be taken group by group.
LEMMA SigmaFibers ==
    ASSUME NEW g, NEW S, Summable(g, S), NEW C, IsFiniteSet(C), NEW k \in [S -> C]
    PROVE  Sigma(g, S) = Sigma([c \in C |-> Sigma(g, {x \in S : k[x] = c})], C)
<1> DEFINE Fib(T, c) == {x \in T : k[x] = c}
           By(T) == [c \in C |-> Sigma(g, Fib(T, c))]
           F == {T \in SUBSET S : Sigma(g, T) = Sigma(By(T), C)}
<1>1. {} \in F
  <2>1. \A c \in C : By({})[c] = 0
    <3> TAKE c \in C
    <3>1. Fib({}, c) = {}
      OBVIOUS
    <3> HIDE DEF Fib
    <3> QED
      BY <3>1, SigmaEmpty
  <2>2. Sigma(By({}), C) = 0
    <3> HIDE DEF By
    <3> QED
      BY <2>1, SigmaZero
  <2> HIDE DEF By
  <2> QED
    BY <2>2, SigmaEmpty
<1>2. ASSUME NEW T \in SUBSET S, NEW x \in S \ T, T \in F
      PROVE  T \cup {x} \in F
  <2> DEFINE U == T \cup {x}
  <2>1. k[x] \in C /\ U \in SUBSET S /\ x \in S /\ x \notin T /\ g[x] \in Int
    BY DEF Summable
  <2>2. \A c \in C : Fib(T, c) \in SUBSET S /\ Fib(U, c) \in SUBSET S
    OBVIOUS
  <2>3. \A c \in C \ {k[x]} : Fib(U, c) = Fib(T, c)
    OBVIOUS
  <2>4. Fib(U, k[x]) = Fib(T, k[x]) \cup {x} /\ x \notin Fib(T, k[x])
    OBVIOUS
  <2> HIDE DEF Fib, U
  <2>5. Summable(By(T), C)
    <3>1. \A c \in C : Sigma(g, Fib(T, c)) \in Int
      BY <2>2, SummableSub, SigmaInt
    <3> QED
      BY <3>1 DEF Summable
  <2>6. \A c \in C \ {k[x]} : By(U)[c] = By(T)[c]
    BY <2>3
  <2>7. By(U)[k[x]] = By(T)[k[x]] + g[x]
    <3>1. Summable(g, Fib(T, k[x]) \cup {x})
      BY <2>1, <2>2, <2>4, SummableSub
    <3>2. Sigma(g, Fib(U, k[x])) = Sigma(g, Fib(T, k[x])) + g[x]
      BY <2>4, <3>1, SigmaAdd
    <3> QED
      BY <2>1, <3>2
  <2>8. Sigma(By(U), C) = Sigma(By(T), C) + g[x]
    <3> HIDE DEF By
    <3> QED
      BY <2>1, <2>5, <2>6, <2>7, SigmaBump
  <2>9. Sigma(g, U) = Sigma(g, T) + g[x]
    <3>1. Summable(g, T \cup {x})
      BY <2>1, SummableSub DEF U
    <3> QED
      BY <2>1, <3>1, SigmaAdd DEF U
  <2> HIDE DEF By
  <2> QED
    BY <1>2, <2>1, <2>8, <2>9 DEF U
<1>3. SUBSET S \subseteq F
  <2>1. IsFiniteSet(S)
    BY DEF Summable
  <2> HIDE DEF F
  <2> QED
    BY <1>1, <1>2, <2>1, SetInduction
<1> QED
  BY <1>3

------------------------------------------------------------------------------
(* Fractions.  Denotes(f, a, b) says that f is a / b.                          *)

Denotes(f, a, b) == f.n * b = a * f.d

\* Finitely many whole numbers have a greatest and a least one.
LEMMA HasGreatest ==
    ASSUME NEW S, IsFiniteSet(S), S # {}, S \subseteq Int
    PROVE  \E x \in S : \A y \in S : x >= y
<1> DEFINE F == {T \in SUBSET S : T # {} => \E x \in T : \A y \in T : x >= y}
<1>1. {} \in F
  OBVIOUS
<1>2. ASSUME NEW T \in SUBSET S, NEW z \in S \ T, T \in F
      PROVE  T \cup {z} \in F
  <2>1. CASE T = {}
    BY <2>1
  <2>2. CASE T # {}
    <3>1. PICK x \in T : \A y \in T : x >= y
      BY <1>2, <2>2
    <3>2. x \in Int /\ z \in Int /\ \A y \in T : y \in Int
      OBVIOUS
    <3>3. CASE z >= x
      <4>1. \A y \in T \cup {z} : z >= y
        BY <3>1, <3>2, <3>3
      <4> QED
        BY <4>1
    <3>4. CASE x >= z
      <4>1. \A y \in T \cup {z} : x >= y
        BY <3>1, <3>2, <3>4
      <4> QED
        BY <4>1
    <3> QED
      BY <3>2, <3>3, <3>4
  <2> QED
    BY <2>1, <2>2
<1>3. SUBSET S \subseteq F
  <2> HIDE DEF F
  <2> QED
    BY <1>1, <1>2, SetInduction
<1> QED
  BY <1>3

\* A fraction in lowest terms is the quotient it was made from.
LEMMA OverIs ==
    ASSUME NEW n \in Int, NEW d \in Nat \ {0}
    PROVE  Over(n, d) \in Fraction /\ Denotes(Over(n, d), n, d)
<1> DEFINE C == {k \in 1..d : n % k = 0 /\ d % k = 0}
           c == Max(C)
<1>1. IsFiniteSet(C) /\ C \subseteq Int /\ C # {}
  <2>1. IsFiniteSet(1..d)
    <3>1. 1 \in Int /\ d \in Int
      OBVIOUS
    <3> QED
      BY <3>1, FS_Interval
  <2>2. C \subseteq 1..d
    OBVIOUS
  <2>3. 1 \in C /\ 1..d \subseteq Int
    <3>1. 1 \in 1..d /\ n % 1 = 0 /\ d % 1 = 0
      OBVIOUS
    <3> QED
      BY <3>1
  <2> HIDE DEF C
  <2> QED
    BY <2>1, <2>2, <2>3, FS_Subset
<1>2. c \in C
  <2> HIDE DEF C
  <2>1. \E x \in C : \A y \in C : x >= y
    BY <1>1, HasGreatest
  <2> QED
    BY <2>1 DEF Max
<1> HIDE DEF c
<1>3. c \in 1..d /\ n % c = 0 /\ d % c = 0
  BY <1>2
<1>4. n \div c \in Int /\ d \div c \in Int /\ n = c * (n \div c) /\ d = c * (d \div c)
  BY <1>3
<1>5. d \div c \in Nat \ {0}
  BY <1>3, <1>4
<1>6. Over(n, d) = [n |-> n \div c, d |-> d \div c]
  BY DEF Over, c
<1>7. (n \div c) * d = n * (d \div c)
  <2> DEFINE p == n \div c
             q == d \div c
  <2>1. p \in Int /\ q \in Int /\ c \in Int /\ n = c * p /\ d = c * q
    BY <1>3, <1>4
  <2> HIDE DEF p, q
  <2>2. p * (c * q) = (c * p) * q
    BY <2>1
  <2>3. p * d = n * q
    BY <2>1, <2>2
  <2> QED
    BY <2>3 DEF p, q
<1> QED
  BY <1>4, <1>5, <1>6, <1>7 DEF Fraction, Denotes

\* A quotient by one.
LEMMA OverOne ==
    ASSUME NEW n \in Int
    PROVE  Over(n, 1) = Whole(n)
<1> DEFINE C == {k \in 1..1 : n % k = 0 /\ 1 % k = 0}
<1>1. C = {1}
  OBVIOUS
<1>2. Max(C) = 1
  <2> HIDE DEF C
  <2> QED
    BY <1>1 DEF Max
<1>3. n \div 1 = n /\ 1 \div 1 = 1
  OBVIOUS
<1> QED
  BY <1>2, <1>3 DEF Over, Whole

\* The sum of two fractions with one denominator.
LEMMA PlusIs ==
    ASSUME NEW a \in Fraction, NEW b \in Fraction
    PROVE  /\ Plus(a, b) \in Fraction
           /\ \A D \in Nat \ {0}, x, y \in Int :
                 Denotes(a, x, D) /\ Denotes(b, y, D) => Denotes(Plus(a, b), x + y, D)
<1>1. a.n \in Int /\ b.n \in Int /\ a.d \in Nat \ {0} /\ b.d \in Nat \ {0}
  BY DEF Fraction
<1>2. a.d * b.d \in Nat \ {0} /\ a.n * b.d + b.n * a.d \in Int
  BY <1>1
<1> DEFINE r == Over(a.n * b.d + b.n * a.d, a.d * b.d)
<1>3. r \in Fraction /\ r.n * (a.d * b.d) = (a.n * b.d + b.n * a.d) * r.d
  BY <1>2, OverIs DEF Denotes
<1> HIDE DEF r
<1>4. r.n \in Int /\ r.d \in Nat \ {0}
  BY <1>3 DEF Fraction
<1>5. ASSUME NEW D \in Nat \ {0}, NEW x \in Int, NEW y \in Int,
             a.n * D = x * a.d, b.n * D = y * b.d
      PROVE  r.n * D = (x + y) * r.d
  <2> DEFINE m == a.d * b.d
             p == r.n
             q == r.d
             s == a.n
             t == b.n
             u == a.d
             v == b.d
  <2>1. p \in Int /\ q \in Int /\ s \in Int /\ t \in Int /\ u \in Int /\ v \in Int /\ D \in Int /\ u * v # 0
    BY <1>1, <1>2, <1>4
  <2>2. p * (u * v) = (s * v + t * u) * q
    BY <1>3
  <2>3. s * D = x * u /\ t * D = y * v
    BY <1>5
  <2> HIDE DEF p, q, s, t, u, v
  <2>4. (p * D) * (u * v) = ((s * v + t * u) * q) * D
    BY <2>1, <2>2
  <2>5. ((s * v + t * u) * q) * D = ((s * D) * v + (t * D) * u) * q
    BY <2>1
  <2>6. ((x * u) * v + (y * v) * u) * q = ((x + y) * q) * (u * v)
    BY <2>1
  <2>7. (p * D) * (u * v) = ((x + y) * q) * (u * v)
    BY <2>3, <2>4, <2>5, <2>6
  <2>8. p * D = (x + y) * q
    BY <2>1, <2>7
  <2> QED
    BY <2>8 DEF p, q
<1> QED
  BY <1>3, <1>5 DEF Denotes, Plus, r

\* A whole number is a fraction over every denominator.
LEMMA WholeIs ==
    ASSUME NEW n \in Int
    PROVE  Whole(n) \in Fraction /\ \A D \in Int : Denotes(Whole(n), n * D, D)
BY DEF Whole, Fraction, Denotes

\* The total of fractions, unfolded.
Steps(values, S) == [p \in S \X Fraction |-> Plus(values[p[1]], p[2])]

\* The total of fractions is such a fold.
LEMMA TotalFolds ==
    ASSUME NEW S, IsFiniteSet(S), NEW values \in [S -> Fraction]
    PROVE  \E it : FoldsBy(it, S, Fraction, Whole(0), Steps(values, S)) /\ Total(values) = it[S]
<1> DEFINE R(jt) == jt = [s \in SUBSET S |->
                           IF s = {} THEN Whole(0)
                           ELSE LET x == CHOOSE x \in s : TRUE IN Plus(values[x], jt[s \ {x}])]
<1>1. Steps(values, S) \in [S \X Fraction -> Fraction] /\ Whole(0) \in Fraction
  BY PlusIs, WholeIs DEF Steps
<1>2. PICK it : FoldsBy(it, S, Fraction, Whole(0), Steps(values, S))
  BY <1>1, FoldExists, Zenon
<1>3. \A s \in SUBSET S : s # {} => Taken(s) \in S /\ s \ {Taken(s)} \in SUBSET S
  BY DEF Taken
<1>4. R(it)
  <2>1. \A s \in SUBSET S : s # {} =>
           Steps(values, S)[<<Taken(s), it[s \ {Taken(s)}]>>]
             = Plus(values[Taken(s)], it[s \ {Taken(s)}])
    BY <1>2, <1>3 DEF FoldsBy, Steps
  <2>2. it = [s \in SUBSET S |->
                IF s = {} THEN Whole(0) ELSE Plus(values[Taken(s)], it[s \ {Taken(s)}])]
    BY <1>2, <2>1 DEF FoldsBy
  <2> QED
    BY <2>2 DEF Taken
<1>5. Total(values) = (CHOOSE jt : R(jt))[S]
  BY DEF Total, FoldFunction, FoldFunctionOnSet, MapThenFoldSet
<1> DEFINE jt == CHOOSE kt : R(kt)
<1>6. R(jt)
  BY <1>4
<1> HIDE DEF jt
<1>7. jt[{}] = Whole(0)
  BY <1>6
<1>8. \A s \in SUBSET S : s # {} /\ jt[s \ {Taken(s)}] \in Fraction
         => jt[s] = Steps(values, S)[<<Taken(s), jt[s \ {Taken(s)}]>>]
  <2> TAKE s \in SUBSET S
  <2> HAVE s # {} /\ jt[s \ {Taken(s)}] \in Fraction
  <2>1. jt[s] = Plus(values[Taken(s)], jt[s \ {Taken(s)}])
    BY <1>6 DEF Taken
  <2> HIDE DEF R
  <2> QED
    BY <1>3, <2>1 DEF Steps
<1>9. jt[S] = it[S]
  <2> HIDE DEF R
  <2>1. Follows(jt, S, Fraction, Whole(0), Steps(values, S))
    BY <1>7, <1>8 DEF Follows
  <2> QED
    BY <1>2, <2>1, FoldUnique
<1> QED
  BY <1>2, <1>5, <1>9 DEF jt

\* The total over a common denominator is the sum of the numerators.
LEMMA TotalIs ==
    ASSUME NEW S, IsFiniteSet(S), NEW values \in [S -> Fraction]
    PROVE  /\ Total(values) \in Fraction
           /\ \A D \in Nat \ {0}, A \in [S -> Int] :
                 (\A x \in S : Denotes(values[x], A[x], D)) => Denotes(Total(values), Sigma(A, S), D)
<1>1. PICK it : FoldsBy(it, S, Fraction, Whole(0), Steps(values, S)) /\ Total(values) = it[S]
  BY TotalFolds
<1>2. Total(values) \in Fraction
  BY <1>1 DEF FoldsBy
<1>3. ASSUME NEW D \in Nat \ {0}, NEW A \in [S -> Int], \A x \in S : Denotes(values[x], A[x], D)
      PROVE  Denotes(it[S], Sigma(A, S), D)
  <2> DEFINE F == {T \in SUBSET S : Denotes(it[T], Sigma(A, T), D)}
  <2>1. {} \in F
    <3>1. it[{}] = Whole(0)
      BY <1>1 DEF FoldsBy
    <3> QED
      BY <3>1, SigmaEmpty, WholeIs
  <2>2. ASSUME NEW T \in SUBSET S, T # {}, T \ {Taken(T)} \in F
        PROVE  T \in F
    <3> DEFINE x == Taken(T)
               R == T \ {x}
    <3>1. x \in S /\ R \in SUBSET S /\ T = R \cup {x} /\ x \notin R
      BY <2>2 DEF Taken
    <3> HIDE DEF x
    <3>2. it[T] = Plus(values[x], it[R]) /\ it[R] \in Fraction
      BY <1>1, <2>2, <3>1 DEF FoldsBy, Steps, x
    <3>3. Summable(A, T) /\ Summable(A, R)
      BY <3>1, FS_Subset DEF Summable
    <3>4. Sigma(A, T) = Sigma(A, R) + A[x] /\ Sigma(A, R) \in Int /\ A[x] \in Int
      BY <3>1, <3>3, SigmaAdd, SigmaInt
    <3>5. Denotes(it[R], Sigma(A, R), D)
      BY <2>2 DEF x
    <3> HIDE DEF R
    <3>6. Denotes(Plus(values[x], it[R]), A[x] + Sigma(A, R), D)
      BY <1>3, <3>1, <3>2, <3>4, <3>5, PlusIs
    <3>7. A[x] + Sigma(A, R) = Sigma(A, T)
      BY <3>4
    <3> QED
      BY <3>2, <3>6, <3>7
  <2>3. SUBSET S \subseteq F
    <3> HIDE DEF F
    <3> QED
      BY <2>1, <2>2, FoldInduction
  <2> QED
    BY <2>3
<1> QED
  BY <1>1, <1>2, <1>3

\* A total of whole numbers is the whole number that is their sum.
LEMMA TotalOfWhole ==
    ASSUME NEW S, NEW A, Summable(A, S), NEW values, values = [x \in S |-> Whole(A[x])]
    PROVE  Total(values) = Whole(Sigma(A, S))
<1>1. IsFiniteSet(S) /\ values \in [S -> Fraction]
  BY WholeIs DEF Summable
<1>2. PICK it : FoldsBy(it, S, Fraction, Whole(0), Steps(values, S)) /\ Total(values) = it[S]
  BY <1>1, TotalFolds
<1> DEFINE F == {T \in SUBSET S : it[T] = Whole(Sigma(A, T))}
<1>3. {} \in F
  BY <1>2, SigmaEmpty DEF FoldsBy
<1>4. ASSUME NEW T \in SUBSET S, T # {}, T \ {Taken(T)} \in F
      PROVE  T \in F
  <2> DEFINE x == Taken(T)
             R == T \ {x}
  <2>1. x \in S /\ R \in SUBSET S /\ T = R \cup {x} /\ x \notin R
    BY <1>4 DEF Taken
  <2> HIDE DEF x
  <2>2. it[T] = Plus(values[x], it[R])
    BY <1>2, <1>4, <2>1 DEF FoldsBy, Steps, x
  <2>3. Summable(A, T) /\ Summable(A, R)
    BY <2>1, SummableSub
  <2>4. Sigma(A, T) = Sigma(A, R) + A[x] /\ Sigma(A, R) \in Int /\ A[x] \in Int
    BY <2>1, <2>3, SigmaAdd, SigmaInt DEF Summable
  <2>5. values[x] = Whole(A[x]) /\ it[R] = Whole(Sigma(A, R))
    BY <1>4, <2>1 DEF x
  <2> HIDE DEF R
  <2>6. Plus(Whole(A[x]), Whole(Sigma(A, R))) = Over(A[x] + Sigma(A, R), 1)
    BY <2>4 DEF Plus, Whole
  <2>7. A[x] + Sigma(A, R) \in Int /\ A[x] + Sigma(A, R) = Sigma(A, T)
    BY <2>4
  <2> QED
    BY <2>2, <2>5, <2>6, <2>7, OverOne
<1>5. SUBSET S \subseteq F
  <2> HIDE DEF F
  <2> QED
    BY <1>1, <1>3, <1>4, FoldInduction
<1> QED
  BY <1>2, <1>5

\* A sum of the library, unfolded.
LEMMA SumIs ==
    ASSUME NEW S, NEW fun, DOMAIN fun = S, Summable(fun, S)
    PROVE  SumFunction(fun) = Sigma(fun, S)
<1> DEFINE R(jt) == jt = [s \in SUBSET S |->
                           IF s = {} THEN 0
                           ELSE LET x == CHOOSE x \in s : TRUE IN fun[x] + jt[s \ {x}]]
           step == [p \in S \X Int |-> fun[p[1]] + p[2]]
<1>1. PICK it : Adds(it, fun, S)
  BY AddsExists
<1>2. R(it)
  <2>1. it = [s \in SUBSET S |-> IF s = {} THEN 0 ELSE fun[Taken(s)] + it[s \ {Taken(s)}]]
    BY <1>1 DEF Adds
  <2> QED
    BY <2>1 DEF Taken
<1>3. SumFunction(fun) = (CHOOSE jt : R(jt))[S]
  BY DEF SumFunction, SumFunctionOnSet, FoldFunctionOnSet, MapThenFoldSet
<1> DEFINE jt == CHOOSE kt : R(kt)
<1>4. R(jt)
  <2> HIDE DEF R
  <2> QED
    BY <1>2
<1> HIDE DEF jt
<1>5. \A s \in SUBSET S : s # {} => Taken(s) \in S /\ s \ {Taken(s)} \in SUBSET S
  BY DEF Taken
<1>6. FoldsBy(it, S, Int, 0, step)
  <2>1. \A s \in SUBSET S : s # {} =>
           step[<<Taken(s), it[s \ {Taken(s)}]>>] = fun[Taken(s)] + it[s \ {Taken(s)}]
    BY <1>1, <1>5 DEF Adds
  <2> HIDE DEF step
  <2> QED
    BY <1>1, <2>1 DEF FoldsBy, Adds
<1>7. Follows(jt, S, Int, 0, step)
  <2>1. jt[{}] = 0
    BY <1>4
  <2>2. ASSUME NEW s \in SUBSET S, s # {}, jt[s \ {Taken(s)}] \in Int
        PROVE  jt[s] = step[<<Taken(s), jt[s \ {Taken(s)}]>>]
    <3>1. jt[s] = fun[Taken(s)] + jt[s \ {Taken(s)}]
      BY <1>4, <2>2 DEF Taken
    <3> HIDE DEF R
    <3> QED
      BY <1>5, <2>2, <3>1
  <2> QED
    BY <2>1, <2>2 DEF Follows
<1>8. jt[S] = it[S]
  <2> HIDE DEF step, R
  <2> QED
    BY <1>6, <1>7, FoldUnique DEF Summable
<1> QED
  BY <1>1, <1>3, <1>8, SigmaIs DEF jt

\* A reason is something: a KPI with a reason has no value.
LEMMA ReasonsAreSome ==
    /\ None # "missing or ambiguous" /\ None # "reversed" /\ None # "not contiguous"
    /\ None # "no step index" /\ None # "overlap" /\ None # "one or more unavailable"
    /\ None # "not present" /\ None # "unavailable" /\ None # "markers are absent"
    /\ None # "alignment evidence is incomplete" /\ None # "different clock domains"
BY NoneAssumption DEF Reasons

\* No two latencies have one name.
LEMMA NamesDiffer ==
    /\ \A a, b \in PairedStems \cup {"wait"} : Latency(a) = Latency(b) => a = b
    /\ Latency("e2e") # Latency("tpot") /\ Latency("e2e") # Latency("ttft")
BY DEF PairedStems, DerivedStems, Latency, LatencyNames

\* One marker only, and it is there.
LEMMA OnlyOne ==
    ASSUME NEW S, IsFiniteSet(S), None \notin S, OnlyOf(S) # None
    PROVE  S = {OnlyOf(S)}
<1>1. Cardinality(S) = 1
  BY DEF OnlyOf
<1>2. PICK x : S = {x}
  BY <1>1, FS_Singleton
<1> QED
  BY <1>1, <1>2 DEF OnlyOf

\* A pair with no reason against it: one marker at either end.
LEMMA PairFound ==
    ASSUME NEW events, IsFiniteSet(events), None \notin events, NEW stem,
           Pair(events, stem).reason = None
    PROVE  /\ {e \in events : e.name = FirstMarker(stem)} = {Pair(events, stem).start}
           /\ {e \in events : e.name = LastMarker(stem)} = {Pair(events, stem).end}
<1> DEFINE S == {e \in events : e.name = FirstMarker(stem)}
           E == {e \in events : e.name = LastMarker(stem)}
<1>1. IsFiniteSet(S) /\ IsFiniteSet(E) /\ None \notin S /\ None \notin E
  BY FS_Subset
<1>2. Pair(events, stem).start = OnlyOf(S) /\ Pair(events, stem).end = OnlyOf(E)
  BY DEF Pair
<1>3. OnlyOf(S) # None /\ OnlyOf(E) # None
  <2>1. Pair(events, stem).reason # "missing or ambiguous"
    BY ReasonsAreSome
  <2> QED
    BY <2>1 DEF Pair
<1> HIDE DEF S, E
<1>4. S = {OnlyOf(S)} /\ E = {OnlyOf(E)}
  BY <1>1, <1>3, OnlyOne
<1> QED
  BY <1>2, <1>4 DEF S, E

\* The instants of a run's markers, and those of one request that have a name.
At(run) == [e \in run.events |-> e.ts]
Own(run, name, c) == {e \in Named(run.events, name) : e.correlation = c}
\* How long a request's intervals of a stem last together.
Span(run, stem, c) ==
    Sigma(At(run), Own(run, LastMarker(stem), c)) - Sigma(At(run), Own(run, FirstMarker(stem), c))

\* Finitely many records have finitely many values of a field.
LEMMA ValuesAreFinite ==
    ASSUME NEW S, IsFiniteSet(S), NEW f
    PROVE  IsFiniteSet({f[x] : x \in S})
<1> DEFINE g == [x \in S |-> f[x]]
           T == {f[x] : x \in S}
<1>1. g \in Surjection(S, T)
  BY DEF Surjection
<1> QED
  BY <1>1, FS_Surjection

\* A run has finitely many events.
LEMMA EventsFinite == ASSUME NEW run, RunTyped(run) PROVE IsFiniteSet(run.events)
<1> DEFINE D == DOMAIN run.lines
           f == [i \in D |-> run.lines[i]]
<1>1. IsFiniteSet(D) /\ run.events = {f[i] : i \in D}
  BY DEF RunTyped
<1> HIDE DEF D, f
<1> QED
  BY <1>1, ValuesAreFinite

\* The instants of a request's markers of one name can be added up.
LEMMA OwnTyped ==
    ASSUME NEW run, RunTyped(run), NEW name, NEW c
    PROVE  /\ Summable(At(run), run.events)
           /\ Own(run, name, c) \in SUBSET run.events /\ Summable(At(run), Own(run, name, c))
           /\ Sigma(At(run), Own(run, name, c)) \in Int
<1>1. Summable(At(run), run.events)
  BY EventsFinite DEF Summable, RunTyped, At
<1>2. Own(run, name, c) \in SUBSET run.events
  BY DEF Own, Named
<1>3. Summable(At(run), Own(run, name, c))
  BY <1>1, <1>2, SummableSub
<1> QED
  BY <1>1, <1>2, <1>3, SigmaInt

\* The markers of a stem are among the canonical ones.
LEMMA OwnMarkers ==
    ASSUME NEW run, NEW c, NEW stem \in PairedStems
    PROVE  /\ {e \in MarkersOf(run, c) : e.name = FirstMarker(stem)} = Own(run, FirstMarker(stem), c)
           /\ {e \in MarkersOf(run, c) : e.name = LastMarker(stem)} = Own(run, LastMarker(stem), c)
<1>1. FirstMarker(stem) \in CanonicalMarkers /\ LastMarker(stem) \in CanonicalMarkers
  BY DEF CanonicalMarkers
<1> QED
  BY <1>1 DEF Own, Named, MarkersOf, Markers

\* The canonical markers of a request.
LEMMA MarkersTyped ==
    ASSUME NEW run, RunTyped(run), NEW c
    PROVE  /\ MarkersOf(run, c) \in SUBSET run.events
           /\ IsFiniteSet(MarkersOf(run, c)) /\ None \notin MarkersOf(run, c)
           /\ IsFiniteSet(Correlations(run))
           /\ \A e \in MarkersOf(run, c) : e.ts \in Int /\ e.step \in Int \cup {None}
<1>1. MarkersOf(run, c) \in SUBSET run.events /\ Markers(run) \in SUBSET run.events
  BY DEF MarkersOf, Markers
<1>2. IsFiniteSet(Markers(run)) /\ IsFiniteSet(MarkersOf(run, c))
  BY <1>1, EventsFinite, FS_Subset
<1>3. IsFiniteSet(Correlations(run))
  <2> DEFINE f == [e \in Markers(run) |-> e.correlation]
  <2>1. {f[e] : e \in Markers(run)} = Correlations(run)
    BY DEF Correlations
  <2> HIDE DEF f
  <2> QED
    BY <1>2, <2>1, ValuesAreFinite
<1>4. \A e \in run.events : e.ts \in Int /\ e.step \in Int \cup {None}
  <2>1. \A e \in run.events : e.ts \in Int /\ e.step \in Nat \cup {None}
    BY DEF RunTyped
  <2> QED
    BY <2>1
<1>5. None \notin run.events
  BY DEF RunTyped
<1> QED
  BY <1>1, <1>2, <1>3, <1>4, <1>5

\* A pair lasts as long as its request's two markers tell.
LEMMA PairSpan ==
    ASSUME NEW run, RunTyped(run), NEW c, NEW stem \in PairedStems,
           Pair(MarkersOf(run, c), stem).reason = None
    PROVE  LET pair == Pair(MarkersOf(run, c), stem)
           IN  pair.end.ts - pair.start.ts = Span(run, stem, c) /\ Span(run, stem, c) \in Int
<1> DEFINE pair == Pair(MarkersOf(run, c), stem)
<1>1. Own(run, FirstMarker(stem), c) = {pair.start} /\ Own(run, LastMarker(stem), c) = {pair.end}
  BY MarkersTyped, PairFound, OwnMarkers
<1>2. pair.start \in run.events /\ pair.end \in run.events
  BY <1>1, OwnTyped
<1> HIDE DEF pair
<1>3. At(run)[pair.start] = pair.start.ts /\ At(run)[pair.end] = pair.end.ts
      /\ pair.start.ts \in Int /\ pair.end.ts \in Int
  BY <1>2 DEF At, RunTyped
<1>4. Sigma(At(run), {pair.start}) = pair.start.ts /\ Sigma(At(run), {pair.end}) = pair.end.ts
  BY <1>3, SigmaOne
<1>5. pair.end.ts - pair.start.ts = Span(run, stem, c) /\ Span(run, stem, c) \in Int
  BY <1>1, <1>3, <1>4 DEF Span
<1> QED
  BY <1>5 DEF pair

\* Finitely many whole numbers have a least one.
LEMMA HasLeast ==
    ASSUME NEW S, IsFiniteSet(S), S # {}, S \subseteq Int
    PROVE  \E x \in S : \A y \in S : x <= y
<1> DEFINE F == {T \in SUBSET S : T # {} => \E x \in T : \A y \in T : x <= y}
<1>1. {} \in F
  OBVIOUS
<1>2. ASSUME NEW T \in SUBSET S, NEW z \in S \ T, T \in F
      PROVE  T \cup {z} \in F
  <2>1. CASE T = {}
    BY <2>1
  <2>2. CASE T # {}
    <3>1. PICK x \in T : \A y \in T : x <= y
      BY <1>2, <2>2
    <3>2. x \in Int /\ z \in Int /\ \A y \in T : y \in Int
      OBVIOUS
    <3>3. CASE z <= x
      <4>1. \A y \in T \cup {z} : z <= y
        BY <3>1, <3>2, <3>3
      <4> QED
        BY <4>1
    <3>4. CASE x <= z
      <4>1. \A y \in T \cup {z} : x <= y
        BY <3>1, <3>2, <3>4
      <4> QED
        BY <4>1
    <3> QED
      BY <3>2, <3>3, <3>4
  <2> QED
    BY <2>1, <2>2
<1>3. SUBSET S \subseteq F
  <2> HIDE DEF F
  <2> QED
    BY <1>1, <1>2, SetInduction
<1> QED
  BY <1>3

\* A sum over elements that have each a key of their own is a sum over the keys.
LEMMA SigmaKeyed ==
    ASSUME NEW g, NEW S, Summable(g, S), NEW C, IsFiniteSet(C), NEW k \in [S -> C], NEW h,
           \A c \in C : \E x \in S : {y \in S : k[y] = c} = {x} /\ h[c] = g[x]
    PROVE  Sigma(g, S) = Sigma(h, C) /\ Summable(h, C)
<1> DEFINE f == [c \in C |-> Sigma(g, {x \in S : k[x] = c})]
<1>1. Sigma(g, S) = Sigma(f, C)
  BY SigmaFibers
<1>2. \A c \in C : h[c] \in Int /\ h[c] = f[c]
  <2> TAKE c \in C
  <2>1. PICK x \in S : {y \in S : k[y] = c} = {x} /\ h[c] = g[x]
    OBVIOUS
  <2>2. g[x] \in Int
    BY DEF Summable
  <2>3. f[c] = Sigma(g, {x})
    BY <2>1
  <2> HIDE DEF f
  <2> QED
    BY <2>1, <2>2, <2>3, SigmaOne
<1> HIDE DEF f
<1>3. Summable(h, C)
  BY <1>2 DEF Summable
<1>4. Sigma(h, C) = Sigma(f, C)
  BY <1>2, <1>3, SigmaSame
<1> QED
  BY <1>1, <1>3, <1>4

\* Sampling without a reason against it: every step has one marker at either end.
LEMMA StepsFound ==
    ASSUME NEW run, RunTyped(run), NEW c, SamplingReason(MarkersOf(run, c)) = None
    PROVE  LET events == MarkersOf(run, c)
           IN  /\ IsFiniteSet(StepsOf(events))
               /\ \A k \in StepsOf(events) :
                     /\ {e \in Own(run, FirstMarker("sampling"), c) : e.step = k}
                          = {StepPair(events, k).start}
                     /\ {e \in Own(run, LastMarker("sampling"), c) : e.step = k}
                          = {StepPair(events, k).end}
<1> DEFINE events == MarkersOf(run, c)
           steps == StepsOf(events)
<1>1. /\ events \in SUBSET run.events /\ IsFiniteSet(events) /\ None \notin events
      /\ \A e \in events : e.ts \in Int /\ e.step \in Int \cup {None}
  BY MarkersTyped
<1>2. {e \in events : e.name = FirstMarker("sampling")} = Own(run, FirstMarker("sampling"), c)
      /\ {e \in events : e.name = LastMarker("sampling")} = Own(run, LastMarker("sampling"), c)
  BY OwnMarkers DEF PairedStems
<1> HIDE DEF events
<1>3. IsFiniteSet(steps)
  <2> DEFINE f == [e \in SamplingMarks(events) |-> e.step]
  <2>1. IsFiniteSet(SamplingMarks(events))
    BY <1>1, FS_Subset DEF SamplingMarks
  <2>2. {f[e] : e \in SamplingMarks(events)} = steps
    BY DEF StepsOf
  <2> HIDE DEF f, steps
  <2> QED
    BY <2>1, <2>2, ValuesAreFinite
<1>4. None \notin steps /\ PairedSteps(events) = steps
  <2>1. SamplingReason(events) = None
    BY DEF events
  <2>2. None \notin steps
    BY <2>1, ReasonsAreSome DEF SamplingReason
  <2>3. PairedSteps(events) \subseteq steps
    BY DEF PairedSteps
  <2>4. \A k \in steps : k \in Int
    BY <1>1, <2>2 DEF StepsOf, SamplingMarks
  <2>5. ASSUME PairedSteps(events) # steps
        PROVE  FALSE
    <3> DEFINE left == steps \ PairedSteps(events)
               k == Min(left)
    <3>1. StepPair(events, k).reason = None
      BY <2>1, <2>5, ReasonsAreSome DEF SamplingReason
    <3>2. IsFiniteSet(left) /\ left # {} /\ left \subseteq Int
      BY <1>3, <2>3, <2>5, <2>4, FS_Subset
    <3>3. k \in left /\ \A j \in left : k <= j
      <4> HIDE DEF left
      <4> QED
        BY <3>2, HasLeast DEF Min
    <3> HIDE DEF k
    <3>4. ASSUME NEW j \in steps, j <= k
          PROVE  StepPair(events, j).reason = None
      <4>1. CASE j = k
        BY <3>1, <4>1
      <4>2. CASE j # k
        <5>1. j \in PairedSteps(events)
          BY <2>4, <3>3, <3>4, <4>2
        <5> QED
          BY <2>4, <5>1 DEF PairedSteps
      <4> QED
        BY <4>1, <4>2
    <3>5. k \in PairedSteps(events)
      BY <3>3, <3>4 DEF PairedSteps
    <3> QED
      BY <3>3, <3>5
  <2> QED
    BY <2>2, <2>5
<1>5. \A k \in steps : k \in Int
  BY <1>1, <1>4 DEF StepsOf, SamplingMarks
<1>6. ASSUME NEW k \in steps
      PROVE  /\ {e \in Own(run, FirstMarker("sampling"), c) : e.step = k} = {StepPair(events, k).start}
             /\ {e \in Own(run, LastMarker("sampling"), c) : e.step = k} = {StepPair(events, k).end}
  <2>1. StepPair(events, k).reason = None
    BY <1>4, <1>5 DEF PairedSteps
  <2> DEFINE here == {e \in events : e.step = k}
  <2>2. IsFiniteSet(here) /\ None \notin here
    BY <1>1, FS_Subset
  <2>3. StepPair(events, k) = Pair(here, "sampling")
    BY DEF StepPair
  <2>5. /\ {e \in here : e.name = FirstMarker("sampling")} = {StepPair(events, k).start}
        /\ {e \in here : e.name = LastMarker("sampling")} = {StepPair(events, k).end}
    <3> HIDE DEF here
    <3> QED
      BY <2>1, <2>2, <2>3, PairFound
  <2> QED
    BY <1>2, <2>5
<1> QED
  BY <1>3, <1>6 DEF events

\* Both ends of the steps' intervals, added up.
LEMMA EndsAddUp ==
    ASSUME NEW run, RunTyped(run), NEW c, NEW name, NEW steps, IsFiniteSet(steps), NEW at,
           \A e \in Own(run, name, c) : e.step \in steps,
           \A k \in steps : \E x : {e \in Own(run, name, c) : e.step = k} = {x} /\ at[k] = x.ts
    PROVE  Sigma(At(run), Own(run, name, c)) = Sigma(at, steps) /\ Summable(at, steps)
<1> DEFINE S == Own(run, name, c)
           key == [e \in S |-> e.step]
<1>1. S \in SUBSET run.events /\ Summable(At(run), S)
  BY OwnTyped
<1>2. key \in [S -> steps]
  OBVIOUS
<1>3. \A k \in steps : \E x \in S : {e \in S : key[e] = k} = {x} /\ at[k] = At(run)[x]
  <2> TAKE k \in steps
  <2>1. PICK x : {e \in S : e.step = k} = {x} /\ at[k] = x.ts
    OBVIOUS
  <2>2. x \in S /\ {e \in S : key[e] = k} = {x}
    BY <2>1
  <2>3. At(run)[x] = x.ts
    BY <1>1, <2>2 DEF At
  <2> QED
    BY <2>1, <2>2, <2>3
<1> HIDE DEF S, key
<1>4. Sigma(At(run), S) = Sigma(at, steps) /\ Summable(at, steps)
  BY <1>1, <1>2, <1>3, SigmaKeyed
<1> QED
  BY <1>4 DEF S

\* The latency of sampling is what the steps last together.
LEMMA SamplingSpan ==
    ASSUME NEW run, RunTyped(run), NEW c, SamplingReason(MarkersOf(run, c)) = None
    PROVE  SamplingTotal(MarkersOf(run, c)) = Whole(Span(run, "sampling", c))
           /\ Span(run, "sampling", c) \in Int
<1> DEFINE events == MarkersOf(run, c)
           steps == StepsOf(events)
           first == [k \in steps |-> StepPair(events, k).start.ts]
           last == [k \in steps |-> StepPair(events, k).end.ts]
           long == [k \in steps |-> StepPair(events, k).end.ts - StepPair(events, k).start.ts]
           starts == FirstMarker("sampling")
           ends == LastMarker("sampling")
<1>1. /\ IsFiniteSet(steps)
      /\ \A k \in steps :
            /\ {e \in Own(run, starts, c) : e.step = k} = {StepPair(events, k).start}
            /\ {e \in Own(run, ends, c) : e.step = k} = {StepPair(events, k).end}
  BY StepsFound
<1>2. starts = "sampling_start" /\ ends = "sampling_end"
  BY DEF FirstMarker, LastMarker, Pairings
<1>3. /\ \A e \in Own(run, starts, c) : e.step \in steps
      /\ \A e \in Own(run, ends, c) : e.step \in steps
  <2>1. /\ Own(run, starts, c) = {e \in events : e.name = starts}
        /\ Own(run, ends, c) = {e \in events : e.name = ends}
    BY OwnMarkers DEF PairedStems
  <2> HIDE DEF events, starts, ends
  <2> QED
    BY <1>2, <2>1 DEF StepsOf, SamplingMarks
<1> HIDE DEF events, steps, starts, ends
<1>4. Sigma(At(run), Own(run, starts, c)) = Sigma(first, steps) /\ Summable(first, steps)
  <2>1. \A k \in steps : \E x : {e \in Own(run, starts, c) : e.step = k} = {x} /\ first[k] = x.ts
    BY <1>1
  <2> HIDE DEF first
  <2> QED
    BY <1>1, <1>3, <2>1, EndsAddUp
<1>5. Sigma(At(run), Own(run, ends, c)) = Sigma(last, steps) /\ Summable(last, steps)
  <2>1. \A k \in steps : \E x : {e \in Own(run, ends, c) : e.step = k} = {x} /\ last[k] = x.ts
    BY <1>1
  <2> HIDE DEF last
  <2> QED
    BY <1>1, <1>3, <2>1, EndsAddUp
<1>6. \A k \in steps : long[k] = last[k] - first[k]
  OBVIOUS
<1>7. Summable(long, steps)
  BY <1>4, <1>5, <1>6 DEF Summable
<1>8. SamplingTotal(events) = Total([k \in steps |-> Whole(long[k])])
  BY DEF SamplingTotal, steps
<1> HIDE DEF first, last, long
<1>9. Sigma(long, steps) = Sigma(last, steps) - Sigma(first, steps)
  BY <1>4, <1>5, <1>6, SigmaMinus
<1>10. Sigma(long, steps) = Span(run, "sampling", c)
  BY <1>4, <1>5, <1>9 DEF Span, starts, ends
<1>11. SamplingTotal(events) = Whole(Sigma(long, steps))
  BY <1>7, <1>8, TotalOfWhole
<1>12. Sigma(long, steps) \in Int
  BY <1>7, SigmaInt
<1> QED
  BY <1>10, <1>11, <1>12 DEF events

\* A stage of one request that has a latency has the whole of it.
LEMMA RowSpan ==
    ASSUME NEW run, RunTyped(run), NEW c, NEW stem \in PairedStems,
           OnePipeline(run, c, MarkersOf(run, c))[Latency(stem)].available
    PROVE  /\ OnePipeline(run, c, MarkersOf(run, c))[Latency(stem)].value
                = Whole(Span(run, stem, c))
           /\ Span(run, stem, c) \in Int
<1> DEFINE events == MarkersOf(run, c)
           row == OnePipeline(run, c, events)[Latency(stem)]
<1>1. stem \in PairedStems \cup {"wait"} /\ stem # "wait"
  BY DEF PairedStems, DerivedStems
<1>2. Latency(stem) \in {Latency(s) : s \in PairedStems \cup {"wait"}} /\ Latency(stem) # Latency("wait")
  BY <1>1, NamesDiffer
<1>3. CASE stem = "sampling"
  <2>1. row = SamplingKpi(run, events, c)
    BY <1>2, <1>3 DEF OnePipeline
  <2> HIDE DEF events
  <2>2. row.available = (row.value # None)
        /\ (row.value # None => SamplingReason(events) = None /\ row.value = SamplingTotal(events))
    <3>1. row = SamplingRow(run, c, StepsOf(events), SamplingTotal(events), SamplingReason(events),
                    SamplingRecords(events, SamplingReason(events)),
                    EventClock(run, SamplingRecords(events, SamplingReason(events))),
                    Selected(PipelineMetrics(run, "sampling", c)))
      BY <2>1 DEF SamplingKpi
    <3> HIDE DEF row
    <3> QED
      BY <3>1, ReasonsAreSome DEF SamplingRow, Kpi
  <2>3. row.available
    BY DEF events
  <2>4. SamplingReason(events) = None /\ row.value = SamplingTotal(events)
    BY <2>2, <2>3
  <2> HIDE DEF row
  <2>5. row.value = Whole(Span(run, stem, c)) /\ Span(run, stem, c) \in Int
    BY <1>3, <2>4, SamplingSpan DEF events
  <2> QED
    BY <2>5 DEF row, events
<1>4. CASE stem # "sampling"
  <2>1. stem \in DerivedStems /\ "sampling" \in PairedStems /\ DerivedStems \subseteq PairedStems
    BY <1>4 DEF PairedStems
  <2>2. Latency(stem) # Latency("sampling")
    BY <1>4, <2>1, NamesDiffer
  <2>3. (CHOOSE s \in DerivedStems : Latency(stem) = Latency(s)) = stem
    <3>1. \A s \in DerivedStems : Latency(stem) = Latency(s) => s = stem
      BY <2>1, NamesDiffer
    <3> QED
      BY <2>1, <3>1
  <2>4. row = PipelineKpi(run, stem, Pair(events, stem), c)
    BY <1>2, <2>2, <2>3 DEF OnePipeline
  <2> HIDE DEF events
  <2>5. row.available = (row.value # None)
        /\ (row.value # None =>
              /\ Pair(events, stem).reason = None
              /\ row.value = Whole(Pair(events, stem).end.ts - Pair(events, stem).start.ts))
    <3> HIDE DEF row
    <3> QED
      BY <2>4, ReasonsAreSome DEF PipelineKpi, PairReason, Kpi
  <2>6. row.available
    BY DEF events
  <2> HIDE DEF row
  <2>7. row.value = Whole(Span(run, stem, c)) /\ Span(run, stem, c) \in Int
    BY <2>5, <2>6, PairSpan DEF events
  <2> QED
    BY <2>7 DEF row, events
<1> QED
  BY <1>3, <1>4

\* How a mean is checked: the mean of that many numbers, whose sum is given.
IsMean(value, many, sum) == value.n * (many * sum.d) = value.d * sum.n

\* A mean is the sum of its numbers divided by how many they are.
LEMMA MeanIs ==
    ASSUME NEW S, IsFiniteSet(S), S # {}, NEW values \in [S -> Fraction]
    PROVE  Mean(values) \in Fraction /\ IsMean(Mean(values), Cardinality(S), Total(values))
<1> DEFINE k == Cardinality(S)
           sum == Total(values)
           r == Over(sum.n, sum.d * k)
<1>1. k \in Nat \ {0}
  BY FS_CardinalityType, FS_EmptySet
<1>2. sum \in Fraction
  BY TotalIs
<1>3. sum.n \in Int /\ sum.d \in Nat \ {0}
  BY <1>2 DEF Fraction
<1>4. Mean(values) = r
  BY DEF Mean, Part
<1> HIDE DEF k, sum
<1>5. sum.d * k \in Nat \ {0}
  BY <1>1, <1>3
<1>6. r \in Fraction /\ r.n * (sum.d * k) = sum.n * r.d
  BY <1>3, <1>5, OverIs DEF Denotes
<1> HIDE DEF r
<1>7. r.n \in Int /\ r.d \in Int
  BY <1>6 DEF Fraction
<1>8. r.n * (k * sum.d) = r.d * sum.n
  <2>1. sum.d * k = k * sum.d /\ sum.n * r.d = r.d * sum.n
    BY <1>1, <1>3, <1>7
  <2> QED
    BY <1>6, <2>1
<1> QED
  BY <1>4, <1>6, <1>8 DEF IsMean, k, sum

\* The mean of one number is that number.
LEMMA MeanOfOne ==
    ASSUME NEW x, NEW v \in Fraction
    PROVE  IsMean(v, 1, Total([y \in {x} |-> v]))
<1> DEFINE values == [y \in {x} |-> v]
           A == [y \in {x} |-> v.n]
           sum == Total(values)
<1>1. IsFiniteSet({x}) /\ values \in [{x} -> Fraction]
  BY FS_Singleton
<1>2. v.n \in Int /\ v.d \in Nat \ {0} /\ A \in [{x} -> Int]
  BY DEF Fraction
<1>3. \A y \in {x} : Denotes(values[y], A[y], v.d)
  BY <1>2 DEF Denotes
<1>4. A[x] = v.n
  OBVIOUS
<1> HIDE DEF values, A
<1>5. Sigma(A, {x}) = v.n
  BY <1>2, <1>4, SigmaOne
<1>6. sum \in Fraction /\ Denotes(sum, v.n, v.d)
  BY <1>1, <1>2, <1>3, <1>5, TotalIs
<1> HIDE DEF sum
<1>7. sum.n \in Int /\ sum.d \in Int /\ sum.n * v.d = v.n * sum.d
  BY <1>6 DEF Fraction, Denotes
<1>8. v.n * (1 * sum.d) = v.d * sum.n
  BY <1>2, <1>7
<1> QED
  BY <1>8 DEF IsMean, sum, values

\* The numbers a mean of some requests stands on.
NumbersOf(rows, name) == [id \in DOMAIN rows |-> rows[id][name].value]

\* What is collected of some requests is the mean over all of them.
LEMMA CollectedMean ==
    ASSUME NEW run, NEW rows, NEW none, NEW names, NEW name \in names,
           IsFiniteSet(DOMAIN rows), DOMAIN rows # {},
           \A id \in DOMAIN rows :
              DOMAIN rows[id] = names
                /\ (rows[id][name].available => rows[id][name].value \in Fraction),
           Collected(run, rows, none)[name].available
    PROVE  /\ \A id \in DOMAIN rows : rows[id][name].available
           /\ Collected(run, rows, none)[name].value \in Fraction
           /\ IsMean(Collected(run, rows, none)[name].value, Cardinality(DOMAIN rows),
                     Total(NumbersOf(rows, name)))
<1> DEFINE ids == DOMAIN rows
           first == CHOOSE id \in ids : TRUE
           values == [id \in ids |-> rows[id][name].value]
<1>1. first \in ids
  OBVIOUS
<1>2. CASE Cardinality(ids) = 1
  <2>1. PICK x : ids = {x}
    BY <1>2, FS_Singleton
  <2>2. first = x
    BY <1>1, <2>1
  <2>3. Collected(run, rows, none) = rows[x]
    BY <1>2, <2>2 DEF Collected
  <2>4. rows[x][name].available /\ rows[x][name].value \in Fraction
    BY <2>1, <2>3
  <2>5. values = [y \in {x} |-> rows[x][name].value]
    BY <2>1
  <2>6. IsMean(rows[x][name].value, 1, Total(values))
    BY <2>4, <2>5, MeanOfOne
  <2> QED
    BY <1>2, <2>1, <2>3, <2>4, <2>6 DEF NumbersOf
<1>3. CASE Cardinality(ids) # 1
  <2> DEFINE kpi == Aggregate(rows, name, rows[first][name].scope.layer, rows[first][name].clock)
  <2>1. Collected(run, rows, none) = AggregateRequestKpis(rows, first)
    BY <1>3 DEF Collected
  <2>2. Collected(run, rows, none)[name] = kpi
    BY <1>1, <2>1 DEF AggregateRequestKpis
  <2>3. kpi.available
    BY <2>2
  <2>4. HaveValues(rows, name) = ids
    BY <2>3 DEF Aggregate, Kpi
  <2>5. kpi.value = Mean(values)
    BY <2>4 DEF Aggregate, Kpi
  <2>6. \A id \in ids : rows[id][name].available
    BY <2>4 DEF HaveValues
  <2>7. values \in [ids -> Fraction]
    BY <2>6
  <2> HIDE DEF values, kpi
  <2>8. Mean(values) \in Fraction /\ IsMean(Mean(values), Cardinality(ids), Total(values))
    BY <2>7, MeanIs
  <2> QED
    BY <2>2, <2>5, <2>6, <2>8 DEF values, NumbersOf
<1> QED
  BY <1>2, <1>3

\* All the markers of a name, request by request.
LEMMA TimeByRequest ==
    ASSUME NEW run, RunTyped(run), NEW name \in CanonicalMarkers, NEW at,
           \A c \in Correlations(run) : at[c] = Sigma(At(run), Own(run, name, c))
    PROVE  /\ MarkerTime(run.events, name) = Sigma(at, Correlations(run))
           /\ Summable(at, Correlations(run))
<1> DEFINE S == Named(run.events, name)
           C == Correlations(run)
           f == [e \in S |-> e.ts]
           key == [e \in S |-> e.correlation]
           g == [c \in C |-> Sigma(At(run), {e \in S : key[e] = c})]
<1>1. Summable(At(run), run.events) /\ S \in SUBSET run.events /\ IsFiniteSet(C)
  BY OwnTyped, MarkersTyped DEF Named
<1>2. Summable(At(run), S)
  BY <1>1, SummableSub
<1>3. \A e \in S : f[e] = At(run)[e]
  BY <1>1 DEF At
<1>4. key \in [S -> C]
  BY DEF Correlations, Markers, Named
<1>5. \A c \in C : {e \in S : key[e] = c} = Own(run, name, c)
  BY DEF Own
<1>6. MarkerTime(run.events, name) = SumFunction(f) /\ DOMAIN f = S
  BY DEF MarkerTime
<1> HIDE DEF S, C, f, key
<1>7. Summable(f, S)
  BY <1>2, <1>3 DEF Summable
<1>8. SumFunction(f) = Sigma(f, S)
  BY <1>6, <1>7, SumIs
<1>9. Sigma(f, S) = Sigma(At(run), S)
  BY <1>3, <1>7, SigmaSame
<1>10. Sigma(At(run), S) = Sigma(g, C)
  BY <1>1, <1>2, <1>4, SigmaFibers
<1>11. \A c \in C : at[c] = g[c] /\ at[c] \in Int
  BY <1>5, OwnTyped DEF C
<1>12. Summable(at, C)
  BY <1>1, <1>11 DEF Summable
<1> HIDE DEF g
<1>13. Sigma(at, C) = Sigma(g, C)
  BY <1>11, <1>12, SigmaSame
<1> QED
  BY <1>6, <1>8, <1>9, <1>10, <1>12, <1>13 DEF C

\* The latencies of a stage over all the requests add up to the time between its markers.
LEMMA PipelineTotal ==
    ASSUME NEW run, RunTyped(run), NEW stem \in PairedStems,
           \A c \in Correlations(run) : PipelineRows(run)[c][Latency(stem)].available,
           None \notin Correlations(run)
    PROVE  LET C == Correlations(run)
               values == [c \in C |-> PipelineRows(run)[c][Latency(stem)].value]
               time == MarkerTime(run.events, LastMarker(stem)) - MarkerTime(run.events, FirstMarker(stem))
           IN  /\ Total(values) = Whole(time) /\ time \in Int
               /\ \A c \in C : C = {c} => values[c] = Whole(time)
<1> DEFINE rows == PipelineRows(run)
           C == Correlations(run)
           name == Latency(stem)
           first == [c \in C |-> Sigma(At(run), Own(run, FirstMarker(stem), c))]
           last == [c \in C |-> Sigma(At(run), Own(run, LastMarker(stem), c))]
           span == [c \in C |-> Span(run, stem, c)]
           values == [c \in C |-> rows[c][name].value]
<1>1. DOMAIN rows = C /\ \A c \in C : rows[c] = OnePipeline(run, c, MarkersOf(run, c))
  BY DEF PipelineRows
<1>2. IsFiniteSet(C)
  BY MarkersTyped
<1>3. \A c \in C : rows[c][name].value = Whole(span[c]) /\ span[c] \in Int
  BY <1>1, RowSpan
<1>4. FirstMarker(stem) \in CanonicalMarkers /\ LastMarker(stem) \in CanonicalMarkers
  BY DEF CanonicalMarkers
<1>5. \A c \in C : span[c] = last[c] - first[c]
  BY DEF Span
<1>6. /\ \A c \in C : first[c] = Sigma(At(run), Own(run, FirstMarker(stem), c))
      /\ \A c \in C : last[c] = Sigma(At(run), Own(run, LastMarker(stem), c))
  OBVIOUS
<1> HIDE DEF first, last, span, rows
<1>7. MarkerTime(run.events, FirstMarker(stem)) = Sigma(first, C) /\ Summable(first, C)
  <2> HIDE DEF C
  <2> QED
    BY <1>4, <1>6, TimeByRequest DEF C
<1>8. MarkerTime(run.events, LastMarker(stem)) = Sigma(last, C) /\ Summable(last, C)
  <2> HIDE DEF C
  <2> QED
    BY <1>4, <1>6, TimeByRequest DEF C
<1> HIDE DEF C
<1>9. Sigma(span, C) = Sigma(last, C) - Sigma(first, C)
  BY <1>5, <1>7, <1>8, SigmaMinus
<1>10. Summable(span, C)
  BY <1>2, <1>3 DEF Summable
<1>11. Total(values) = Whole(Sigma(span, C)) /\ Sigma(span, C) \in Int
  <2>1. values = [c \in C |-> Whole(span[c])]
    BY <1>3
  <2> HIDE DEF values
  <2> QED
    BY <1>10, <2>1, TotalOfWhole, SigmaInt
<1>12. \A c \in C : C = {c} => values[c] = Whole(Sigma(span, C))
  <2> TAKE c \in C
  <2> HAVE C = {c}
  <2>1. Sigma(span, {c}) = span[c]
    BY <1>3, SigmaOne
  <2> QED
    BY <1>3, <2>1
<1> QED
  BY <1>7, <1>8, <1>9, <1>11, <1>12 DEF C, rows

\* The latency of a stage, over one request or several, is the time between its
\* markers, over all of them.
LEMMA PipelineMean ==
    ASSUME NEW run, RunTyped(run), None \notin Correlations(run), NEW stem \in PairedStems,
           Collected(run, PipelineRows(run), NoPipeline)[Latency(stem)].available
    PROVE  LET kpi == Collected(run, PipelineRows(run), NoPipeline)[Latency(stem)]
           IN  kpi.value.n * Cardinality(Correlations(run))
                 = kpi.value.d * (MarkerTime(run.events, LastMarker(stem))
                                    - MarkerTime(run.events, FirstMarker(stem)))
<1> DEFINE rows == PipelineRows(run)
           C == Correlations(run)
           name == Latency(stem)
           names == {Latency(s) : s \in PairedStems \cup {"wait"}}
           kpi == Collected(run, rows, NoPipeline)[name]
           time == MarkerTime(run.events, LastMarker(stem)) - MarkerTime(run.events, FirstMarker(stem))
           values == [c \in C |-> rows[c][name].value]
<1>1. name \in names
  OBVIOUS
<1>2. DOMAIN rows = C /\ \A c \in C : rows[c] = OnePipeline(run, c, MarkersOf(run, c))
  BY DEF PipelineRows
<1>3. IsFiniteSet(C)
  BY MarkersTyped
<1>4. \A c \in C : DOMAIN rows[c] = names
  BY <1>2 DEF OnePipeline
<1>5. C # {}
  <2>1. ~NoPipeline[name].available
    BY <1>1 DEF NoPipeline, Kpi
  <2> QED
    BY <1>2, <2>1 DEF Collected
<1>6. \A c \in C : rows[c][name].available => rows[c][name].value \in Fraction
  BY <1>2, RowSpan, WholeIs
<1> HIDE DEF names
<1>7. (\A c \in C : rows[c][name].available) /\ IsMean(kpi.value, Cardinality(C), Total(values))
  <2>1. IsFiniteSet(DOMAIN rows) /\ DOMAIN rows # {}
    BY <1>2, <1>3, <1>5
  <2>2. \A c \in DOMAIN rows :
           DOMAIN rows[c] = names
             /\ (rows[c][name].available => rows[c][name].value \in Fraction)
    BY <1>2, <1>4, <1>6
  <2>3. Collected(run, rows, NoPipeline)[name].available
    OBVIOUS
  <2>4. NumbersOf(rows, name) = values
    BY <1>2 DEF NumbersOf
  <2> HIDE DEF rows, name, values
  <2>5. /\ \A c \in DOMAIN rows : rows[c][name].available
        /\ IsMean(Collected(run, rows, NoPipeline)[name].value, Cardinality(DOMAIN rows),
                  Total(NumbersOf(rows, name)))
    BY <1>1, <2>1, <2>2, <2>3, CollectedMean
  <2> QED
    BY <1>2, <2>4, <2>5
<1>8. Total(values) = Whole(time)
  BY <1>7, PipelineTotal
<1>9. Cardinality(C) * 1 = Cardinality(C)
  BY <1>3, FS_CardinalityType
<1> HIDE DEF values, kpi, time, C
<1>10. kpi.value.n * Cardinality(C) = kpi.value.d * time
  BY <1>7, <1>8, <1>9 DEF IsMean, Whole
<1> QED
  BY <1>10 DEF kpi, C, rows, name, time

\* Finitely many fractions have a common denominator.
LEMMA CommonDenominator ==
    ASSUME NEW S, IsFiniteSet(S), NEW values \in [S -> Fraction]
    PROVE  \E D \in Nat \ {0} : \E A \in [S -> Int] : \A x \in S : Denotes(values[x], A[x], D)
<1> DEFINE F == {T \in SUBSET S : \E D \in Nat \ {0} : \E A \in [S -> Int] :
                                     \A x \in T : Denotes(values[x], A[x], D)}
<1>1. {} \in F
  <2>1. 1 \in Nat \ {0} /\ [x \in S |-> 0] \in [S -> Int]
    OBVIOUS
  <2> QED
    BY <2>1
<1>2. ASSUME NEW T \in SUBSET S, NEW y \in S \ T, T \in F
      PROVE  T \cup {y} \in F
  <2>1. PICK D \in Nat \ {0}, A \in [S -> Int] : \A x \in T : Denotes(values[x], A[x], D)
    BY <1>2
  <2>2. \A x \in S : values[x].n \in Int /\ values[x].d \in Nat \ {0}
    BY DEF Fraction
  <2> DEFINE p == values[y].n
             q == values[y].d
             B == [x \in S |-> IF x = y THEN p * D ELSE A[x] * q]
  <2>3. p \in Int /\ q \in Nat \ {0}
    BY <2>2
  <2>4. D * q \in Nat \ {0} /\ p * D \in Int /\ \A x \in S : A[x] * q \in Int
    BY <2>3
  <2>5. B \in [S -> Int]
    BY <2>4
  <2>6. ASSUME NEW x \in T
        PROVE  Denotes(values[x], B[x], D * q)
    <3> DEFINE n == values[x].n
               d == values[x].d
               a == A[x]
    <3>1. x \in S /\ x # y /\ B[x] = a * q
      OBVIOUS
    <3>2. n \in Int /\ d \in Int /\ a \in Int /\ n * D = a * d
      BY <2>1, <2>2, <3>1 DEF Denotes
    <3> HIDE DEF n, d, a, p, q, B
    <3>3. n * (D * q) = (n * D) * q /\ (a * d) * q = (a * q) * d
      BY <2>3, <3>2
    <3>4. n * (D * q) = (a * q) * d
      BY <3>2, <3>3
    <3> QED
      BY <3>1, <3>4 DEF Denotes, n, d
  <2>7. Denotes(values[y], B[y], D * q)
    <3>1. B[y] = p * D
      OBVIOUS
    <3>2. values[y].n = p /\ values[y].d = q
      OBVIOUS
    <3> HIDE DEF B, p, q
    <3>3. p * (D * q) = (p * D) * q
      BY <2>3
    <3> QED
      BY <3>1, <3>2, <3>3 DEF Denotes
  <2>8. \A x \in T \cup {y} : Denotes(values[x], B[x], D * q)
    BY <2>6, <2>7
  <2>9. T \cup {y} \in SUBSET S
    OBVIOUS
  <2> HIDE DEF B, p, q
  <2> QED
    BY <2>4, <2>5, <2>8, <2>9
<1>3. SUBSET S \subseteq F
  <2> HIDE DEF F
  <2> QED
    BY <1>1, <1>2, SetInduction
<1> QED
  BY <1>3

\* Two ways to write a sum are the same to a mean.
LEMMA SameSum ==
    ASSUME NEW v \in Fraction, NEW k \in Nat, NEW s \in Fraction, NEW t \in Fraction,
           NEW D \in Nat \ {0}, NEW a \in Int, Denotes(s, a, D), Denotes(t, a, D),
           IsMean(v, k, s)
    PROVE  IsMean(v, k, t)
<1> DEFINE n == v.n
           d == v.d
           sn == s.n
           sd == s.d
           tn == t.n
           td == t.d
<1>1. /\ n \in Int /\ d \in Int /\ sn \in Int /\ sd \in Int /\ tn \in Int /\ td \in Int
      /\ k \in Int /\ D \in Int /\ D # 0 /\ sd # 0
  BY DEF Fraction
<1>2. n * (k * sd) = d * sn /\ sn * D = a * sd /\ tn * D = a * td
  BY DEF IsMean, Denotes
<1> HIDE DEF n, d, sn, sd, tn, td
<1>3. (n * (k * td)) * (sd * D) = (n * (k * sd)) * (td * D)
  BY <1>1
<1>4. (d * sn) * (td * D) = (d * td) * (sn * D)
  BY <1>1
<1>5. (d * td) * (a * sd) = (d * (a * td)) * sd
  BY <1>1
<1>6. (d * (tn * D)) * sd = (d * tn) * (sd * D)
  BY <1>1
<1>7. (n * (k * td)) * (sd * D) = (d * tn) * (sd * D)
  BY <1>2, <1>3, <1>4, <1>5, <1>6
<1>8. sd * D # 0 /\ sd * D \in Int /\ n * (k * td) \in Int /\ d * tn \in Int
  BY <1>1
<1>9. n * (k * td) = d * tn
  <2> DEFINE p == n * (k * td)
             q == d * tn
             r == sd * D
  <2>1. p * r = q * r /\ p \in Int /\ q \in Int /\ r \in Int /\ r # 0
    BY <1>7, <1>8
  <2> HIDE DEF p, q, r
  <2>2. p = q
    BY <2>1
  <2> QED
    BY <2>2 DEF p, q
<1> QED
  BY <1>9 DEF IsMean, n, d, tn, td

\* A measured request has one metric of its own, and its latency is that metric's.
LEMMA ClientRow ==
    ASSUME NEW run, RunTyped(run), ~ClientRowsRefused(run, ClientRows(run)),
           NEW id \in MeasuredIds(run.metrics)
    PROVE  LET row == ClientRows(run)[id][Latency("e2e")]
           IN  \E x \in ClientMeasured(run.metrics) :
                  /\ {m \in ClientMeasured(run.metrics) : m.request = id} = {x}
                  /\ row.available => row.value = x.value /\ x.value \in Fraction
<1> DEFINE rows == ClientRows(run)
           own == OfRequest(run.metrics, id)
           mine == ClientCandidates(own, "e2e", id)
           row == rows[id][Latency("e2e")]
<1>1. id # None /\ id \in {m.request : m \in ClientMeasured(run.metrics)}
  BY DEF MeasuredIds, ClientMeasured
<1>2. mine = {m \in ClientMeasured(run.metrics) : m.request = id}
  BY <1>1 DEF ClientCandidates, ByClient, OfRequest, Of, ClientMeasured
<1>3. mine # {} /\ mine \in SUBSET run.metrics
  BY <1>1, <1>2 DEF ClientMeasured, ByClient, Of
<1>4. IsFiniteSet(mine) /\ None \notin mine
  BY <1>3, FS_Subset DEF RunTyped
<1>5. DOMAIN rows = MeasuredIds(run.metrics) /\ rows[id] = OneClientRequest(run, own, id)
  BY DEF ClientRows
<1>6. ~Ambiguous(mine)
  <2>1. ~OneClientRefused(run, own, id, rows[id])
    <3> HIDE DEF own
    <3> QED
      BY <1>5 DEF ClientRowsRefused, own
  <2>2. "e2e" \in ClientStems
    BY DEF ClientStems
  <2> HIDE DEF own
  <2> QED
    BY <2>1, <2>2 DEF OneClientRefused
<1> HIDE DEF mine
<1>7. PICK x : mine = {x}
  <2>1. Cardinality(mine) \in Nat /\ Cardinality(mine) # 0
    BY <1>3, <1>4, FS_CardinalityType, FS_EmptySet
  <2>2. Cardinality(mine) = 1
    BY <1>6, <2>1 DEF Ambiguous
  <2> QED
    BY <1>4, <2>2, FS_Singleton
<1>8. Selected(mine) = x /\ x # None
  BY <1>4, <1>7 DEF Selected
<1>9. row = NormalizedMetricKpi(run, Latency("e2e"), x, "client")
  <2>1. "e2e" \in ClientStems
    BY DEF ClientStems
  <2>2. row = NormalizedMetricKpi(run, Latency("e2e"), Selected(mine), "client")
    <3> HIDE DEF own
    <3> QED
      BY <1>5, <2>1, NamesDiffer DEF OneClientRequest, mine
  <2> QED
    BY <1>8, <2>2
<1> HIDE DEF row
<1>10. row.available => row.value = x.value /\ x.value # None
  BY <1>8, <1>9 DEF NormalizedMetricKpi, MetricValue, Kpi
<1>11. x.value \in Fraction \cup {None}
  BY <1>3, <1>7 DEF RunTyped
<1> QED
  BY <1>2, <1>7, <1>10, <1>11 DEF row

\* The client's latency over all the requests it measured.
LEMMA ClientMean ==
    ASSUME NEW run, RunTyped(run), ~ClientRowsRefused(run, ClientRows(run)),
           Collected(run, ClientRows(run), NoClientRequest(run))[Latency("e2e")].available
    PROVE  IsMean(Collected(run, ClientRows(run), NoClientRequest(run))[Latency("e2e")].value,
                  Cardinality(MeasuredIds(run.metrics)), SumOf(ClientMeasured(run.metrics)))
<1> DEFINE rows == ClientRows(run)
           none == NoClientRequest(run)
           ids == MeasuredIds(run.metrics)
           measured == ClientMeasured(run.metrics)
           name == Latency("e2e")
           names == {Latency(s) : s \in ClientStems}
           numbers == [m \in measured |-> m.value]
           request == [m \in measured |-> m.request]
<1>1. name \in names
  BY DEF ClientStems
<1>2. DOMAIN rows = ids /\ \A id \in ids : DOMAIN rows[id] = names
  BY DEF ClientRows, OneClientRequest
<1>3. IsFiniteSet(measured)
  BY FS_Subset DEF RunTyped, ClientMeasured, ByClient, Of
<1>4. ids = {request[m] : m \in measured}
  BY DEF MeasuredIds, ClientMeasured
<1>5. request \in [measured -> ids]
  BY <1>4
<1>6. IsFiniteSet(ids)
  <2> HIDE DEF ids, request, measured
  <2> QED
    BY <1>3, <1>4, ValuesAreFinite
<1>7. ids # {}
  <2>1. ~none[name].available
    BY <1>1 DEF NoClientRequest, NormalizedMetricKpi, Kpi
  <2> QED
    BY <1>2, <2>1 DEF Collected
<1>8. \A id \in ids : \E x \in measured :
         /\ {m \in measured : m.request = id} = {x}
         /\ rows[id][name].available => rows[id][name].value = x.value /\ x.value \in Fraction
  BY ClientRow
<1> DEFINE kpi == Collected(run, rows, none)[name]
<1>9. /\ \A id \in ids : rows[id][name].available
      /\ kpi.value \in Fraction
      /\ IsMean(kpi.value, Cardinality(ids), Total(NumbersOf(rows, name)))
  <2>1. IsFiniteSet(DOMAIN rows) /\ DOMAIN rows # {}
    BY <1>2, <1>6, <1>7
  <2>2. \A id \in DOMAIN rows :
           DOMAIN rows[id] = names
             /\ (rows[id][name].available => rows[id][name].value \in Fraction)
    BY <1>2, <1>8
  <2>3. Collected(run, rows, none)[name].available
    OBVIOUS
  <2> HIDE DEF rows, name, none
  <2>4. /\ \A c \in DOMAIN rows : rows[c][name].available
        /\ Collected(run, rows, none)[name].value \in Fraction
        /\ IsMean(Collected(run, rows, none)[name].value, Cardinality(DOMAIN rows),
                  Total(NumbersOf(rows, name)))
    BY <1>1, <2>1, <2>2, <2>3, CollectedMean
  <2> HIDE DEF ids
  <2> QED
    BY <1>2, <2>4
<1>10. \A m \in measured : request[m] \in ids /\ m.value \in Fraction
  <2> TAKE m \in measured
  <2>1. request[m] \in ids /\ request[m] = m.request
    BY <1>4
  <2>2. PICK x \in measured : /\ {y \in measured : y.request = m.request} = {x}
                              /\ x.value \in Fraction
    BY <1>8, <1>9, <2>1
  <2>3. m = x
    BY <2>2
  <2> QED
    BY <2>1, <2>2, <2>3
<1>11. numbers \in [measured -> Fraction]
  BY <1>10
<1>12. SumOf(measured) = Total(numbers)
  BY DEF SumOf
<1> HIDE DEF measured, numbers, ids, rows, name, names, none, kpi
<1>13. PICK D \in Nat \ {0} : \E A \in [measured -> Int] : \A m \in measured : Denotes(numbers[m], A[m], D)
  BY <1>3, <1>11, CommonDenominator
<1>14. PICK A \in [measured -> Int] : \A m \in measured : Denotes(numbers[m], A[m], D)
  BY <1>13
<1> DEFINE own == [id \in ids |-> A[CHOOSE m \in measured : m.request = id]]
           each == NumbersOf(rows, name)
<1>15. \A id \in ids : \E x \in measured :
          /\ {m \in measured : request[m] = id} = {x}
          /\ own[id] = A[x] /\ each[id] = numbers[x] /\ own[id] \in Int
          /\ each[id] \in Fraction
  <2> TAKE id \in ids
  <2>1. PICK x \in measured : /\ {m \in measured : m.request = id} = {x}
                              /\ rows[id][name].value = x.value /\ x.value \in Fraction
    BY <1>8, <1>9
  <2>2. {m \in measured : request[m] = id} = {m \in measured : m.request = id}
    OBVIOUS
  <2>3. (CHOOSE m \in measured : m.request = id) = x
    BY <2>1
  <2>4. own[id] = A[x]
    BY <2>3
  <2>5. each[id] = rows[id][name].value /\ numbers[x] = x.value
    BY <1>2 DEF NumbersOf, numbers
  <2>6. A[x] \in Int
    BY <1>14
  <2> HIDE DEF own, each, request
  <2> QED
    BY <2>1, <2>2, <2>4, <2>5, <2>6
<1>16. own \in [ids -> Int] /\ each \in [ids -> Fraction]
  <2>1. \A id \in ids : own[id] \in Int /\ each[id] \in Fraction
    BY <1>15
  <2>2. own = [id \in ids |-> own[id]]
    OBVIOUS
  <2>3. each = [id \in ids |-> each[id]]
    BY <1>2 DEF NumbersOf
  <2> HIDE DEF own, each
  <2> QED
    BY <2>1, <2>2, <2>3
<1>17. \A id \in ids : Denotes(each[id], own[id], D)
  <2> HIDE DEF own, each, request
  <2> QED
    BY <1>14, <1>15
<1> HIDE DEF own, each, request
<1>18. Summable(A, measured)
  BY <1>3, <1>14 DEF Summable
<1>19. Sigma(A, measured) = Sigma(own, ids)
  <2>1. \A id \in ids : \E x \in measured : {m \in measured : request[m] = id} = {x} /\ own[id] = A[x]
    BY <1>15
  <2> QED
    BY <1>5, <1>6, <1>18, <2>1, SigmaKeyed
<1>20. Total(numbers) \in Fraction /\ Denotes(Total(numbers), Sigma(A, measured), D)
  BY <1>3, <1>11, <1>14, TotalIs
<1>21. Total(each) \in Fraction /\ Denotes(Total(each), Sigma(own, ids), D)
  BY <1>6, <1>16, <1>17, TotalIs
<1>22. Sigma(own, ids) \in Int /\ Cardinality(ids) \in Nat
  BY <1>6, <1>18, <1>19, SigmaInt, FS_CardinalityType
<1>23. IsMean(kpi.value, Cardinality(ids), Total(numbers))
  BY <1>9, <1>19, <1>20, <1>21, <1>22, SameSum DEF each
<1> QED
  BY <1>12, <1>23 DEF kpi, ids, rows, name, none, measured

------------------------------------------------------------------------------
(* The steps.                                                                  *)

\* Every family of KPIs is what its step made of the loaded run, and is never made
\* again from something else.
Before == {"load", "trace", "client", "pipeline"}
MeansInv ==
    /\ input \in Inputs
    /\ DOMAIN kpis = {"client", "pipeline", "throughput", "transfer"}
    /\ kpis.client # None =>
          /\ ~ClientRowsRefused(loaded, ClientRows(loaded))
          /\ kpis.client = Collected(loaded, ClientRows(loaded), NoClientRequest(loaded))
    /\ kpis.pipeline # None =>
          /\ None \notin Correlations(loaded)
          /\ kpis.pipeline = Collected(loaded, PipelineRows(loaded), NoPipeline)
    /\ kpis.transfer # None => kpis.transfer = TransferKpis(loaded, kpis.pipeline, pairs)
    /\ stage \in Before => kpis.transfer = None

\* The steps of the generation keep what is known of its KPIs.
LEMMA MeansInvHolds == Spec => []MeansInv
<1>1. Init => MeansInv
  BY DEF Init, MeansInv, NoKpis
<1>2. MeansInv /\ [Next]_vars => MeansInv'
  <2> SUFFICES ASSUME MeansInv, [Next]_vars PROVE MeansInv'
    OBVIOUS
  <2> USE DEF MeansInv, loaded, Before
  <2>1. ASSUME input' = input, kpis' = kpis, pairs' = pairs, stage' \in Before => stage \in Before
        PROVE  MeansInv'
    BY <2>1
  <2>2. CASE UNCHANGED vars
    BY <2>1, <2>2 DEF vars
  <2>3. ASSUME NEW outcome, Refuse(outcome), outcome \notin Before
        PROVE  MeansInv'
    BY <2>1, <2>3 DEF Refuse
  <2>4. CASE Load
    <3>1. Refuse("refused_load") \/ (stage = "load" /\ UNCHANGED <<input, pairs, kpis>>)
      BY <2>4 DEF Load
    <3> QED
      BY <2>1, <2>3, <3>1
  <2>5. CASE Trace
    <3>1. Refuse("refused_trace") \/ (stage = "trace" /\ UNCHANGED <<input, pairs, kpis>>)
      BY <2>5 DEF Trace
    <3> QED
      BY <2>1, <2>3, <3>1
  <2>6. CASE RequestFacingLatency
    <3>1. CASE Refuse("refused_client")
      BY <2>3, <3>1
    <3>2. CASE ~Refuse("refused_client")
      <4>1. /\ stage = "client" /\ UNCHANGED <<input, pairs>>
            /\ ~ClientRowsRefused(loaded, ClientRows(loaded))
            /\ kpis' = [kpis EXCEPT !.client =
                         Collected(loaded, ClientRows(loaded), NoClientRequest(loaded))]
        BY <2>6, <3>2 DEF RequestFacingLatency
      <4> QED
        BY <4>1
    <3> QED
      BY <3>1, <3>2
  <2>7. CASE PipelineLatency
    <3>1. CASE Refuse("refused_pipeline")
      BY <2>3, <3>1
    <3>2. CASE ~Refuse("refused_pipeline")
      <4>1. /\ stage = "pipeline" /\ UNCHANGED input /\ stage' = "windows"
            /\ ~PipelineRefused(loaded, PipelineRows(loaded))
            /\ kpis' = [kpis EXCEPT !.pipeline = Collected(loaded, PipelineRows(loaded), NoPipeline)]
        BY <2>7, <3>2 DEF PipelineLatency
      <4>2. None \notin Correlations(loaded)
        BY <4>1 DEF PipelineRefused
      <4>3. kpis'.transfer = None /\ kpis'.client = kpis.client
        BY <4>1
      <4> QED
        BY <4>1, <4>2, <4>3
    <3> QED
      BY <3>1, <3>2
  <2>8. CASE StageWindows
    BY <2>1, <2>8 DEF StageWindows
  <2>9. CASE Throughput
    <3>1. CASE Refuse("refused_throughput")
      BY <2>3, <3>1
    <3>2. CASE ~Refuse("refused_throughput")
      <4>1. /\ stage' = "transfer" /\ UNCHANGED <<input, pairs>>
            /\ kpis' = [kpis EXCEPT !.throughput = ThroughputAndTokens(loaded)]
        BY <2>9, <3>2 DEF Throughput
      <4> QED
        BY <4>1
    <3> QED
      BY <3>1, <3>2
  <2>10. CASE Transfer
    <3>1. CASE Refuse("refused_transfer")
      BY <2>3, <3>1
    <3>2. CASE ~Refuse("refused_transfer")
      <4>1. /\ stage' = "resources" /\ UNCHANGED <<input, pairs>>
            /\ kpis' = [kpis EXCEPT !.transfer = TransferKpis(loaded, kpis.pipeline, pairs)]
        BY <2>10, <3>2 DEF Transfer
      <4> QED
        BY <4>1
    <3> QED
      BY <3>1, <3>2
  <2>11. CASE Resources
    <3>1. Refuse("refused_resources")
          \/ (stage' = "report" /\ UNCHANGED <<input, pairs, kpis>>)
      BY <2>11 DEF Resources
    <3> QED
      BY <2>1, <2>3, <3>1
  <2>12. CASE Report
    <3>1. Refuse("refused_report")
          \/ (stage' = "validate" /\ UNCHANGED <<input, pairs, kpis>>)
      BY <2>12 DEF Report
    <3> QED
      BY <2>1, <2>3, <3>1
  <2>13. CASE Validate
    <3>1. stage' \in {"validated", "refused_validate"} /\ UNCHANGED <<input, pairs, kpis>>
      BY <2>13 DEF Validate
    <3> QED
      BY <2>1, <3>1
  <2> QED
    BY <2>2, <2>4, <2>5, <2>6, <2>7, <2>8, <2>9, <2>10, <2>11, <2>12, <2>13 DEF Next
<1> QED
  BY <1>1, <1>2, PTL DEF Spec

\* An interval that was not available leaves the mean over its kind without a value.
LEMMA ObservedAll ==
    ASSUME NEW run, NEW pipeline, NEW some, NEW name \in ObservabilityNames,
           TransferKpis(run, pipeline, some)[name].available
    PROVE  \A m \in Observed(run, name, TransferKpis(run, pipeline, some)[name].scope.request) :
              m.available
<1> DEFINE request == TransferRequest(pipeline, some)
           clock == pipeline[Latency("kv_transfer")].clock
           kpi == TransferKpis(run, pipeline, some)[name]
<1>1. kpi = ObservabilityKpi(run, name, request, clock)
  BY DEF TransferKpis
<1> HIDE DEF kpi, clock, request
<1>2. kpi.scope.request = request /\ kpi.available = (ObservedMean(Observed(run, name, request)) # None)
  BY <1>1 DEF ObservabilityKpi, Kpi, Scope
<1>3. kpi.available
  BY DEF kpi
<1>4. \A m \in Observed(run, name, request) : m.available
  BY <1>2, <1>3 DEF ObservedMean, MetricValue
<1> QED
  BY <1>2, <1>4 DEF kpi

\* A mean over several requests, or over several intervals of one, stands on all of
\* them.
THEOREM MeansHold == Spec => []MeansHideNothing
<1>1. MeansInv => MeansHideNothing
  <2> SUFFICES ASSUME MeansInv PROVE MeansHideNothing
    OBVIOUS
  <2>1. RunTyped(loaded)
    BY InputsAssumption DEF MeansInv, loaded
  <2>2. ASSUME kpis.pipeline # None, NEW stem \in PairedStems, kpis.pipeline[Latency(stem)].available
        PROVE  kpis.pipeline[Latency(stem)].value.n * Cardinality(Correlations(loaded))
                 = kpis.pipeline[Latency(stem)].value.d
                     * (MarkerTime(loaded.events, LastMarker(stem))
                          - MarkerTime(loaded.events, FirstMarker(stem)))
    <3>1. /\ None \notin Correlations(loaded)
          /\ kpis.pipeline = Collected(loaded, PipelineRows(loaded), NoPipeline)
      BY <2>2 DEF MeansInv
    <3> HIDE DEF loaded
    <3> QED
      BY <2>1, <2>2, <3>1, PipelineMean
  <2>3. ASSUME kpis.client # None, kpis.client[Latency("e2e")].available
        PROVE  IsMean(kpis.client[Latency("e2e")].value,
                      Cardinality(MeasuredIds(loaded.metrics)),
                      SumOf(ClientMeasured(loaded.metrics)))
    <3>1. /\ ~ClientRowsRefused(loaded, ClientRows(loaded))
          /\ kpis.client = Collected(loaded, ClientRows(loaded), NoClientRequest(loaded))
      BY <2>3 DEF MeansInv
    <3> HIDE DEF loaded
    <3> QED
      BY <2>1, <2>3, <3>1, ClientMean
  <2>4. ASSUME kpis.transfer # None, NEW name \in ObservabilityNames,
               kpis.transfer[name].available
        PROVE  \A m \in Observed(loaded, name, kpis.transfer[name].scope.request) : m.available
    <3>1. kpis.transfer = TransferKpis(loaded, kpis.pipeline, pairs)
      BY <2>4 DEF MeansInv
    <3> HIDE DEF loaded
    <3> QED
      BY <2>4, <3>1, ObservedAll
  <2> QED
    BY <2>2, <2>3, <2>4 DEF MeansHideNothing, IsMean
<1> QED
  BY <1>1, MeansInvHolds, PTL

------------------------------------------------------------------------------
(* The plan of a run: its pairs of markers as slices on lanes.                 *)

Planned(run) == assign_concurrent_lanes(pair_slices(run.events))
PairsOf(run, s) == Pairs(s, Named(run.events, s.first), Named(run.events, s.last))

\* A slice of the plan shows this pair of markers, on whatever lane.
Shows(item, s, pair) ==
    /\ item.stage = s.track /\ item.start = pair[1] /\ item.end = pair[2]
    /\ item.correlation = correlation_of(pair[1])
    /\ item.spec.ts = pair[1].ts /\ item.spec.dur = pair[2].ts - pair[1].ts
    /\ base_track_key(item.spec.track) = s.track
    /\ item.spec.note.step = IF s.discriminator = "step" THEN pair[1].step ELSE None

\* No two stages have one track.
LEMMA StagesDiffer == \A s, t \in Stages : s.track = t.track => s = t
BY DEF Stages, PipelineStages, DetailStages, Bracketed, Stage

\* Every latency of the pipeline is that of one stage of the plan.
LEMMA StageOfStem ==
    ASSUME NEW stem \in PairedStems
    PROVE  \E s \in Stages :
              /\ s.track = TrackOfStem(stem)
              /\ s.first = FirstMarker(stem) /\ s.last = LastMarker(stem)
              /\ s.discriminator = IF stem = "sampling" THEN "step"
                                   ELSE IF stem = "kv_transfer" THEN "transfer" ELSE "request"
<1> DEFINE P(t) == \E s \in Stages :
              /\ s.track = TrackOfStem(t)
              /\ s.first = FirstMarker(t) /\ s.last = LastMarker(t)
              /\ s.discriminator = IF t = "sampling" THEN "step"
                                   ELSE IF t = "kv_transfer" THEN "transfer" ELSE "request"
<1>1. P("e2e")
  <2> DEFINE s == Stage("request", "request_received", "response_done", "request", "response", "request", None)
  <2>1. s \in Stages
    BY DEF Stages, PipelineStages, DetailStages
  <2>2. /\ s.track = "request" /\ s.first = "request_received" /\ s.last = "response_done"
        /\ s.discriminator = "request"
    BY DEF Stage, Bracketed
  <2> HIDE DEF s
  <2> QED
    BY <2>1, <2>2 DEF TrackOfStem, FirstMarker, LastMarker, Pairings
<1>2. P("prefill")
  <2> DEFINE s == Bracketed("gpu_prefill", "prefill_start", "prefill_end", "prefill", "request", 0)
  <2>1. s \in Stages
    BY DEF Stages, PipelineStages, DetailStages
  <2>2. /\ s.track = "gpu_prefill" /\ s.first = "prefill_start" /\ s.last = "prefill_end"
        /\ s.discriminator = "request"
    BY DEF Stage, Bracketed
  <2> HIDE DEF s
  <2> QED
    BY <2>1, <2>2 DEF TrackOfStem, FirstMarker, LastMarker, Pairings
<1>3. P("kv_export")
  <2> DEFINE s == Bracketed("kv_export", "kv_export_start", "kv_export_end", "kv_export", "request", 1)
  <2>1. s \in Stages
    BY DEF Stages, PipelineStages, DetailStages
  <2>2. /\ s.track = "kv_export" /\ s.first = "kv_export_start" /\ s.last = "kv_export_end"
        /\ s.discriminator = "request"
    BY DEF Stage, Bracketed
  <2> HIDE DEF s
  <2> QED
    BY <2>1, <2>2 DEF TrackOfStem, FirstMarker, LastMarker, Pairings
<1>4. P("kv_transfer")
  <2> DEFINE s == Bracketed("kv_transfer", "kv_transfer_start", "kv_transfer_end", "kv_transfer", "transfer", 4)
  <2>1. s \in Stages
    BY DEF Stages, PipelineStages, DetailStages
  <2>2. /\ s.track = "kv_transfer" /\ s.first = "kv_transfer_start" /\ s.last = "kv_transfer_end"
        /\ s.discriminator = "transfer"
    BY DEF Stage, Bracketed
  <2> HIDE DEF s
  <2> QED
    BY <2>1, <2>2 DEF TrackOfStem, FirstMarker, LastMarker, Pairings
<1>5. P("kv_transform")
  <2> DEFINE s == Bracketed("kv_transform", "kv_transform_start", "kv_transform_end", "kv_transform", "request", 6)
  <2>1. s \in Stages
    BY DEF Stages, PipelineStages, DetailStages
  <2>2. /\ s.track = "kv_transform" /\ s.first = "kv_transform_start" /\ s.last = "kv_transform_end"
        /\ s.discriminator = "request"
    BY DEF Stage, Bracketed
  <2> HIDE DEF s
  <2> QED
    BY <2>1, <2>2 DEF TrackOfStem, FirstMarker, LastMarker, Pairings
<1>6. P("decode")
  <2> DEFINE s == Bracketed("npu_decode", "decode_loop_start", "decode_loop_end", "decode", "request", 9)
  <2>1. s \in Stages
    BY DEF Stages, PipelineStages, DetailStages
  <2>2. /\ s.track = "npu_decode" /\ s.first = "decode_loop_start" /\ s.last = "decode_loop_end"
        /\ s.discriminator = "request"
    BY DEF Stage, Bracketed
  <2> HIDE DEF s
  <2> QED
    BY <2>1, <2>2 DEF TrackOfStem, FirstMarker, LastMarker, Pairings
<1>7. P("sampling")
  <2> DEFINE s == Bracketed("sampling", "sampling_start", "sampling_end", "sampling", "step", 1)
  <2>1. s \in Stages
    BY DEF Stages, PipelineStages, DetailStages
  <2>2. /\ s.track = "sampling" /\ s.first = "sampling_start" /\ s.last = "sampling_end"
        /\ s.discriminator = "step"
    BY DEF Stage, Bracketed
  <2> HIDE DEF s
  <2> QED
    BY <2>1, <2>2 DEF TrackOfStem, FirstMarker, LastMarker, Pairings
<1> HIDE DEF P
<1>8. P(stem)
  BY <1>1, <1>2, <1>3, <1>4, <1>5, <1>6, <1>7 DEF PairedStems, DerivedStems
<1> QED
  BY <1>8 DEF P

\* A lane changes nothing but the track.
LEMMA LaneShows ==
    ASSUME NEW s, NEW start, NEW end, NEW lane
    PROVE  Shows([PairedSlice(s, start, end) EXCEPT
                     !.spec.track = lane_track_key(StageKey(s.track), lane)], s, <<start, end>>)
<1> DEFINE item == PairedSlice(s, start, end)
           laned == [item EXCEPT !.spec.track = lane_track_key(StageKey(s.track), lane)]
<1>1. base_track_key(lane_track_key(StageKey(s.track), lane)) = s.track
  BY DEF base_track_key, lane_track_key, StageKey, TrackKey
<1> DEFINE key == lane_track_key(StageKey(s.track), lane)
<1> HIDE DEF key
<1>2. laned = [item EXCEPT !.spec = [item.spec EXCEPT !.track = key]]
  BY DEF PairedSlice, SliceSpec, key
<1>3. base_track_key(key) = s.track
  BY <1>1 DEF key
<1>4. Shows([item EXCEPT !.spec = [item.spec EXCEPT !.track = key]], s, <<start, end>>)
  BY <1>3 DEF Shows, PairedSlice, SliceSpec, Note
<1> HIDE DEF item, laned
<1> QED
  BY <1>2, <1>4 DEF item, laned

\* The slices of a stage in the plan are its pairs of markers, one for one.
LEMMA StageItems ==
    ASSUME NEW run, NEW s \in Stages
    PROVE  LET items == OfStage(Planned(run), s.track)
           IN  \E f \in Bijection(PairsOf(run, s), items) :
                  \A pair \in PairsOf(run, s) : Shows(f[pair], s, pair)
<1> DEFINE pairs0 == PairsOf(run, s)
           items == OfStage(Planned(run), s.track)
           raw == pair_slices(run.events)
           mine == OfStage(raw, s.track)
           key(item) == lane_track_key(StageKey(item.stage), Lanes(mine)[item])
           put(item) == [item EXCEPT !.spec.track = key(item)]
           f == [pair \in pairs0 |-> put(PairedSlice(s, pair[1], pair[2]))]
<1>1. \A pair \in pairs0 : pair = <<pair[1], pair[2]>>
  BY DEF PairsOf, Pairs
<1>2. raw = UNION {{PairedSlice(t, pair[1], pair[2]) : pair \in PairsOf(run, t)} : t \in Stages}
  BY DEF pair_slices, PairsOf
<1>3. mine = {PairedSlice(s, pair[1], pair[2]) : pair \in pairs0}
  <2>1. \A t, a, b : PairedSlice(t, a, b).stage = t.track
    BY DEF PairedSlice
  <2>2. mine \subseteq {PairedSlice(s, pair[1], pair[2]) : pair \in pairs0}
    <3> SUFFICES ASSUME NEW item \in mine
                 PROVE  item \in {PairedSlice(s, pair[1], pair[2]) : pair \in pairs0}
      OBVIOUS
    <3>1. PICK t \in Stages :
             \E pair \in PairsOf(run, t) : item = PairedSlice(t, pair[1], pair[2])
      BY <1>2 DEF OfStage
    <3>2. item.stage = s.track
      BY DEF OfStage
    <3>3. t = s
      BY <2>1, <3>1, <3>2, StagesDiffer
    <3> QED
      BY <3>1, <3>3
  <2>3. {PairedSlice(s, pair[1], pair[2]) : pair \in pairs0} \subseteq mine
    BY <1>2, <2>1 DEF OfStage
  <2> QED
    BY <2>2, <2>3
<1>4. \A t \in Stages : \A item \in OnLanes(OfStage(raw, t.track), Lanes(OfStage(raw, t.track))) :
         item.stage = t.track
  <2> TAKE t \in Stages
  <2> TAKE item \in OnLanes(OfStage(raw, t.track), Lanes(OfStage(raw, t.track)))
  <2>1. PICK it \in OfStage(raw, t.track) :
           item = [it EXCEPT !.spec.track = lane_track_key(StageKey(it.stage),
                                                            Lanes(OfStage(raw, t.track))[it])]
    BY DEF OnLanes
  <2>2. it.stage = t.track
    BY DEF OfStage
  <2>3. \E u \in Stages : \E pair \in PairsOf(run, u) : it = PairedSlice(u, pair[1], pair[2])
    BY <1>2 DEF OfStage
  <2>4. DOMAIN it = {"stage", "correlation", "start", "end", "spec"}
    BY <2>3 DEF PairedSlice
  <2> QED
    BY <2>1, <2>2, <2>4
<1>5. items = {put(item) : item \in mine}
  <2>1. Planned(run) = UNION {OnLanes(rows, Lanes(rows)) : rows \in {OfStage(raw, t.track) : t \in Stages}}
    BY DEF Planned, assign_concurrent_lanes
  <2>2. OnLanes(mine, Lanes(mine)) = {put(item) : item \in mine}
    BY DEF OnLanes
  <2>3. items \subseteq OnLanes(mine, Lanes(mine))
    <3> SUFFICES ASSUME NEW item \in items PROVE item \in OnLanes(mine, Lanes(mine))
      OBVIOUS
    <3>1. item \in Planned(run) /\ item.stage = s.track
      BY DEF OfStage
    <3>2. PICK t \in Stages : item \in OnLanes(OfStage(raw, t.track), Lanes(OfStage(raw, t.track)))
      BY <2>1, <3>1
    <3>3. t = s
      BY <1>4, <3>1, <3>2, StagesDiffer
    <3> QED
      BY <3>2, <3>3
  <2>4. OnLanes(mine, Lanes(mine)) \subseteq items
    <3> SUFFICES ASSUME NEW item \in OnLanes(mine, Lanes(mine)) PROVE item \in items
      OBVIOUS
    <3>1. item.stage = s.track
      BY <1>4
    <3>2. item \in Planned(run)
      BY <2>1
    <3> QED
      BY <3>1, <3>2 DEF OfStage
  <2> QED
    BY <2>2, <2>3, <2>4
<1>6. \A pair \in pairs0 : Shows(f[pair], s, pair)
  <2> TAKE pair \in pairs0
  <2> DEFINE it == PairedSlice(s, pair[1], pair[2])
             lane == Lanes(mine)[it]
  <2>1. it.stage = s.track
    BY DEF PairedSlice
  <2>2. f[pair] = [it EXCEPT !.spec.track = lane_track_key(StageKey(s.track), lane)]
    BY <2>1
  <2> HIDE DEF lane
  <2>3. Shows(f[pair], s, <<pair[1], pair[2]>>)
    BY <2>2, LaneShows
  <2> QED
    BY <1>1, <2>3
<1>7. f \in Bijection(pairs0, items)
  <2>1. items = {f[pair] : pair \in pairs0}
    <3>1. \A pair \in pairs0 : f[pair] = put(PairedSlice(s, pair[1], pair[2]))
      OBVIOUS
    <3> HIDE DEF items, mine, put, f, pairs0
    <3> QED
      BY <1>3, <1>5, <3>1
  <2>2. \A a, b \in pairs0 : f[a] = f[b] => a = b
    <3> TAKE a, b \in pairs0
    <3> HAVE f[a] = f[b]
    <3>1. f[a].start = a[1] /\ f[a].end = a[2] /\ f[b].start = b[1] /\ f[b].end = b[2]
      BY <1>6 DEF Shows
    <3> QED
      BY <1>1, <3>1
  <2>3. f = [pair \in pairs0 |-> f[pair]]
    OBVIOUS
  <2> HIDE DEF f, items, pairs0
  <2>4. f \in Injection(pairs0, items)
    <3>1. f \in [pairs0 -> items]
      BY <2>1, <2>3
    <3> QED
      BY <2>1, <2>2, <3>1 DEF Injection, IsInjective
  <2> QED
    BY <2>1, <2>4 DEF Bijection, Surjection, Injection
<1> QED
  BY <1>6, <1>7

\* As many values as elements: no two elements have one value.
LEMMA ValuesTellApart ==
    ASSUME NEW S, IsFiniteSet(S), NEW f, Cardinality({f[x] : x \in S}) = Cardinality(S)
    PROVE  \A x, y \in S : f[x] = f[y] => x = y
<1> DEFINE T == {f[x] : x \in S}
           g == [x \in S |-> f[x]]
<1>1. g \in Surjection(S, T)
  BY DEF Surjection
<1>2. g \in Injection(S, T)
  BY <1>1, FS_Surjection
<1> QED
  BY <1>2 DEF Injection, IsInjective

\* What the planner has made sure of: the starts and the ends of a stage meet one for
\* one by their keys, and no pair ends before it starts.
LEMMA StagePairs ==
    ASSUME NEW run, RunTyped(run), ~PairingRefused(run.events), NEW s \in Stages
    PROVE  LET starts == Named(run.events, s.first)
               ends == Named(run.events, s.last)
           IN  /\ \A e \in starts \cup ends : pair_key(s, e)[1] # None /\ pair_key(s, e)[2] # None
               /\ \A a, b \in starts : pair_key(s, a) = pair_key(s, b) => a = b
               /\ \A a, b \in ends : pair_key(s, a) = pair_key(s, b) => a = b
               /\ \A a \in starts : \E b \in ends : pair_key(s, b) = pair_key(s, a)
               /\ \A b \in ends : \E a \in starts : pair_key(s, a) = pair_key(s, b)
               /\ \A pair \in PairsOf(run, s) : pair[1].ts <= pair[2].ts
<1> DEFINE starts == Named(run.events, s.first)
           ends == Named(run.events, s.last)
<1>1. ~StageRefused(s, starts, ends)
  BY DEF PairingRefused
<1>2. IsFiniteSet(run.events) /\ starts \subseteq run.events /\ ends \subseteq run.events
  BY EventsFinite DEF Named
<1>3. IsFiniteSet(starts) /\ IsFiniteSet(ends)
  BY <1>2, FS_Subset
<1>4. \A e \in starts \cup ends : e.ts \in Int
  BY <1>2 DEF RunTyped
<1> HIDE DEF starts, ends
<1>5. \A e \in starts \cup ends : pair_key(s, e)[1] # None /\ pair_key(s, e)[2] # None
  BY <1>1 DEF StageRefused, UnusableMarker
<1>6. \A S : IsFiniteSet(S) /\ ~DuplicateKey(s, S) =>
               \A a, b \in S : pair_key(s, a) = pair_key(s, b) => a = b
  <2> TAKE S
  <2> HAVE IsFiniteSet(S) /\ ~DuplicateKey(s, S)
  <2> DEFINE f == [e \in S |-> pair_key(s, e)]
  <2>1. Keys(s, S) = {f[e] : e \in S}
    BY DEF Keys
  <2>2. Cardinality({f[e] : e \in S}) = Cardinality(S)
    BY <2>1 DEF DuplicateKey
  <2>3. \A a, b \in S : f[a] = f[b] => a = b
    <3> HIDE DEF f
    <3> QED
      BY <2>2, ValuesTellApart
  <2> QED
    BY <2>3
<1>7. /\ \A a, b \in starts : pair_key(s, a) = pair_key(s, b) => a = b
      /\ \A a, b \in ends : pair_key(s, a) = pair_key(s, b) => a = b
  BY <1>1, <1>3, <1>6 DEF StageRefused
<1>8. Keys(s, starts) = Keys(s, ends)
  BY <1>1 DEF StageRefused
<1>9. /\ \A a \in starts : \E b \in ends : pair_key(s, b) = pair_key(s, a)
      /\ \A b \in ends : \E a \in starts : pair_key(s, a) = pair_key(s, b)
  BY <1>8 DEF Keys
<1>10. \A pair \in PairsOf(run, s) : pair[1].ts <= pair[2].ts
  <2> TAKE pair \in PairsOf(run, s)
  <2>1. pair \in Pairs(s, starts, ends) /\ pair[1] \in starts /\ pair[2] \in ends
    BY DEF PairsOf, Pairs, starts, ends
  <2>2. ~(pair[2].ts < pair[1].ts)
    BY <1>1, <2>1 DEF StageRefused
  <2> QED
    BY <1>4, <2>1, <2>2
<1> QED
  BY <1>5, <1>7, <1>9, <1>10 DEF starts, ends

\* Each end of a stage is that of one pair.
LEMMA EndsOfPairs ==
    ASSUME NEW run, RunTyped(run), ~PairingRefused(run.events), NEW s \in Stages
    PROVE  LET pairs0 == PairsOf(run, s)
           IN  /\ IsFiniteSet(pairs0)
               /\ \A pair \in pairs0 : /\ pair = <<pair[1], pair[2]>>
                                       /\ pair[1] \in Named(run.events, s.first)
                                       /\ pair[2] \in Named(run.events, s.last)
                                       /\ pair_key(s, pair[1]) = pair_key(s, pair[2])
               /\ \A e \in Named(run.events, s.first) :
                     \E x \in pairs0 : {y \in pairs0 : y[1] = e} = {x} /\ x[1] = e
               /\ \A e \in Named(run.events, s.last) :
                     \E x \in pairs0 : {y \in pairs0 : y[2] = e} = {x} /\ x[2] = e
<1> DEFINE starts == Named(run.events, s.first)
           ends == Named(run.events, s.last)
           pairs0 == PairsOf(run, s)
<1>1. /\ \A a, b \in starts : pair_key(s, a) = pair_key(s, b) => a = b
      /\ \A a, b \in ends : pair_key(s, a) = pair_key(s, b) => a = b
      /\ \A a \in starts : \E b \in ends : pair_key(s, b) = pair_key(s, a)
      /\ \A b \in ends : \E a \in starts : pair_key(s, a) = pair_key(s, b)
  BY StagePairs
<1>2. IsFiniteSet(starts) /\ IsFiniteSet(ends)
  BY EventsFinite, FS_Subset DEF Named
<1>3. pairs0 = {pair \in starts \X ends : pair_key(s, pair[1]) = pair_key(s, pair[2])}
  BY DEF PairsOf, Pairs
<1> HIDE DEF starts, ends, pairs0
<1>4. IsFiniteSet(pairs0)
  <2>1. IsFiniteSet(starts \X ends)
    BY <1>2, FS_Product
  <2> QED
    BY <1>3, <2>1, FS_Subset
<1>5. \A pair \in pairs0 : /\ pair = <<pair[1], pair[2]>> /\ pair[1] \in starts /\ pair[2] \in ends
                           /\ pair_key(s, pair[1]) = pair_key(s, pair[2])
  BY <1>3
<1>6. ASSUME NEW e \in starts
      PROVE  \E x \in pairs0 : {y \in pairs0 : y[1] = e} = {x} /\ x[1] = e
  <2>1. PICK b \in ends : pair_key(s, b) = pair_key(s, e)
    BY <1>1
  <2>2. <<e, b>> \in pairs0
    BY <1>3, <2>1
  <2>3. \A y \in pairs0 : y[1] = e => y = <<e, b>>
    BY <1>1, <1>5, <2>1
  <2> QED
    BY <2>2, <2>3
<1>7. ASSUME NEW e \in ends
      PROVE  \E x \in pairs0 : {y \in pairs0 : y[2] = e} = {x} /\ x[2] = e
  <2>1. PICK a \in starts : pair_key(s, a) = pair_key(s, e)
    BY <1>1
  <2>2. <<a, e>> \in pairs0
    BY <1>3, <2>1
  <2>3. \A y \in pairs0 : y[2] = e => y = <<a, e>>
    BY <1>1, <1>5, <2>1
  <2> QED
    BY <2>2, <2>3
<1> QED
  BY <1>4, <1>5, <1>6, <1>7 DEF starts, ends, pairs0

\* How long the slices of a stage last together is the time between its markers.
LEMMA StageTime ==
    ASSUME NEW run, RunTyped(run), ~PairingRefused(run.events), NEW s \in Stages,
           NEW dur, \A item \in OfStage(Planned(run), s.track) : dur[item] = item.spec.dur
    PROVE  LET items == OfStage(Planned(run), s.track)
           IN  /\ IsFiniteSet(items) /\ Summable(dur, items)
               /\ Sigma(dur, items)
                    = MarkerTime(run.events, s.last) - MarkerTime(run.events, s.first)
               /\ MarkerTime(run.events, s.last) \in Int /\ MarkerTime(run.events, s.first) \in Int
<1> DEFINE starts == Named(run.events, s.first)
           ends == Named(run.events, s.last)
           pairs0 == PairsOf(run, s)
           items == OfStage(Planned(run), s.track)
           first == [e \in starts |-> e.ts]
           last == [e \in ends |-> e.ts]
           early == [pair \in pairs0 |-> pair[1].ts]
           late == [pair \in pairs0 |-> pair[2].ts]
           long == [pair \in pairs0 |-> pair[2].ts - pair[1].ts]
           toStart == [pair \in pairs0 |-> pair[1]]
           toEnd == [pair \in pairs0 |-> pair[2]]
<1>1. /\ IsFiniteSet(pairs0)
      /\ \A pair \in pairs0 : pair[1] \in starts /\ pair[2] \in ends
      /\ \A e \in starts : \E x \in pairs0 : {y \in pairs0 : y[1] = e} = {x} /\ x[1] = e
      /\ \A e \in ends : \E x \in pairs0 : {y \in pairs0 : y[2] = e} = {x} /\ x[2] = e
  BY EndsOfPairs
<1>2. /\ IsFiniteSet(starts) /\ IsFiniteSet(ends)
      /\ \A e \in starts \cup ends : e.ts \in Int
  BY EventsFinite, FS_Subset DEF Named, RunTyped
<1>3. PICK f \in Bijection(pairs0, items) : \A pair \in pairs0 : Shows(f[pair], s, pair)
  BY StageItems
<1>4. MarkerTime(run.events, s.last) = SumFunction(last) /\ MarkerTime(run.events, s.first) = SumFunction(first)
  BY DEF MarkerTime
<1> HIDE DEF starts, ends, pairs0, items
<1>5. Summable(first, starts) /\ Summable(last, ends) /\ Summable(early, pairs0) /\ Summable(late, pairs0)
  BY <1>1, <1>2 DEF Summable
<1>6. toStart \in [pairs0 -> starts] /\ toEnd \in [pairs0 -> ends]
  BY <1>1
<1>7. \A e \in starts : \E x \in pairs0 : {y \in pairs0 : toStart[y] = e} = {x} /\ first[e] = early[x]
  <2> TAKE e \in starts
  <2>1. PICK x \in pairs0 : {y \in pairs0 : y[1] = e} = {x} /\ x[1] = e
    BY <1>1
  <2>2. {y \in pairs0 : toStart[y] = e} = {x} /\ first[e] = early[x]
    BY <2>1
  <2> QED
    BY <2>2
<1>8. \A e \in ends : \E x \in pairs0 : {y \in pairs0 : toEnd[y] = e} = {x} /\ last[e] = late[x]
  <2> TAKE e \in ends
  <2>1. PICK x \in pairs0 : {y \in pairs0 : y[2] = e} = {x} /\ x[2] = e
    BY <1>1
  <2>2. {y \in pairs0 : toEnd[y] = e} = {x} /\ last[e] = late[x]
    BY <2>1
  <2> QED
    BY <2>2
<1>9. \A pair \in pairs0 : long[pair] = late[pair] - early[pair]
  OBVIOUS
<1>10. \A item \in items : \E x \in pairs0 : {y \in pairs0 : f[y] = item} = {x} /\ dur[item] = long[x]
  <2> TAKE item \in items
  <2>1. PICK x \in pairs0 : f[x] = item
    BY <1>3 DEF Bijection, Surjection
  <2>2. \A y \in pairs0 : f[y] = item => y = x
    BY <1>3, <2>1 DEF Bijection, Injection, IsInjective
  <2>3. dur[item] = long[x]
    BY <1>3, <2>1 DEF Shows, items
  <2> QED
    BY <2>1, <2>2, <2>3
<1>11. f \in [pairs0 -> items] /\ IsFiniteSet(items)
  <2>1. f \in [pairs0 -> items] /\ f \in Surjection(pairs0, items)
    BY <1>3 DEF Bijection, Surjection
  <2> QED
    BY <1>1, <2>1, FS_Surjection
<1>12. DOMAIN first = starts /\ DOMAIN last = ends
  OBVIOUS
<1>13. \A pair \in pairs0 : long[pair] \in Int
  BY <1>1, <1>2
<1> HIDE DEF first, last, early, late, long, toStart, toEnd
<1>14. Sigma(early, pairs0) = Sigma(first, starts)
  BY <1>2, <1>5, <1>6, <1>7, SigmaKeyed
<1>15. Sigma(late, pairs0) = Sigma(last, ends)
  BY <1>2, <1>5, <1>6, <1>8, SigmaKeyed
<1>16. Sigma(long, pairs0) = Sigma(late, pairs0) - Sigma(early, pairs0) /\ Summable(long, pairs0)
  BY <1>1, <1>5, <1>9, <1>13, SigmaMinus DEF Summable
<1>17. Sigma(long, pairs0) = Sigma(dur, items) /\ Summable(dur, items)
  BY <1>10, <1>11, <1>16, SigmaKeyed
<1>18. SumFunction(last) = Sigma(last, ends) /\ SumFunction(first) = Sigma(first, starts)
  BY <1>5, <1>12, SumIs
<1>19. Sigma(last, ends) \in Int /\ Sigma(first, starts) \in Int
  BY <1>5, SigmaInt
<1> QED
  BY <1>4, <1>11, <1>14, <1>15, <1>16, <1>17, <1>18, <1>19 DEF items

\* The stages are finitely many.
LEMMA StagesFinite == IsFiniteSet(Stages)
<1>1. \A a, b : IsFiniteSet({a, b})
  <2> TAKE a, b
  <2>1. IsFiniteSet({a}) /\ IsFiniteSet({b})
    BY FS_Singleton
  <2>2. IsFiniteSet({a} \cup {b})
    BY <2>1, FS_Union
  <2>3. {a} \cup {b} = {a, b}
    OBVIOUS
  <2> QED
    BY <2>2, <2>3
<1>2. \A a, b, c, d, e : IsFiniteSet({a, b, c, d, e})
  <2> TAKE a, b, c, d, e
  <2>1. IsFiniteSet({a, b} \cup {c, d})
    BY <1>1, FS_Union
  <2>2. IsFiniteSet(({a, b} \cup {c, d}) \cup {e, e})
    BY <1>1, <2>1, FS_Union
  <2>3. ({a, b} \cup {c, d}) \cup {e, e} = {a, b, c, d, e}
    OBVIOUS
  <2> QED
    BY <2>2, <2>3
<1>3. \A a, b, c, d, e, f, g, h, i, j : IsFiniteSet({a, b, c, d, e, f, g, h, i, j})
  <2> TAKE a, b, c, d, e, f, g, h, i, j
  <2>1. IsFiniteSet({a, b, c, d, e} \cup {f, g, h, i, j})
    BY <1>2, FS_Union
  <2>2. {a, b, c, d, e} \cup {f, g, h, i, j} = {a, b, c, d, e, f, g, h, i, j}
    OBVIOUS
  <2> QED
    BY <2>1, <2>2
<1>4. IsFiniteSet(PipelineStages)
  BY <1>3 DEF PipelineStages
<1>6. IsFiniteSet(DetailStages)
  BY <1>1 DEF DetailStages
<1> QED
  BY <1>4, <1>6, FS_Singleton, FS_Union DEF Stages

\* Every slice of the plan is one of a stage.
LEMMA PlannedIsOfStages ==
    ASSUME NEW run, RunTyped(run), ~PairingRefused(run.events)
    PROVE  /\ IsFiniteSet(Planned(run))
           /\ \A item \in Planned(run) :
                 \E s \in Stages : /\ item \in OfStage(Planned(run), s.track)
                                   /\ \E pair \in PairsOf(run, s) : Shows(item, s, pair)
<1> DEFINE tracks == {s.track : s \in Stages}
<1>1. \A item \in Planned(run) : \E s \in Stages : item.stage = s.track
  <2> DEFINE raw == pair_slices(run.events)
  <2> TAKE item \in Planned(run)
  <2>1. PICK s \in Stages : item \in OnLanes(OfStage(raw, s.track), Lanes(OfStage(raw, s.track)))
    BY DEF Planned, assign_concurrent_lanes
  <2>2. PICK it \in OfStage(raw, s.track) :
           item = [it EXCEPT !.spec.track = lane_track_key(StageKey(it.stage),
                                                            Lanes(OfStage(raw, s.track))[it])]
    BY <2>1 DEF OnLanes
  <2>3. it \in raw /\ it.stage = s.track
    BY DEF OfStage
  <2>4. \E u \in Stages : \E pair \in PairsOf(run, u) : it = PairedSlice(u, pair[1], pair[2])
    BY <2>3 DEF pair_slices, PairsOf
  <2>5. DOMAIN it = {"stage", "correlation", "start", "end", "spec"}
    BY <2>4 DEF PairedSlice
  <2>6. item.stage = s.track
    BY <2>2, <2>3, <2>5
  <2> QED
    BY <2>6
<1>2. \A item \in Planned(run) :
         \E s \in Stages : /\ item \in OfStage(Planned(run), s.track)
                           /\ \E pair \in PairsOf(run, s) : Shows(item, s, pair)
  <2> TAKE item \in Planned(run)
  <2>1. PICK s \in Stages : item.stage = s.track
    BY <1>1
  <2> DEFINE items == OfStage(Planned(run), s.track)
  <2>2. item \in items
    BY <2>1 DEF OfStage
  <2>3. PICK f \in Bijection(PairsOf(run, s), items) : \A pair \in PairsOf(run, s) : Shows(f[pair], s, pair)
    BY StageItems
  <2>4. \E pair \in PairsOf(run, s) : f[pair] = item
    BY <2>2, <2>3 DEF Bijection, Surjection
  <2> QED
    BY <2>2, <2>3, <2>4
<1>3. IsFiniteSet(Stages)
  BY StagesFinite
<1>4. IsFiniteSet(Planned(run))
  <2> DEFINE each == {OfStage(Planned(run), s.track) : s \in Stages}
             g == [s \in Stages |-> OfStage(Planned(run), s.track)]
  <2>1. each = {g[s] : s \in Stages}
    OBVIOUS
  <2>2. IsFiniteSet(each)
    <3> HIDE DEF each, g
    <3> QED
      BY <1>3, <2>1, ValuesAreFinite
  <2>3. \A S \in each : IsFiniteSet(S)
    <3> TAKE S \in each
    <3>1. PICK s \in Stages : S = OfStage(Planned(run), s.track)
      OBVIOUS
    <3> DEFINE dur == [item \in S |-> item.spec.dur]
    <3>2. \A item \in OfStage(Planned(run), s.track) : dur[item] = item.spec.dur
      BY <3>1
    <3> HIDE DEF dur
    <3> QED
      BY <3>1, <3>2, StageTime
  <2>4. Planned(run) = UNION each
    BY <1>2 DEF OfStage
  <2> HIDE DEF each
  <2> QED
    BY <2>2, <2>3, <2>4, FS_UNION
<1> QED
  BY <1>2, <1>4

\* The same number everywhere adds up to a product.
LEMMA SigmaConst ==
    ASSUME NEW g, NEW S, IsFiniteSet(S), NEW v \in Int, \A x \in S : g[x] = v
    PROVE  Sigma(g, S) = Cardinality(S) * v /\ Summable(g, S)
<1> DEFINE F == {T \in SUBSET S : Sigma(g, T) = Cardinality(T) * v}
<1>1. {} \in F
  BY SigmaEmpty, FS_EmptySet
<1>2. ASSUME NEW T \in SUBSET S, NEW x \in S \ T, T \in F
      PROVE  T \cup {x} \in F
  <2>1. IsFiniteSet(T) /\ Cardinality(T) \in Nat /\ Cardinality(T \cup {x}) = Cardinality(T) + 1
    BY FS_Subset, FS_CardinalityType, FS_AddElement
  <2>2. Summable(g, T \cup {x})
    BY <2>1, FS_AddElement DEF Summable
  <2>3. Sigma(g, T \cup {x}) = Sigma(g, T) + v
    BY <2>2, SigmaAdd
  <2>4. (Cardinality(T) + 1) * v = Cardinality(T) * v + v
    BY <2>1
  <2> QED
    BY <1>2, <2>1, <2>3, <2>4
<1>3. SUBSET S \subseteq F
  <2> HIDE DEF F
  <2> QED
    BY <1>1, <1>2, SetInduction
<1> QED
  BY <1>3 DEF Summable

\* The rows of a stage count its slices and add up how long they last.
LEMMA RowsOfStage ==
    ASSUME NEW run, RunTyped(run), ~PairingRefused(run.events), NEW stem \in PairedStems
    PROVE  LET planned == PlannedRows(Planned(run))
               items == OfStage(Planned(run), TrackOfStem(stem))
           IN  /\ CountOfRows(planned, stem) = Cardinality(items)
               /\ DurationOf(planned, stem)
                    = MarkerTime(run.events, LastMarker(stem)) - MarkerTime(run.events, FirstMarker(stem))
               /\ MarkerTime(run.events, LastMarker(stem)) \in Int
               /\ MarkerTime(run.events, FirstMarker(stem)) \in Int
<1> DEFINE paired0 == Planned(run)
           planned == PlannedRows(paired0)
           track == TrackOfStem(stem)
           items == OfStage(paired0, track)
           R == RowsOfStem(planned, stem)
           dur == [item \in items |-> item.spec.dur]
           one == [item \in items |-> 1]
           row == [item \in items |-> RowOf(item)]
           times == [r \in R |-> planned[r] * r[4]]
           counts == [r \in R |-> planned[r]]
<1>1. PICK s \in Stages : /\ s.track = track
                          /\ s.first = FirstMarker(stem) /\ s.last = LastMarker(stem)
  BY StageOfStem
<1>2. /\ IsFiniteSet(items) /\ Summable(dur, items)
      /\ Sigma(dur, items) = MarkerTime(run.events, s.last) - MarkerTime(run.events, s.first)
      /\ MarkerTime(run.events, s.last) \in Int /\ MarkerTime(run.events, s.first) \in Int
  <2>1. \A item \in OfStage(Planned(run), s.track) : dur[item] = item.spec.dur
    BY <1>1
  <2> HIDE DEF dur
  <2> QED
    BY <1>1, <2>1, StageTime
<1>3. \A item \in paired0 : RowOf(item)[1] = item.stage
  <2> TAKE item \in paired0
  <2>1. \E t \in Stages : \E pair \in PairsOf(run, t) : Shows(item, t, pair)
    BY PlannedIsOfStages
  <2> QED
    BY <2>1 DEF Shows, RowOf
<1>4. DOMAIN planned = {RowOf(item) : item \in paired0}
      /\ \A r \in DOMAIN planned : planned[r] = Cardinality({item \in paired0 : RowOf(item) = r})
  BY DEF PlannedRows
<1>5. R = {RowOf(item) : item \in items}
  <2>1. R = {r \in DOMAIN planned : r[1] = track}
    BY DEF RowsOfStem
  <2> HIDE DEF R, planned
  <2> QED
    BY <1>3, <1>4, <2>1 DEF OfStage
<1>6. \A r \in R : {item \in items : row[item] = r} = {item \in paired0 : RowOf(item) = r}
  <2> TAKE r \in R
  <2>1. r[1] = track
    BY DEF RowsOfStem
  <2> QED
    BY <1>3, <2>1 DEF OfStage
<1>7. \A r \in R : planned[r] = Cardinality({item \in items : row[item] = r})
  <2>1. R \subseteq DOMAIN planned
    BY DEF RowsOfStem
  <2> HIDE DEF R, planned, row
  <2> QED
    BY <1>4, <1>6, <2>1
<1>8. row \in [items -> R] /\ IsFiniteSet(R)
  <2>1. R = {row[item] : item \in items}
    BY <1>5
  <2>2. row \in [items -> R]
    BY <1>5
  <2> HIDE DEF R, row, items
  <2> QED
    BY <1>2, <2>1, <2>2, ValuesAreFinite
<1>9. \A item \in items : dur[item] = row[item][4] /\ dur[item] \in Int
  BY <1>2 DEF RowOf, Summable
<1>10. DOMAIN times = R /\ DOMAIN counts = R
  OBVIOUS
<1>11. DurationOf(planned, stem) = SumFunction(times) /\ CountOfRows(planned, stem) = SumFunction(counts)
  BY DEF DurationOf, CountOfRows
<1>12. \A item \in items : one[item] = 1
  OBVIOUS
<1>13. \A r \in R : times[r] = planned[r] * r[4] /\ counts[r] = planned[r]
  OBVIOUS
<1> HIDE DEF items, R, row, planned, dur, one, times, counts
<1>14. \A r \in R : \E item \in items : row[item] = r
  BY <1>5 DEF row
<1> DEFINE fib(r) == {item \in items : row[item] = r}
           durs == [r \in R |-> Sigma(dur, fib(r))]
           ones == [r \in R |-> Sigma(one, fib(r))]
<1>15. \A r \in R : /\ durs[r] = times[r] /\ durs[r] \in Int
                    /\ ones[r] = counts[r] /\ ones[r] \in Int
  <2> TAKE r \in R
  <2>1. IsFiniteSet(fib(r))
    BY <1>2, FS_Subset
  <2>2. r[4] \in Int /\ \A item \in fib(r) : dur[item] = r[4]
    BY <1>9, <1>14
  <2>3. Cardinality(fib(r)) \in Nat /\ planned[r] = Cardinality(fib(r))
    BY <1>7, <2>1, FS_CardinalityType
  <2>6. \A item \in fib(r) : one[item] = 1
    BY <1>12
  <2> HIDE DEF fib
  <2>4. Sigma(dur, fib(r)) = Cardinality(fib(r)) * r[4]
    BY <2>1, <2>2, SigmaConst
  <2>5. Sigma(one, fib(r)) = Cardinality(fib(r)) * 1
    BY <2>1, <2>6, SigmaConst
  <2> QED
    BY <1>13, <2>2, <2>3, <2>4, <2>5
<1>16. Sigma(dur, items) = Sigma(durs, R)
  BY <1>2, <1>8, SigmaFibers
<1>17. Sigma(one, items) = Sigma(ones, R) /\ Sigma(one, items) = Cardinality(items) * 1
  <2>1. Sigma(one, items) = Cardinality(items) * 1 /\ Summable(one, items)
    BY <1>2, <1>12, SigmaConst
  <2> QED
    BY <1>8, <2>1, SigmaFibers
<1> HIDE DEF durs, ones
<1>18. /\ Summable(durs, R) /\ Summable(ones, R) /\ Summable(times, R) /\ Summable(counts, R)
  BY <1>8, <1>15 DEF Summable
<1>19. Sigma(durs, R) = Sigma(times, R) /\ Sigma(ones, R) = Sigma(counts, R)
  BY <1>15, <1>18, SigmaSame
<1>20. SumFunction(times) = Sigma(times, R) /\ SumFunction(counts) = Sigma(counts, R)
  BY <1>10, <1>18, SumIs
<1>21. Cardinality(items) * 1 = Cardinality(items)
  BY <1>2, FS_CardinalityType
<1>22. CountOfRows(planned, stem) = Cardinality(items)
  BY <1>11, <1>17, <1>19, <1>20, <1>21
<1>23. DurationOf(planned, stem) = MarkerTime(run.events, s.last) - MarkerTime(run.events, s.first)
  BY <1>2, <1>11, <1>16, <1>19, <1>20
<1> QED
  BY <1>1, <1>2, <1>22, <1>23 DEF planned, items

------------------------------------------------------------------------------
(* What a run that was loaded and planned has: the markers of the contract,      *)
(* and pairs of them.                                                           *)

Accepted(run) ==
    /\ RunTyped(run) /\ Correlations(run) # {} /\ None \notin Correlations(run)
    /\ J!ValidateMarkerGroups(run.lines).status = "valid"
    /\ ~PairingRefused(run.events)
    /\ ~DecodeDetailsRefused(Planned(run)) /\ ~FlowsRefused(Planned(run))

\* The rows the contract is about, and those of a request.
ContractRows(run) == J!Kept(run.lines, {i \in DOMAIN run.lines : run.lines[i].name \in J!ContractMarkers})
RequestRows(run, c) ==
    J!Kept(ContractRows(run), {i \in DOMAIN ContractRows(run) : ContractRows(run)[i].correlation = c})

\* The markers a latency is made of are among those of the contract.
LEMMA CanonicalNames ==
    /\ CanonicalMarkers \subseteq J!MarkerNames /\ J!MarkerNames \subseteq J!ContractMarkers
    /\ J!IterationNames = {"decode_step_start", "decode_step_end", "sampling_start", "sampling_end"}
    /\ J!IterationNames \subseteq J!MarkerNames
<1>1. J!MarkerNames =
        {"request_received", "prefill_start", "prefill_end", "kv_export_start",
         "kv_export_end", "kv_transfer_start", "kv_transfer_end", "kv_transform_start",
         "kv_transform_end", "decode_loop_start", "decode_step_start", "decode_step_end",
         "sampling_start", "sampling_end", "decode_loop_end", "response_done"}
  BY DEF J!MarkerNames, J!MARKER_ORDER
<1>2. J!IterationNames = {"decode_step_start", "decode_step_end", "sampling_start", "sampling_end"}
  BY DEF J!IterationNames, J!ITERATION_MARKERS
<1>3. CanonicalMarkers \subseteq J!MarkerNames
  BY <1>1 DEF CanonicalMarkers, PairedStems, DerivedStems, FirstMarker, LastMarker, Pairings
<1> QED
  BY <1>1, <1>2, <1>3 DEF J!ContractMarkers

\* The rows of a request are its events that the contract is about.
LEMMA RequestRowsAre ==
    ASSUME NEW run, RunTyped(run), NEW c
    PROVE  /\ DOMAIN RequestRows(run, c) \subseteq DOMAIN run.lines
           /\ \A i \in DOMAIN RequestRows(run, c) :
                 /\ RequestRows(run, c)[i] \in run.events
                 /\ RequestRows(run, c)[i].correlation = c
                 /\ RequestRows(run, c)[i].name \in J!ContractMarkers
           /\ \A e \in run.events : e.correlation = c /\ e.name \in J!ContractMarkers =>
                 \E i \in DOMAIN RequestRows(run, c) : RequestRows(run, c)[i] = e
<1>1. run.events = {run.lines[i] : i \in DOMAIN run.lines}
  BY DEF RunTyped
<1>2. /\ DOMAIN ContractRows(run) = {i \in DOMAIN run.lines : run.lines[i].name \in J!ContractMarkers}
      /\ \A i \in DOMAIN ContractRows(run) : ContractRows(run)[i] = run.lines[i]
  BY DEF ContractRows, J!Kept
<1>3. /\ DOMAIN RequestRows(run, c) = {i \in DOMAIN ContractRows(run) : ContractRows(run)[i].correlation = c}
      /\ \A i \in DOMAIN RequestRows(run, c) : RequestRows(run, c)[i] = ContractRows(run)[i]
  BY DEF RequestRows, J!Kept
<1> QED
  BY <1>1, <1>2, <1>3

\* The verdict on a run is the verdict on each of its requests.
LEMMA RequestsAreValid ==
    ASSUME NEW run, Accepted(run)
    PROVE  /\ \A c \in Correlations(run) :
                 LET verdict == J!ValidateMarkerOrder(RequestRows(run, c))
                 IN  verdict.missing = {} /\ verdict.pairing = {} /\ verdict.ordering = {}
           /\ \A e \in run.events : e.name \in J!ContractMarkers => e.correlation # None
<1> DEFINE rows == ContractRows(run)
           ids == {rows[i].correlation : i \in DOMAIN rows} \ {None}
           loose == {i \in DOMAIN rows : rows[i].correlation = None}
           verdicts == [id \in ids |-> J!ValidateMarkerOrder(RequestRows(run, id))]
<1>1. RunTyped(run) /\ J!ValidateMarkerGroups(run.lines).status = "valid" /\ None \notin Correlations(run)
  BY DEF Accepted
<1>2. /\ DOMAIN rows = {i \in DOMAIN run.lines : run.lines[i].name \in J!ContractMarkers}
      /\ \A i \in DOMAIN rows : rows[i] = run.lines[i]
      /\ run.events = {run.lines[i] : i \in DOMAIN run.lines}
  BY <1>1 DEF ContractRows, J!Kept, RunTyped
<1>3. Correlations(run) \subseteq ids
  <2> SUFFICES ASSUME NEW c \in Correlations(run) PROVE c \in ids
    OBVIOUS
  <2>1. PICK e \in run.events : e.name \in CanonicalMarkers /\ e.correlation = c
    BY DEF Correlations, Markers
  <2>2. e.name \in J!ContractMarkers
    BY <2>1, CanonicalNames
  <2>3. PICK i \in DOMAIN rows : rows[i] = e
    BY <1>2, <2>2
  <2> QED
    BY <1>1, <2>1, <2>3
<1>4. ids # {}
  BY <1>3 DEF Accepted
<1>5. J!ValidateMarkerGroups(run.lines) = J!MergedVerdicts(verdicts, loose)
  BY <1>4 DEF J!ValidateMarkerGroups, ContractRows, RequestRows
<1> HIDE DEF rows, ids, loose, verdicts
<1>6. J!MergedVerdicts(verdicts, loose).status = "valid"
  BY <1>1, <1>5
<1>7. /\ J!ItemsOf(verdicts, "missing") = {}
      /\ J!ItemsOf(verdicts, "pairing") \cup {<<None, "uncorrelated">> : i \in loose} = {}
      /\ UNION {verdicts[id].ordering : id \in DOMAIN verdicts} = {}
  BY <1>6 DEF J!MergedVerdicts, J!Verdict, J!MarkerStatus
<1>8. loose = {}
  BY <1>7
<1>9. \A id \in DOMAIN verdicts : verdicts[id].missing = {} /\ verdicts[id].pairing = {}
  <2> SUFFICES ASSUME NEW id \in DOMAIN verdicts
               PROVE  verdicts[id].missing = {} /\ verdicts[id].pairing = {}
    OBVIOUS
  <2>1. \A item \in verdicts[id].missing : <<id, item>> \in J!ItemsOf(verdicts, "missing")
    BY DEF J!ItemsOf
  <2>2. \A item \in verdicts[id].pairing : <<id, item>> \in J!ItemsOf(verdicts, "pairing")
    BY DEF J!ItemsOf
  <2> QED
    BY <1>7, <2>1, <2>2
<1>10. \A id \in DOMAIN verdicts :
          verdicts[id].missing = {} /\ verdicts[id].pairing = {} /\ verdicts[id].ordering = {}
  <2>1. \A id \in DOMAIN verdicts : verdicts[id].missing = {} /\ verdicts[id].pairing = {}
    BY <1>9
  <2>2. \A id \in DOMAIN verdicts : verdicts[id].ordering = {}
    BY <1>7
  <2> QED
    BY <2>1, <2>2
<1>11. \A c \in Correlations(run) :
          LET verdict == J!ValidateMarkerOrder(RequestRows(run, c))
          IN  verdict.missing = {} /\ verdict.pairing = {} /\ verdict.ordering = {}
  BY <1>3, <1>10 DEF verdicts
<1>12. \A e \in run.events : e.name \in J!ContractMarkers => e.correlation # None
  BY <1>2, <1>8 DEF loose
<1> QED
  BY <1>11, <1>12

\* What a verdict without issues says of the rows it is about.
LEMMA VerdictSays ==
    ASSUME NEW rows,
           J!ValidateMarkerOrder(rows).missing = {}, J!ValidateMarkerOrder(rows).pairing = {},
           J!ValidateMarkerOrder(rows).ordering = {}
    PROVE  /\ \A name \in J!MarkerNames : J!Places(rows, name) # {}
           /\ J!IterationPairing(rows) = {} /\ J!IterationIssues(rows) = {}
<1>1. \A name \in J!MarkerNames : J!Places(rows, name) # {}
  BY DEF J!ValidateMarkerOrder, J!Verdict
<1>2. J!HasIterations(rows)
  BY <1>1, CanonicalNames DEF J!HasIterations
<1> DEFINE repeats == {J!RepeatIssues(rows, name) : name \in J!MarkerNames}
           some == IF J!HasObservability(rows)
                     THEN {J!PairedByTransfer(rows, stage0) : stage0 \in J!PairsToCheck(rows)} ELSE {}
<1>3. J!ValidateMarkerOrder(rows).pairing =
        (UNION {x.pairing : x \in repeats \cup some})
           \cup J!IterationPairing(rows)
           \cup (IF J!HasObservability(rows)
                   THEN J!MissingCapabilities(rows) \cup J!WaitPairing(rows) ELSE {})
  BY <1>2 DEF J!ValidateMarkerOrder, J!Verdict
<1>4. J!ValidateMarkerOrder(rows).ordering =
        J!RepresentativeIssues(rows) \cup J!ResponseIssues(rows)
           \cup (UNION {p.ordering : p \in some})
           \cup J!IterationIssues(rows)
           \cup (IF J!HasObservability(rows) THEN J!WaitIssues(rows) ELSE {})
  BY <1>2 DEF J!ValidateMarkerOrder, J!Verdict
<1> HIDE DEF repeats, some
<1>5. J!IterationPairing(rows) = {} /\ J!IterationIssues(rows) = {}
  BY <1>3, <1>4
<1> QED
  BY <1>1, <1>5

\* The steps of the decoding are a stage of the plan as well.
LEMMA DecodeStage ==
    \E s \in Stages : /\ s.track = "npu_decode_step" /\ s.discriminator = "step"
                      /\ s.first = "decode_step_start" /\ s.last = "decode_step_end"
<1> DEFINE s == Bracketed("npu_decode_step", "decode_step_start", "decode_step_end", "decode", "step", 0)
<1>1. s \in Stages
  BY DEF Stages, PipelineStages, DetailStages
<1>2. /\ s.track = "npu_decode_step" /\ s.discriminator = "step"
      /\ s.first = "decode_step_start" /\ s.last = "decode_step_end"
  BY DEF Stage, Bracketed
<1> HIDE DEF s
<1> QED
  BY <1>1, <1>2

\* Every request has a marker of every name of the contract.
LEMMA MarkersPresent ==
    ASSUME NEW run, Accepted(run), NEW c \in Correlations(run), NEW name \in J!MarkerNames
    PROVE  Own(run, name, c) # {}
<1>1. J!Places(RequestRows(run, c), name) # {}
  BY RequestsAreValid, VerdictSays
<1>2. PICK i \in DOMAIN RequestRows(run, c) : RequestRows(run, c)[i].name = name
  BY <1>1 DEF J!Places
<1>3. RequestRows(run, c)[i] \in run.events /\ RequestRows(run, c)[i].correlation = c
  BY RequestRowsAre DEF Accepted
<1> QED
  BY <1>2, <1>3 DEF Own, Named

\* What the key of a request's marker is.
LEMMA KeyOfRequest ==
    ASSUME NEW s, NEW e, e.correlation # None
    PROVE  pair_key(s, e) = <<e.correlation, CASE s.discriminator = "step" -> e.step
                                               [] s.discriminator = "transfer" -> e.transfer
                                               [] OTHER -> 0>>
BY DEF pair_key, correlation_of

\* The steps that the markers of a name count.
StepsOfName(run, name, c) == {e.step : e \in Own(run, name, c)}

\* The rows that were checked count the same steps as the events.
LEMMA StepsOfRows ==
    ASSUME NEW run, RunTyped(run), NEW c, NEW name \in J!MarkerNames
    PROVE  J!Steps(RequestRows(run, c), name) = StepsOfName(run, name, c)
<1>1. name \in J!ContractMarkers
  BY CanonicalNames
<1>2. /\ \A i \in DOMAIN RequestRows(run, c) :
            RequestRows(run, c)[i] \in run.events /\ RequestRows(run, c)[i].correlation = c
      /\ \A e \in run.events : e.correlation = c /\ e.name = name =>
            \E i \in DOMAIN RequestRows(run, c) : RequestRows(run, c)[i] = e
  BY <1>1, RequestRowsAre
<1> QED
  BY <1>2 DEF J!Steps, J!Places, StepsOfName, Own, Named

\* The markers of an iteration all have their step.
LEMMA StepsKnown ==
    ASSUME NEW run, Accepted(run), NEW c \in Correlations(run), NEW name \in J!IterationNames
    PROVE  /\ StepsOfName(run, name, c) \subseteq Nat
           /\ None \notin StepsOfName(run, name, c)
           /\ \A a, b \in Own(run, name, c) : a.step = b.step => a = b
<1>1. RunTyped(run) /\ ~PairingRefused(run.events) /\ c # None
  BY DEF Accepted
<1>2. PICK s \in Stages : s.discriminator = "step" /\ name \in {s.first, s.last}
  <2>1. "sampling" \in PairedStems /\ FirstMarker("sampling") = "sampling_start"
        /\ LastMarker("sampling") = "sampling_end"
    BY DEF PairedStems, FirstMarker, LastMarker, Pairings
  <2> QED
    BY <2>1, StageOfStem, DecodeStage, CanonicalNames
<1> DEFINE starts == Named(run.events, s.first)
           ends == Named(run.events, s.last)
<1>3. /\ \A e \in starts \cup ends : pair_key(s, e)[2] # None
      /\ \A a, b \in starts : pair_key(s, a) = pair_key(s, b) => a = b
      /\ \A a, b \in ends : pair_key(s, a) = pair_key(s, b) => a = b
  BY <1>1, StagePairs
<1>4. \A e \in Own(run, name, c) : /\ e \in run.events /\ e.correlation = c /\ pair_key(s, e) = <<c, e.step>>
                                   /\ name = s.first => e \in starts
                                   /\ name = s.last => e \in ends
  BY <1>1, <1>2, KeyOfRequest DEF Own, Named
<1> HIDE DEF starts, ends
<1>5. \A e \in Own(run, name, c) : e.step # None
  BY <1>2, <1>3, <1>4
<1>6. \A e \in Own(run, name, c) : e.step \in Nat
  BY <1>1, <1>4, <1>5 DEF RunTyped
<1>7. \A a, b \in Own(run, name, c) : a.step = b.step => a = b
  BY <1>2, <1>3, <1>4
<1> QED
  BY <1>5, <1>6, <1>7 DEF StepsOfName

\* The markers of the iterations of a request all count the same steps, from zero.
LEMMA StepsAgree ==
    ASSUME NEW run, Accepted(run), NEW c \in Correlations(run)
    PROVE  LET steps == StepsOfName(run, "sampling_start", c)
           IN  /\ \A name \in J!IterationNames : StepsOfName(run, name, c) = steps
               /\ steps # {} /\ IsFiniteSet(steps) /\ steps \subseteq Nat
               /\ \A k \in steps : \A j \in 0..k : j \in steps
<1> DEFINE rows == RequestRows(run, c)
           steps == StepsOfName(run, "sampling_start", c)
<1>1. RunTyped(run) /\ ~PairingRefused(run.events) /\ c # None /\ ~DecodeDetailsRefused(Planned(run))
  BY DEF Accepted
<1>2. J!IterationPairing(rows) = {}
  BY RequestsAreValid, VerdictSays
<1>3. \A name \in J!IterationNames : J!Steps(rows, name) \ {None} = J!Steps(rows, "decode_step_start") \ {None}
  BY <1>2 DEF J!IterationPairing
<1>4. \A name \in J!IterationNames : J!Steps(rows, name) = StepsOfName(run, name, c)
                                     /\ None \notin StepsOfName(run, name, c)
  BY <1>1, StepsOfRows, StepsKnown, CanonicalNames
<1>5. \A name \in J!IterationNames : StepsOfName(run, name, c) = steps
  <2>1. "decode_step_start" \in J!IterationNames /\ "sampling_start" \in J!IterationNames
    BY CanonicalNames
  <2> QED
    BY <1>3, <1>4, <2>1
<1>6. steps # {} /\ IsFiniteSet(steps) /\ steps \subseteq Nat
  <2>1. "sampling_start" \in J!IterationNames /\ "sampling_start" \in J!MarkerNames
    BY CanonicalNames
  <2>2. Own(run, "sampling_start", c) # {} /\ IsFiniteSet(Own(run, "sampling_start", c))
    BY <1>1, <2>1, MarkersPresent, OwnTyped DEF Summable
  <2> DEFINE S == Own(run, "sampling_start", c)
             f == [e \in S |-> e.step]
  <2>3. steps = {f[e] : e \in S}
    BY DEF StepsOfName
  <2>4. IsFiniteSet({f[e] : e \in S})
    <3> HIDE DEF S, f
    <3> QED
      BY <2>2, ValuesAreFinite DEF S
  <2>5. steps \subseteq Nat
    BY <2>1, StepsKnown
  <2>6. steps # {}
    BY <2>2 DEF StepsOfName
  <2>7. IsFiniteSet(steps)
    BY <2>3, <2>4
  <2> QED
    BY <2>5, <2>6, <2>7
<1>7. ASSUME NEW k \in steps, NEW j \in 0..k
      PROVE  j \in steps
  <2>1. PICK s \in Stages : /\ s.track = "npu_decode_step" /\ s.discriminator = "step"
                            /\ s.first = "decode_step_start" /\ s.last = "decode_step_end"
    BY DecodeStage
  <2>2. "decode_step_start" \in J!IterationNames
    BY CanonicalNames
  <2>3. PICK e \in Own(run, "decode_step_start", c) : e.step = k
    BY <1>5, <2>2 DEF StepsOfName
  <2>4. e \in Named(run.events, s.first) /\ e.correlation = c
    BY <2>1, <2>3 DEF Own
  <2>5. PICK x \in PairsOf(run, s) : x[1] = e
    BY <1>1, <2>4, EndsOfPairs
  <2> DEFINE items == OfStage(Planned(run), s.track)
  <2>6. PICK f \in Bijection(PairsOf(run, s), items) : \A pair \in PairsOf(run, s) : Shows(f[pair], s, pair)
    BY StageItems
  <2>7. f[x] \in items /\ f[x].start = e /\ f[x].correlation = c
    BY <1>1, <2>4, <2>5, <2>6 DEF Bijection, Surjection, Shows, correlation_of
  <2>8. PICK other \in items : other.correlation = c /\ other.start.step = j
    BY <1>1, <2>1, <2>3, <2>7 DEF DecodeDetailsRefused
  <2>9. PICK y \in PairsOf(run, s) : f[y] = other
    BY <2>6 DEF Bijection, Surjection
  <2>10. other.start = y[1] /\ other.correlation = correlation_of(y[1])
    BY <2>6, <2>9 DEF Shows
  <2>11. y[1] \in Named(run.events, s.first)
    BY <1>1, EndsOfPairs
  <2>12. y[1].name = "decode_step_start" /\ y[1].name \in J!ContractMarkers /\ y[1] \in run.events
    BY <2>1, <2>11, <2>2, CanonicalNames DEF Named
  <2>13. y[1].correlation # None
    BY <2>12, RequestsAreValid
  <2>14. y[1] \in Own(run, "decode_step_start", c)
    BY <2>8, <2>10, <2>12, <2>13 DEF Own, Named, correlation_of
  <2>15. j \in StepsOfName(run, "decode_step_start", c)
    BY <2>8, <2>10, <2>14 DEF StepsOfName
  <2> QED
    BY <1>5, <2>2, <2>15
<1> QED
  BY <1>5, <1>6, <1>7

\* The row that stands for a step is the request's marker of that step.
LEMMA StepRow ==
    ASSUME NEW run, RunTyped(run), NEW c, NEW name \in J!MarkerNames,
           NEW k \in StepsOfName(run, name, c)
    PROVE  /\ J!RowOfStep(RequestRows(run, c), name, k) \in Own(run, name, c)
           /\ J!RowOfStep(RequestRows(run, c), name, k).step = k
<1> DEFINE rows == RequestRows(run, c)
           places == {i \in J!Places(rows, name) : rows[i].step = k}
<1>1. name \in J!ContractMarkers
  BY CanonicalNames
<1>2. /\ DOMAIN rows \subseteq DOMAIN run.lines
      /\ \A i \in DOMAIN rows : rows[i] \in run.events /\ rows[i].correlation = c
      /\ \A e \in run.events : e.correlation = c /\ e.name = name => \E i \in DOMAIN rows : rows[i] = e
  BY <1>1, RequestRowsAre
<1>3. DOMAIN run.lines \subseteq Nat /\ IsFiniteSet(DOMAIN run.lines)
  BY DEF RunTyped
<1> HIDE DEF rows
<1>4. PICK e \in Own(run, name, c) : e.step = k
  BY DEF StepsOfName
<1>5. places # {}
  <2>1. e \in run.events /\ e.correlation = c /\ e.name = name
    BY <1>4 DEF Own, Named
  <2>2. PICK i \in DOMAIN rows : rows[i] = e
    BY <1>2, <2>1
  <2>3. i \in places
    BY <1>4, <2>1, <2>2 DEF J!Places
  <2> QED
    BY <2>3
<1>6. places \subseteq DOMAIN rows
  BY DEF J!Places
<1>7. IsFiniteSet(places) /\ places \subseteq Int
  BY <1>2, <1>3, <1>6, FS_Subset
<1>8. \E i \in places : \A j \in places : i <= j
  BY <1>5, <1>7, HasLeast
<1>9. J!FirstPlace(places) \in places
  BY <1>8 DEF J!FirstPlace
<1>10. J!RowOfStep(rows, name, k) = rows[J!FirstPlace(places)]
  BY DEF J!RowOfStep
<1>11. \A i \in places : rows[i] \in Own(run, name, c) /\ rows[i].step = k
  BY <1>2 DEF J!Places, Own, Named
<1> QED
  BY <1>9, <1>10, <1>11 DEF rows

\* What it means that the iterations of some rows have no issue.
WholeSteps(rows) ==
    {k \in J!Steps(rows, "decode_step_start") \ {None} :
       \A name \in J!IterationNames : k \in J!Steps(rows, name) \ {None}}

\* Each such step starts before it has its logits, samples and ends, and ends before
\* the next one starts.
LEMMA IterationsInOrder ==
    ASSUME NEW rows, J!IterationIssues(rows) = {}
    PROVE  /\ \A k \in WholeSteps(rows) : \A m \in 1..3 :
                 J!OrderingIssue(J!RowOfStep(rows, J!ITERATION_MARKERS[m], k),
                                 J!RowOfStep(rows, J!ITERATION_MARKERS[m + 1], k)) = {}
           /\ \A j, k \in WholeSteps(rows) :
                 j < k /\ (\A m \in WholeSteps(rows) : m < k => m <= j) =>
                    J!OrderingIssue(J!RowOfStep(rows, J!ITERATION_MARKERS[4], j),
                                    J!RowOfStep(rows, J!ITERATION_MARKERS[1], k)) = {}
<1> DEFINE whole == WholeSteps(rows)
           at(k, m) == J!RowOfStep(rows, J!ITERATION_MARKERS[m], k)
           previous(k) == {j \in whole : j < k /\ \A m \in whole : m < k => m <= j}
           inside == {J!OrderingIssue(at(k, m), at(k, m + 1)) : k \in whole, m \in 1..3}
           across == UNION {{J!OrderingIssue(at(j, 4), at(k, 1)) : j \in previous(k)} : k \in whole}
           only(name) == IF J!Cardinality(J!Places(rows, name)) = 1
                           THEN {rows[J!FirstPlace(J!Places(rows, name))]} ELSE {}
           first == {J!OrderingIssue(row, at(k, 1)) : k \in whole, row \in only("decode_loop_start")}
           last == {J!OrderingIssue(at(k, 4), row) : k \in whole, row \in only("decode_loop_end")}
<1>1. J!IterationIssues(rows) = UNION (inside \cup across \cup first \cup last)
  BY DEF J!IterationIssues, WholeSteps
<1>2. (UNION inside) = {} /\ (UNION across) = {}
  <2> HIDE DEF inside, across, first, last
  <2> QED
    BY <1>1
<1>3. \A k \in whole : \A m \in 1..3 : J!OrderingIssue(at(k, m), at(k, m + 1)) = {}
  <2> HIDE DEF whole, at
  <2>1. \A k \in whole : \A m \in 1..3 : J!OrderingIssue(at(k, m), at(k, m + 1)) \in inside
    OBVIOUS
  <2> HIDE DEF inside
  <2> QED
    BY <1>2, <2>1
<1>4. \A j, k \in whole : j \in previous(k) => J!OrderingIssue(at(j, 4), at(k, 1)) = {}
  <2> HIDE DEF whole, at, previous
  <2>1. \A j, k \in whole : j \in previous(k) => J!OrderingIssue(at(j, 4), at(k, 1)) \in across
    OBVIOUS
  <2> HIDE DEF across
  <2> QED
    BY <1>2, <2>1
<1> QED
  BY <1>3, <1>4

\* A token is sampled before the next one is.
LEMMA StepOrder ==
    ASSUME NEW run, Accepted(run), NEW c \in Correlations(run),
           NEW a \in Own(run, "sampling_end", c), NEW b \in Own(run, "sampling_start", c),
           b.step = a.step + 1
    PROVE  a.ts <= b.ts
<1> DEFINE rows == RequestRows(run, c)
           steps == StepsOfName(run, "sampling_start", c)
           j == a.step
           k == b.step
<1>1. RunTyped(run)
  BY DEF Accepted
<1>2. /\ \A name \in J!IterationNames : StepsOfName(run, name, c) = steps
      /\ steps \subseteq Nat
  BY StepsAgree
<1>3. \A name \in J!IterationNames : J!Steps(rows, name) = steps /\ name \in J!MarkerNames
                                     /\ None \notin steps
  BY <1>1, <1>2, StepsOfRows, StepsKnown, CanonicalNames
<1>4. J!ITERATION_MARKERS[1] = "decode_step_start" /\ J!ITERATION_MARKERS[2] = "decode_step_end"
      /\ J!ITERATION_MARKERS[3] = "sampling_start" /\ J!ITERATION_MARKERS[4] = "sampling_end"
  BY DEF J!ITERATION_MARKERS
<1>5. "decode_step_start" \in J!IterationNames /\ "decode_step_end" \in J!IterationNames
      /\ "sampling_start" \in J!IterationNames /\ "sampling_end" \in J!IterationNames
  BY CanonicalNames
<1> HIDE DEF rows
<1>6. WholeSteps(rows) = steps
  BY <1>3, <1>5 DEF WholeSteps
<1>7. j \in steps /\ k \in steps /\ j \in Nat /\ k = j + 1
  BY <1>2, <1>5 DEF StepsOfName
<1> DEFINE at(n, m) == J!RowOfStep(rows, J!ITERATION_MARKERS[m], n)
<1>8. \A n \in steps : \A m \in {1, 2, 3, 4} :
         at(n, m) \in Own(run, J!ITERATION_MARKERS[m], c) /\ at(n, m).step = n
  <2> TAKE n \in steps
  <2> TAKE m \in {1, 2, 3, 4}
  <2> DEFINE name == J!ITERATION_MARKERS[m]
  <2>1. name \in J!IterationNames
    BY <1>4, <1>5
  <2>2. name \in J!MarkerNames /\ n \in StepsOfName(run, name, c)
    BY <1>2, <1>3, <2>1
  <2> HIDE DEF name
  <2>3. /\ J!RowOfStep(RequestRows(run, c), name, n) \in Own(run, name, c)
        /\ J!RowOfStep(RequestRows(run, c), name, n).step = n
    BY <1>1, <2>2, StepRow
  <2> QED
    BY <2>3 DEF name, rows
<1>9. J!IterationIssues(rows) = {}
  BY RequestsAreValid, VerdictSays DEF rows
<1>10. /\ \A n \in WholeSteps(rows) : \A m \in 1..3 : J!OrderingIssue(at(n, m), at(n, m + 1)) = {}
       /\ \A i, n \in WholeSteps(rows) : i < n /\ (\A m \in WholeSteps(rows) : m < n => m <= i) =>
             J!OrderingIssue(at(i, 4), at(n, 1)) = {}
  BY <1>9, IterationsInOrder
<1>11. J!OrderingIssue(at(k, 1), at(k, 2)) = {} /\ J!OrderingIssue(at(k, 2), at(k, 3)) = {}
  <2>1. J!OrderingIssue(at(k, 1), at(k, 1 + 1)) = {} /\ J!OrderingIssue(at(k, 2), at(k, 2 + 1)) = {}
    BY <1>6, <1>7, <1>10
  <2> QED
    BY <2>1
<1>12. J!OrderingIssue(at(j, 4), at(k, 1)) = {}
  <2>1. j < k /\ \A m \in WholeSteps(rows) : m < k => m <= j
    BY <1>2, <1>6, <1>7
  <2> QED
    BY <1>6, <1>7, <1>10, <2>1
<1>13. \A x, y : J!OrderingIssue(x, y) = {} => y.ts >= x.ts
  BY DEF J!OrderingIssue
<1>14. at(k, 3) = b /\ at(j, 4) = a
  <2>1. at(k, 3) \in Own(run, "sampling_start", c) /\ at(k, 3).step = k
        /\ at(j, 4) \in Own(run, "sampling_end", c) /\ at(j, 4).step = j
    BY <1>4, <1>7, <1>8
  <2> QED
    BY <1>5, <2>1, StepsKnown
<1>15. \A m \in {1, 2, 3, 4} : at(k, m).ts \in Int /\ at(j, m).ts \in Int
  BY <1>1, <1>7, <1>8 DEF Own, Named, RunTyped
<1> HIDE DEF at
<1>16. /\ at(k, 1).ts >= at(j, 4).ts /\ at(k, 2).ts >= at(k, 1).ts /\ at(k, 3).ts >= at(k, 2).ts
  BY <1>11, <1>12, <1>13
<1> QED
  BY <1>14, <1>15, <1>16

\* A request has one transfer in the plan.
LEMMA OneTransfer ==
    ASSUME NEW run, Accepted(run), NEW s \in Stages, s.track = "kv_transfer",
           NEW x \in PairsOf(run, s), NEW y \in PairsOf(run, s),
           correlation_of(x[1]) = correlation_of(y[1])
    PROVE  x = y
<1> DEFINE c == correlation_of(x[1])
           mine == {item \in Planned(run) : item.correlation = c}
           moved == OfStage(mine, "kv_transfer")
           items == OfStage(Planned(run), s.track)
<1>1. RunTyped(run) /\ ~PairingRefused(run.events) /\ ~FlowsRefused(Planned(run))
  BY DEF Accepted
<1>2. PICK f \in Bijection(PairsOf(run, s), items) : \A pair \in PairsOf(run, s) : Shows(f[pair], s, pair)
  BY StageItems
<1>3. f[x] \in items /\ f[y] \in items /\ (f[x] = f[y] => x = y)
  BY <1>2 DEF Bijection, Surjection, Injection, IsInjective
<1>4. f[x].correlation = c /\ f[y].correlation = c
  BY <1>2 DEF Shows
<1>5. f[x] \in moved /\ f[y] \in moved /\ c \in {item.correlation : item \in Planned(run)}
  BY <1>3, <1>4 DEF OfStage
<1>6. "kv_transfer" \in FlowStages(mine)
  BY DEF FlowStages
<1>7. ~(Cardinality(moved) > 1)
  BY <1>1, <1>5, <1>6 DEF FlowsRefused
<1>8. IsFiniteSet(moved)
  <2>1. IsFiniteSet(Planned(run)) /\ moved \subseteq Planned(run)
    BY <1>1, PlannedIsOfStages DEF OfStage
  <2> QED
    BY <2>1, FS_Subset
<1> HIDE DEF moved
<1>9. Cardinality(moved) \in Nat /\ Cardinality(moved) # 0
  BY <1>5, <1>8, FS_CardinalityType, FS_EmptySet
<1>10. Cardinality(moved) = 1
  BY <1>7, <1>9
<1>11. f[x] = f[y]
  BY <1>5, <1>8, <1>10, FS_Singleton
<1> QED
  BY <1>3, <1>11

\* Each stage of a request has one start and one end, in order.
LEMMA PairIsWhole ==
    ASSUME NEW run, Accepted(run), NEW c \in Correlations(run), NEW stem \in DerivedStems
    PROVE  LET pair == Pair(MarkersOf(run, c), stem)
           IN  pair.reason = None /\ pair.start \in MarkersOf(run, c) /\ pair.end \in MarkersOf(run, c)
<1> DEFINE first == FirstMarker(stem)
           last == LastMarker(stem)
<1>1. RunTyped(run) /\ ~PairingRefused(run.events) /\ c # None
  BY DEF Accepted
<1>2. stem \in PairedStems /\ stem # "sampling"
  BY DEF PairedStems, DerivedStems
<1>3. PICK s \in Stages : /\ s.track = TrackOfStem(stem) /\ s.first = first /\ s.last = last
                          /\ s.discriminator = IF stem = "kv_transfer" THEN "transfer" ELSE "request"
  BY <1>2, StageOfStem
<1>4. Own(run, first, c) # {} /\ Own(run, last, c) # {}
  <2>1. first \in J!MarkerNames /\ last \in J!MarkerNames
    BY <1>2, CanonicalNames DEF CanonicalMarkers
  <2> QED
    BY <2>1, MarkersPresent
<1>5. PICK a \in Own(run, first, c) : TRUE
  BY <1>4
<1>6. PICK b \in Own(run, last, c) : TRUE
  BY <1>4
<1>7. /\ \A e \in Own(run, first, c) : e \in Named(run.events, s.first) /\ correlation_of(e) = c
      /\ \A e \in Own(run, last, c) : e \in Named(run.events, s.last) /\ correlation_of(e) = c
  BY <1>1, <1>3 DEF Own, correlation_of
<1>8. \A e : pair_key(s, e)[1] = correlation_of(e)
  BY DEF pair_key
<1>10. \A e \in Own(run, first, c) : e = a
  <2> TAKE e \in Own(run, first, c)
  <2>1. CASE stem # "kv_transfer"
    <3>1. \A d \in Own(run, first, c) : pair_key(s, d) = <<c, 0>>
      BY <1>3, <1>7, <2>1 DEF pair_key
    <3> QED
      BY <1>1, <1>7, <3>1, StagePairs
  <2>2. CASE stem = "kv_transfer"
    <3>1. s.track = "kv_transfer"
      BY <1>3, <2>2 DEF TrackOfStem
    <3>2. PICK x \in PairsOf(run, s) : x[1] = a
      BY <1>1, <1>7, EndsOfPairs
    <3>3. PICK y \in PairsOf(run, s) : y[1] = e
      BY <1>1, <1>7, EndsOfPairs
    <3> QED
      BY <1>7, <3>1, <3>2, <3>3, OneTransfer
  <2> QED
    BY <2>1, <2>2
<1>11. \A e \in Own(run, last, c) : e = b /\ pair_key(s, a) = pair_key(s, e)
  <2> TAKE e \in Own(run, last, c)
  <2>1. CASE stem # "kv_transfer"
    <3>1. \A d \in Own(run, first, c) \cup Own(run, last, c) : pair_key(s, d) = <<c, 0>>
      BY <1>3, <1>7, <2>1 DEF pair_key
    <3> QED
      BY <1>1, <1>7, <3>1, StagePairs
  <2>2. CASE stem = "kv_transfer"
    <3>1. s.track = "kv_transfer"
      BY <1>3, <2>2 DEF TrackOfStem
    <3>2. ASSUME NEW d \in Own(run, last, c)
          PROVE  \E x \in PairsOf(run, s) : x[2] = d /\ correlation_of(x[1]) = c
                                            /\ pair_key(s, x[1]) = pair_key(s, d)
      <4>1. PICK x \in PairsOf(run, s) : x[2] = d
        BY <1>1, <1>7, EndsOfPairs
      <4>2. pair_key(s, x[1]) = pair_key(s, x[2])
        BY <1>1, EndsOfPairs
      <4> QED
        BY <1>7, <1>8, <4>1, <4>2
    <3>3. PICK x \in PairsOf(run, s) : x[1] = a
      BY <1>1, <1>7, EndsOfPairs
    <3>4. \A d \in Own(run, last, c) : x[2] = d /\ pair_key(s, x[1]) = pair_key(s, d)
      BY <1>7, <3>1, <3>2, <3>3, OneTransfer
    <3> QED
      BY <3>3, <3>4
  <2> QED
    BY <2>1, <2>2
<1>12. Own(run, first, c) = {a} /\ Own(run, last, c) = {b} /\ a.ts <= b.ts
  <2>1. <<a, b>> \in PairsOf(run, s)
    BY <1>7, <1>11 DEF PairsOf, Pairs
  <2>2. a.ts <= b.ts
    <3>1. \A pair \in PairsOf(run, s) : pair[1].ts <= pair[2].ts
      BY <1>1, StagePairs
    <3> QED
      BY <2>1, <3>1
  <2> QED
    BY <1>10, <1>11, <2>2
<1>13. {e \in MarkersOf(run, c) : e.name = first} = {a} /\ {e \in MarkersOf(run, c) : e.name = last} = {b}
  BY <1>2, <1>12, OwnMarkers
<1>14. /\ a \in run.events /\ b \in run.events /\ a # None /\ b # None
       /\ a \in MarkersOf(run, c) /\ b \in MarkersOf(run, c) /\ a.ts \in Int /\ b.ts \in Int
  BY <1>1, <1>13 DEF MarkersOf, Markers, RunTyped
<1>15. \A e : OnlyOf({e}) = e
  <2> TAKE e
  <2>1. Cardinality({e}) = 1
    BY FS_Singleton
  <2> QED
    BY <2>1 DEF OnlyOf
<1>16. Pair(MarkersOf(run, c), stem).start = a /\ Pair(MarkersOf(run, c), stem).end = b
  BY <1>13, <1>15 DEF Pair
<1>17. Pair(MarkersOf(run, c), stem).reason = None
  <2>1. OnlyOf({e \in MarkersOf(run, c) : e.name = first}) = a
        /\ OnlyOf({e \in MarkersOf(run, c) : e.name = last}) = b
    BY <1>13, <1>15
  <2>2. ~(b.ts < a.ts)
    BY <1>12, <1>14
  <2> QED
    BY <1>14, <2>1, <2>2 DEF Pair
<1> QED
  BY <1>14, <1>16, <1>17

\* The steps of a request's sampling are paired, one for one and in order.
LEMMA SampledSteps ==
    ASSUME NEW run, Accepted(run), NEW c \in Correlations(run),
           NEW k \in StepsOfName(run, "sampling_start", c)
    PROVE  \E a \in Own(run, "sampling_start", c) : \E b \in Own(run, "sampling_end", c) :
              /\ a.step = k /\ b.step = k /\ a.ts <= b.ts
              /\ StepPair(MarkersOf(run, c), k) = [start |-> a, end |-> b, reason |-> None]
<1> DEFINE events == MarkersOf(run, c)
           first == "sampling_start"
           last == "sampling_end"
<1>1. RunTyped(run) /\ ~PairingRefused(run.events) /\ c # None
  BY DEF Accepted
<1>2. "sampling" \in PairedStems /\ FirstMarker("sampling") = first /\ LastMarker("sampling") = last
  BY DEF PairedStems, FirstMarker, LastMarker, Pairings
<1>3. PICK s \in Stages : s.first = first /\ s.last = last /\ s.discriminator = "step"
  BY <1>2, StageOfStem
<1>4. first \in J!IterationNames /\ last \in J!IterationNames
  BY CanonicalNames
<1>5. PICK a \in Own(run, first, c) : a.step = k
  BY DEF StepsOfName
<1>6. k \in StepsOfName(run, last, c)
  BY <1>4, StepsAgree
<1>7. PICK b \in Own(run, last, c) : b.step = k
  BY <1>6 DEF StepsOfName
<1>8. /\ a \in Named(run.events, s.first) /\ b \in Named(run.events, s.last)
      /\ a.correlation = c /\ b.correlation = c
  BY <1>3 DEF Own
<1>9. pair_key(s, a) = pair_key(s, b)
  BY <1>1, <1>3, <1>5, <1>7, <1>8 DEF pair_key, correlation_of
<1>10. a.ts <= b.ts
  <2>1. <<a, b>> \in PairsOf(run, s)
    BY <1>8, <1>9 DEF PairsOf, Pairs
  <2>2. \A pair \in PairsOf(run, s) : pair[1].ts <= pair[2].ts
    BY <1>1, StagePairs
  <2> QED
    BY <2>1, <2>2
<1>11. /\ a \in run.events /\ b \in run.events /\ a # None /\ b # None
       /\ a.ts \in Int /\ b.ts \in Int
  BY <1>1, <1>8 DEF Named, RunTyped
<1>12. /\ {e \in {x \in events : x.step = k} : e.name = first} = {a}
       /\ {e \in {x \in events : x.step = k} : e.name = last} = {b}
  <2>1. {e \in events : e.name = first} = Own(run, first, c) /\ {e \in events : e.name = last} = Own(run, last, c)
    BY <1>2, OwnMarkers
  <2>2. (\A e \in Own(run, first, c) : e.step = k => e = a) /\ (\A e \in Own(run, last, c) : e.step = k => e = b)
    BY <1>4, <1>5, <1>7, StepsKnown
  <2> HIDE DEF events
  <2>3. \A e : /\ (e \in events /\ e.name = first) <=> e \in Own(run, first, c)
               /\ (e \in events /\ e.name = last) <=> e \in Own(run, last, c)
    BY <2>1
  <2> QED
    BY <1>5, <1>7, <2>2, <2>3
<1>13. \A e : OnlyOf({e}) = e
  <2> TAKE e
  <2>1. Cardinality({e}) = 1
    BY FS_Singleton
  <2> QED
    BY <2>1 DEF OnlyOf
<1>14. StepPair(events, k) = [start |-> a, end |-> b, reason |-> None]
  <2> DEFINE at == {x \in events : x.step = k}
  <2>1. OnlyOf({e \in at : e.name = first}) = a /\ OnlyOf({e \in at : e.name = last}) = b
    BY <1>12, <1>13
  <2>2. StepPair(events, k) = Pair(at, "sampling")
    BY DEF StepPair
  <2> HIDE DEF at
  <2>3. ~(b.ts < a.ts)
    BY <1>10, <1>11
  <2> QED
    BY <1>2, <1>11, <2>1, <2>2, <2>3 DEF Pair
<1> QED
  BY <1>5, <1>7, <1>10, <1>14

\* The sampling of a request has no reason not to have a latency.
LEMMA SamplingIsWhole ==
    ASSUME NEW run, Accepted(run), NEW c \in Correlations(run)
    PROVE  /\ SamplingReason(MarkersOf(run, c)) = None
           /\ SamplingRecords(MarkersOf(run, c), None) # {}
           /\ SamplingRecords(MarkersOf(run, c), None) \subseteq MarkersOf(run, c)
<1> DEFINE events == MarkersOf(run, c)
           steps == StepsOfName(run, "sampling_start", c)
<1>1. /\ \A name \in J!IterationNames : StepsOfName(run, name, c) = steps
      /\ steps # {} /\ IsFiniteSet(steps) /\ steps \subseteq Nat
      /\ \A k \in steps : \A j \in 0..k : j \in steps
  BY StepsAgree
<1>2. {e \in events : e.name = "sampling_start"} = Own(run, "sampling_start", c)
      /\ {e \in events : e.name = "sampling_end"} = Own(run, "sampling_end", c)
  <2>1. "sampling" \in PairedStems /\ FirstMarker("sampling") = "sampling_start"
        /\ LastMarker("sampling") = "sampling_end"
    BY DEF PairedStems, FirstMarker, LastMarker, Pairings
  <2> QED
    BY <2>1, OwnMarkers
<1>3. "sampling_start" \in J!IterationNames /\ "sampling_end" \in J!IterationNames
  BY CanonicalNames
<1>4. RunTyped(run)
  BY DEF Accepted
<1> HIDE DEF events
<1>5. StepsOf(events) = steps
  <2>1. SamplingMarks(events) = Own(run, "sampling_start", c) \cup Own(run, "sampling_end", c)
    BY <1>2 DEF SamplingMarks
  <2>2. StepsOfName(run, "sampling_end", c) = steps
    BY <1>1, <1>3
  <2> QED
    BY <2>1, <2>2 DEF StepsOf, StepsOfName
<1>6. \A k \in steps :
         \E a \in Own(run, "sampling_start", c) : \E b \in Own(run, "sampling_end", c) :
            /\ a.step = k /\ b.step = k /\ a.ts <= b.ts
            /\ StepPair(events, k) = [start |-> a, end |-> b, reason |-> None]
  BY SampledSteps DEF events
<1>7. \A k \in steps : StepPair(events, k).reason = None
  BY <1>6
<1>8. None \notin steps
  BY <1>3, StepsKnown
<1>9. \A k \in steps : ~(k < 0)
  BY <1>1
<1>10. steps = 0..Max(steps)
  <2>1. \E x \in steps : \A y \in steps : x >= y
    BY <1>1, HasGreatest
  <2>2. Max(steps) \in steps /\ \A y \in steps : Max(steps) >= y
    BY <2>1 DEF Max
  <2> DEFINE m == Max(steps)
  <2>3. m \in steps /\ (\A y \in steps : m >= y) /\ m \in Nat
    BY <1>1, <2>2
  <2> HIDE DEF m
  <2>4. \A j \in 0..m : j \in steps
    BY <1>1, <2>3
  <2>5. \A y \in steps : y \in 0..m
    BY <1>1, <2>3
  <2>6. steps = 0..m
    <3> HIDE DEF steps
    <3> QED
      BY <2>4, <2>5
  <2> QED
    BY <2>6 DEF m
<1>11. PairedSteps(events) = steps
  BY <1>5, <1>7 DEF PairedSteps
<1>12. ~StepsOverlap(events, steps)
  <2> SUFFICES ASSUME NEW k \in steps, k + 1 \in steps
               PROVE  ~(StepPair(events, k + 1).start.ts < StepPair(events, k).end.ts)
    BY DEF StepsOverlap
  <2>1. PICK b \in Own(run, "sampling_end", c) : b.step = k /\ StepPair(events, k).end = b
    BY <1>6
  <2>2. PICK a \in Own(run, "sampling_start", c) : a.step = k + 1 /\ StepPair(events, k + 1).start = a
    BY <1>6
  <2>3. b.ts <= a.ts
    BY <2>1, <2>2, StepOrder
  <2>4. a.ts \in Int /\ b.ts \in Int
    BY <1>4 DEF Own, Named, RunTyped
  <2> QED
    BY <2>1, <2>2, <2>3, <2>4
<1> HIDE DEF steps
<1>13. SamplingReason(events) = None
  BY <1>1, <1>5, <1>8, <1>9, <1>10, <1>11, <1>12 DEF SamplingReason
<1>14. SamplingRecords(events, None) = UNION {{StepPair(events, k).start, StepPair(events, k).end} : k \in steps}
  BY <1>1, <1>11, ReasonsAreSome DEF SamplingRecords
<1>15. \A k \in steps : StepPair(events, k).start \in events /\ StepPair(events, k).end \in events
  BY <1>2, <1>6
<1>16. SamplingRecords(events, None) # {} /\ SamplingRecords(events, None) \subseteq events
  <2>1. PICK k \in steps : TRUE
    BY <1>1
  <2>2. StepPair(events, k).start \in SamplingRecords(events, None)
    BY <1>14
  <2>3. \A e \in SamplingRecords(events, None) : e \in events
    BY <1>14, <1>15
  <2> QED
    BY <2>2, <2>3
<1> QED
  BY <1>13, <1>16 DEF events

\* The markers of a run are all on the canonical clock, their uncertainty known.
OneClock(run) ==
    /\ ClockOf(run, Markers(run)).aligned
    /\ \A e \in Markers(run) : e.method # None /\ e.uncertainty # None

\* Then so are any of them.
LEMMA SomeAligned ==
    ASSUME NEW run, RunTyped(run), OneClock(run), NEW S \in SUBSET Markers(run), S # {}
    PROVE  ClockOf(run, S).aligned /\ \A e \in S : e.clock = run.canonical
<1> DEFINE M == Markers(run)
<1>1. {r.clock : r \in M} = {run.canonical} /\ Cardinality(Methods(M)) = 1
  BY DEF OneClock, ClockOf
<1>2. IsFiniteSet(M)
  BY EventsFinite, FS_Subset DEF Markers
<1>3. IsFiniteSet(Methods(M))
  <2> DEFINE f == [r \in M |-> r.method]
             all == {f[r] : r \in M}
  <2>1. all = {r.method : r \in M}
    OBVIOUS
  <2>2. IsFiniteSet(all)
    <3> HIDE DEF M, f
    <3> QED
      BY <1>2, ValuesAreFinite
  <2>3. Methods(M) \subseteq all
    BY <2>1 DEF Methods
  <2> QED
    BY <2>2, <2>3, FS_Subset
<1>4. PICK m : Methods(M) = {m}
  BY <1>1, <1>3, FS_Singleton
<1>5. \A e \in M : e.method # None /\ e.uncertainty # None
  BY DEF OneClock
<1> HIDE DEF M
<1>6. S \subseteq M
  BY DEF M
<1>7. \A e \in S : e.clock = run.canonical /\ e.method \in Methods(M)
  BY <1>1, <1>5, <1>6 DEF Methods
<1>8. PICK x \in S : TRUE
  OBVIOUS
<1>9. {r.clock : r \in S} = {run.canonical}
  BY <1>7, <1>8
<1>10. Methods(S) = {m}
  <2>1. \A e \in S : e.method = m /\ e.method # None
    BY <1>4, <1>5, <1>6, <1>7
  <2> QED
    BY <1>8, <2>1 DEF Methods
<1>11. Uncertainties(S) # {}
  <2>1. x.uncertainty # None
    BY <1>5, <1>6, <1>8
  <2> QED
    BY <1>8, <2>1 DEF Uncertainties
<1>12. Cardinality(Methods(S)) = 1
  BY <1>10, FS_Singleton
<1> QED
  BY <1>7, <1>9, <1>11, <1>12 DEF ClockOf

\* A run whose markers are on one clock has every latency of every request.
LEMMA RowWhole ==
    ASSUME NEW run, Accepted(run), OneClock(run), NEW c \in Correlations(run), NEW stem \in PairedStems
    PROVE  LET row == OnePipeline(run, c, MarkersOf(run, c))[Latency(stem)]
           IN  row.available /\ row.method # AcrossRequests
<1> DEFINE events == MarkersOf(run, c)
           row == OnePipeline(run, c, events)[Latency(stem)]
<1>0. /\ RunTyped(run) /\ events \subseteq Markers(run)
      /\ \A e \in events : e.ts \in Int /\ e # None
  <2>1. RunTyped(run)
    BY DEF Accepted
  <2> QED
    BY <2>1 DEF MarkersOf, Markers, RunTyped
<1>1. stem \in PairedStems \cup {"wait"} /\ stem # "wait"
  BY DEF PairedStems, DerivedStems
<1>2. Latency(stem) \in {Latency(s) : s \in PairedStems \cup {"wait"}} /\ Latency(stem) # Latency("wait")
  BY <1>1, NamesDiffer
<1>3. CASE stem = "sampling"
  <2> DEFINE records == SamplingRecords(events, None)
  <2>1. row = SamplingKpi(run, events, c)
    BY <1>2, <1>3 DEF OnePipeline
  <2>2. SamplingReason(events) = None /\ records # {} /\ records \subseteq events
    BY SamplingIsWhole
  <2>3. SamplingTotal(events) = Whole(Span(run, "sampling", c)) /\ Span(run, "sampling", c) \in Int
    BY <1>0, <2>2, SamplingSpan
  <2>4. SamplingTotal(events) # None
    BY <2>3, WholeIs, NoneAssumption
  <2>5. ClockOf(run, records).aligned
    <3> HIDE DEF records, events
    <3> QED
      BY <1>0, <2>2, SomeAligned
  <2> HIDE DEF events
  <2>6. row = SamplingRow(run, c, StepsOf(events), SamplingTotal(events), None, records,
                          ClockOf(run, records), Selected(PipelineMetrics(run, "sampling", c)))
    BY <2>1, <2>2 DEF SamplingKpi, EventClock
  <2> HIDE DEF row, records
  <2>7. row.available /\ row.method = "sum_explicit_sampling_pairs"
    BY <2>4, <2>5, <2>6 DEF SamplingRow, Kpi
  <2> QED
    BY <2>7 DEF row, events, AcrossRequests
<1>4. CASE stem # "sampling"
  <2>1. stem \in DerivedStems /\ "sampling" \in PairedStems /\ DerivedStems \subseteq PairedStems
    BY <1>4 DEF PairedStems
  <2>2. Latency(stem) # Latency("sampling")
    BY <1>4, <2>1, NamesDiffer
  <2>3. (CHOOSE s \in DerivedStems : Latency(stem) = Latency(s)) = stem
    <3>1. \A s \in DerivedStems : Latency(stem) = Latency(s) => s = stem
      BY <2>1, NamesDiffer
    <3> QED
      BY <2>1, <3>1
  <2> DEFINE pair == Pair(events, stem)
             records == {pair.start, pair.end} \ {None}
  <2>4. row = PipelineKpi(run, stem, pair, c)
    BY <1>2, <2>2, <2>3 DEF OnePipeline
  <2>5. pair.reason = None /\ pair.start \in events /\ pair.end \in events
    BY <2>1, PairIsWhole
  <2> HIDE DEF events, pair
  <2>6. records \subseteq Markers(run) /\ records # {} /\ pair.start \in records /\ pair.end \in records
    BY <1>0, <2>5
  <2>7. ClockOf(run, records).aligned /\ pair.start.clock = pair.end.clock
    <3>1. ClockOf(run, records).aligned /\ \A e \in records : e.clock = run.canonical
      <4> HIDE DEF records
      <4> QED
        BY <1>0, <2>6, SomeAligned
    <3> QED
      BY <2>6, <3>1
  <2>8. Whole(pair.end.ts - pair.start.ts) # None
    <3>1. pair.end.ts - pair.start.ts \in Int
      BY <1>0, <2>5
    <3> QED
      BY <3>1, WholeIs, NoneAssumption
  <2>9. PairReason(EventClock(run, records), pair) = None
    BY <2>5, <2>6, <2>7 DEF PairReason, EventClock
  <2> HIDE DEF row, records
  <2>10. row.available /\ row.method = "canonical_marker_pair"
    BY <2>4, <2>8, <2>9 DEF PipelineKpi, Kpi, records
  <2> QED
    BY <2>10 DEF row, events, AcrossRequests
<1> QED
  BY <1>3, <1>4

\* What the report says of a stage: the time of the one request, or the mean.
LEMMA PipelineValues ==
    ASSUME NEW run, Accepted(run), OneClock(run), NEW stem \in PairedStems
    PROVE  LET kpi == Collected(run, PipelineRows(run), NoPipeline)[Latency(stem)]
               many == Cardinality(Correlations(run))
               time == MarkerTime(run.events, LastMarker(stem)) - MarkerTime(run.events, FirstMarker(stem))
           IN  /\ many \in Nat \ {0}
               /\ many = 1 => kpi.value = Whole(time) /\ kpi.method # AcrossRequests
               /\ many # 1 => kpi.value = Over(time, many) /\ kpi.method = AcrossRequests
<1> DEFINE rows == PipelineRows(run)
           C == Correlations(run)
           name == Latency(stem)
           names == {Latency(s) : s \in PairedStems \cup {"wait"}}
           kpi == Collected(run, rows, NoPipeline)[name]
           many == Cardinality(C)
           values == [c \in C |-> rows[c][name].value]
           time == MarkerTime(run.events, LastMarker(stem)) - MarkerTime(run.events, FirstMarker(stem))
           first == CHOOSE c \in C : TRUE
<1>1. RunTyped(run) /\ C # {} /\ None \notin C
  BY DEF Accepted
<1>2. DOMAIN rows = C /\ \A c \in C : rows[c] = OnePipeline(run, c, MarkersOf(run, c))
  BY <1>1 DEF PipelineRows
<1>3. IsFiniteSet(C)
  BY <1>1, MarkersTyped
<1>4. many \in Nat \ {0}
  <2> HIDE DEF C
  <2> QED
    BY <1>1, <1>3, FS_CardinalityType, FS_EmptySet
<1>5. \A c \in C : rows[c][name].available /\ rows[c][name].method # AcrossRequests
  BY <1>2, RowWhole
<1>6. /\ Total(values) = Whole(time) /\ time \in Int
      /\ \A c \in C : C = {c} => values[c] = Whole(time)
  BY <1>1, <1>5, PipelineTotal
<1>7. \A c \in C : DOMAIN rows[c] = names
  BY <1>2 DEF OnePipeline
<1>8. name \in names /\ first \in C
  BY <1>1
<1> HIDE DEF rows, names, name, C, first
<1>9. CASE many = 1
  <2>1. PICK c : C = {c}
    BY <1>3, <1>9, FS_Singleton
  <2>2. first = c
    BY <1>8, <2>1
  <2>3. kpi = rows[c][name]
    BY <1>1, <1>2, <1>9, <2>2 DEF Collected, first
  <2> QED
    BY <1>4, <1>5, <1>6, <1>9, <2>1, <2>3 DEF C, rows, name
<1>10. CASE many # 1
  <2>1. Collected(run, rows, NoPipeline) = AggregateRequestKpis(rows, first)
    BY <1>1, <1>2, <1>10 DEF Collected, first
  <2>2. kpi = Aggregate(rows, name, rows[first][name].scope.layer, rows[first][name].clock)
    BY <1>7, <1>8, <2>1 DEF AggregateRequestKpis
  <2>3. HaveValues(rows, name) = C
    BY <1>2, <1>5 DEF HaveValues
  <2>4. kpi.value = Mean(values) /\ kpi.method = AcrossRequests
    BY <1>2, <2>2, <2>3 DEF Aggregate, Kpi
  <2>5. Mean(values) = Over(time, 1 * many)
    BY <1>6 DEF Mean, Part, Whole
  <2>6. 1 * many = many
    BY <1>4
  <2> QED
    BY <1>4, <1>10, <2>4, <2>5, <2>6 DEF C, rows, name
<1> QED
  BY <1>9, <1>10

\* The plan shows one request slice for each request.
LEMMA RequestsShown ==
    ASSUME NEW run, Accepted(run)
    PROVE  Cardinality(OfStage(Planned(run), "request")) = Cardinality(Correlations(run))
<1> DEFINE C == Correlations(run)
           items == OfStage(Planned(run), "request")
<1>1. RunTyped(run) /\ ~PairingRefused(run.events)
  BY DEF Accepted
<1>2. "e2e" \in PairedStems /\ TrackOfStem("e2e") = "request" /\ FirstMarker("e2e") = "request_received"
  BY DEF PairedStems, DerivedStems, TrackOfStem, FirstMarker, Pairings
<1>3. PICK s \in Stages : s.track = "request" /\ s.first = "request_received" /\ s.discriminator = "request"
  BY <1>2, StageOfStem
<1> DEFINE pairs0 == PairsOf(run, s)
           who == [pair \in pairs0 |-> pair[1].correlation]
<1>4. /\ IsFiniteSet(pairs0)
      /\ \A pair \in pairs0 : pair[1] \in Named(run.events, s.first)
      /\ \A e \in Named(run.events, s.first) :
            \E x \in pairs0 : {y \in pairs0 : y[1] = e} = {x} /\ x[1] = e
  BY <1>1, EndsOfPairs
<1>5. PICK f \in Bijection(pairs0, items) : TRUE
  BY <1>3, StageItems
<1>6. "request_received" \in CanonicalMarkers /\ "request_received" \in J!ContractMarkers
      /\ "request_received" \in J!MarkerNames
  BY <1>2, CanonicalNames DEF CanonicalMarkers
<1>7. \A e \in Named(run.events, s.first) :
         /\ e.correlation \in C /\ e.correlation # None
         /\ pair_key(s, e) = <<e.correlation, 0>>
  <2> TAKE e \in Named(run.events, s.first)
  <2>1. e \in run.events /\ e.name = "request_received"
    BY <1>3 DEF Named
  <2>2. e.correlation # None
    BY <1>6, <2>1, RequestsAreValid
  <2>3. e.correlation \in C
    BY <1>6, <2>1 DEF Correlations, Markers
  <2> QED
    BY <1>3, <2>2, <2>3, KeyOfRequest
<1>8. \A a, b \in Named(run.events, s.first) : pair_key(s, a) = pair_key(s, b) => a = b
  BY <1>1, StagePairs
<1> HIDE DEF pairs0, items
<1>9. who \in Bijection(pairs0, C)
  <2>1. who \in [pairs0 -> C]
    BY <1>4, <1>7
  <2>2. \A x, y \in pairs0 : who[x] = who[y] => x = y
    <3> TAKE x, y \in pairs0
    <3> HAVE who[x] = who[y]
    <3>1. x[1] = y[1]
      BY <1>4, <1>7, <1>8
    <3> QED
      BY <1>4, <3>1
  <2>3. \A c \in C : \E x \in pairs0 : who[x] = c
    <3> TAKE c \in C
    <3>1. Own(run, "request_received", c) # {}
      BY <1>6, MarkersPresent
    <3>2. PICK e \in Named(run.events, s.first) : e.correlation = c
      BY <1>3, <3>1 DEF Own
    <3>3. PICK x \in pairs0 : x[1] = e
      BY <1>4
    <3> QED
      BY <3>2, <3>3
  <2> HIDE DEF C, who
  <2> QED
    BY <2>1, <2>2, <2>3 DEF Bijection, Injection, IsInjective, Surjection
<1>10. Cardinality(C) = Cardinality(pairs0)
  BY <1>4, <1>9, FS_Bijection DEF ExistsBijection
<1>11. Cardinality(items) = Cardinality(pairs0)
  BY <1>4, <1>5, FS_Bijection DEF ExistsBijection
<1> QED
  BY <1>10, <1>11 DEF items

\* Every row of a plan is there some times.
LEMMA RowsAreSome ==
    ASSUME NEW items, IsFiniteSet(items)
    PROVE  /\ DOMAIN PlannedRows(items) = {RowOf(item) : item \in items}
           /\ \A row \in DOMAIN PlannedRows(items) :
                 /\ PlannedRows(items)[row] = Cardinality({item \in items : RowOf(item) = row})
                 /\ PlannedRows(items)[row] \in Nat \ {0}
<1>1. /\ DOMAIN PlannedRows(items) = {RowOf(item) : item \in items}
      /\ \A row \in DOMAIN PlannedRows(items) :
            PlannedRows(items)[row] = Cardinality({item \in items : RowOf(item) = row})
  BY DEF PlannedRows
<1>2. ASSUME NEW row \in DOMAIN PlannedRows(items)
      PROVE  Cardinality({item \in items : RowOf(item) = row}) \in Nat \ {0}
  <2> DEFINE mine == {item \in items : RowOf(item) = row}
  <2>1. IsFiniteSet(mine)
    BY FS_Subset
  <2>2. mine # {}
    BY <1>1
  <2> HIDE DEF mine
  <2>3. Cardinality(mine) \in Nat \ {0}
    BY <2>1, <2>2, FS_CardinalityType, FS_EmptySet
  <2> QED
    BY <2>3 DEF mine
<1> QED
  BY <1>1, <1>2

\* What is read back of a trace is what was planned, on every lane.
LEMMA ReadsBack ==
    ASSUME NEW run, NEW shown, NEW items
    PROVE  ActualRows(MatchingBundle(shown, run, items), PlannedRows(items)) = PlannedRows(items)
<1> DEFINE planned == PlannedRows(items)
           b == MatchingBundle(shown, run, items)
<1>1. b.rows = planned
  BY DEF MatchingBundle
<1>2. planned = [row \in DOMAIN planned |-> planned[row]]
  BY DEF PlannedRows
<1> HIDE DEF planned, b
<1>3. {row \in DOMAIN planned : LaneTrack(row) \in {LaneTrack(r) : r \in DOMAIN planned}} = DOMAIN planned
  OBVIOUS
<1>4. ActualRows(b, planned) = Restrict(planned, DOMAIN planned)
  BY <1>1, <1>3 DEF ActualRows, OnTracks
<1>5. Restrict(planned, DOMAIN planned) = planned
  BY <1>2 DEF Restrict
<1> QED
  BY <1>4, <1>5 DEF planned, b

\* The slices with a step are those of the decode steps and of the sampling.
LEMMA StepsCounted ==
    ASSUME NEW run, RunTyped(run), ~PairingRefused(run.events)
    PROVE  Cardinality({item \in Planned(run) : item.spec.note.step # None}) = StepCount(Planned(run))
<1> DEFINE P == Planned(run)
           decode == OfStage(P, "npu_decode_step")
           sampling == OfStage(P, "sampling")
           counted == {item \in P : item.spec.note.step # None}
<1>1. \A s \in Stages : s.discriminator = "step" <=> s.track \in {"npu_decode_step", "sampling"}
  BY DEF Stages, PipelineStages, DetailStages, Bracketed, Stage
<1>2. \A item \in P : item.spec.note.step # None <=> item.stage \in {"npu_decode_step", "sampling"}
  <2> TAKE item \in P
  <2>1. PICK s \in Stages : \E pair \in PairsOf(run, s) : Shows(item, s, pair)
    BY PlannedIsOfStages
  <2>2. PICK pair \in PairsOf(run, s) : Shows(item, s, pair)
    BY <2>1
  <2>3. pair[1] \in Named(run.events, s.first)
    BY EndsOfPairs
  <2>4. pair_key(s, pair[1])[2] # None
    BY <2>3, StagePairs
  <2>5. s.discriminator = "step" => pair[1].step # None
    BY <2>4 DEF pair_key
  <2> QED
    BY <1>1, <2>2, <2>5 DEF Shows
<1>3. counted = decode \cup sampling /\ decode \cap sampling = {}
  <2> HIDE DEF P
  <2> QED
    BY <1>2 DEF OfStage
<1>4. IsFiniteSet(P) /\ decode \subseteq P /\ sampling \subseteq P
  BY PlannedIsOfStages DEF OfStage
<1>5. IsFiniteSet(decode) /\ IsFiniteSet(sampling)
  BY <1>4, FS_Subset
<1> HIDE DEF decode, sampling, counted
<1>6. Cardinality(counted) = Cardinality(decode) + Cardinality(sampling) - Cardinality({})
  BY <1>3, <1>5, FS_Union
<1>7. Cardinality(counted) = Cardinality(decode) + Cardinality(sampling)
  BY <1>5, <1>6, FS_EmptySet, FS_CardinalityType
<1> QED
  BY <1>7 DEF counted, decode, sampling, StepCount

\* The three stories of a run on one clock are one.
LEMMA NothingDiffers ==
    ASSUME NEW run, Accepted(run), OneClock(run), ~ResourcesRefused(run),
           NEW shown, shown.kpis \in Nat,
           NEW said, said.kpis.pipeline = Collected(run, PipelineRows(run), NoPipeline)
    PROVE  OverviewMismatches(run, MatchingBundle(shown, run, Planned(run)), Planned(run), said) = {}
<1> DEFINE P == Planned(run)
           planned == PlannedRows(P)
           b == MatchingBundle(shown, run, P)
           rows == [stem \in ReconciledStems |-> PhaseRow(b, planned, stem)]
           many == Cardinality(Correlations(run))
           time(stem) == MarkerTime(run.events, LastMarker(stem)) - MarkerTime(run.events, FirstMarker(stem))
           kpi(stem) == said.kpis.pipeline[Latency(stem)]
<1>1. RunTyped(run) /\ ~PairingRefused(run.events)
  BY DEF Accepted
<1>3. ActualRows(b, planned) = planned
  <2> HIDE DEF P
  <2> QED
    BY ReadsBack
<1>4. ReconciledStems = PairedStems /\ "e2e" \in PairedStems /\ TrackOfStem("e2e") = "request"
  BY DEF ReconciledStems, PairedStems, DerivedStems, TrackOfStem
<1>5. \A stem \in PairedStems :
         /\ rows[stem].matched /\ rows[stem].planned = time(stem)
         /\ rows[stem].count = Cardinality(OfStage(P, TrackOfStem(stem)))
  <2> TAKE stem \in PairedStems
  <2>1. rows[stem] = PhaseRow(b, planned, stem)
    BY <1>4
  <2>2. /\ CountOfRows(planned, stem) = Cardinality(OfStage(P, TrackOfStem(stem)))
        /\ DurationOf(planned, stem) = time(stem)
    BY <1>1, RowsOfStage
  <2>3. /\ PhaseRow(b, planned, stem).planned = DurationOf(planned, stem)
        /\ PhaseRow(b, planned, stem).count = CountOfRows(planned, stem)
    <3> HIDE DEF b, planned
    <3> QED
      BY DEF PhaseRow
  <2>4. PhaseRow(b, planned, stem).matched
    <3> DEFINE read == IF b.compact THEN planned ELSE ActualRows(b, planned)
    <3>1. read = planned
      <4> HIDE DEF b, planned
      <4> QED
        BY <1>3
    <3>2. PhaseRow(b, planned, stem).matched = (Durations(read, stem) = Durations(planned, stem))
      BY DEF PhaseRow
    <3> HIDE DEF b, planned, read
    <3> QED
      BY <3>1, <3>2
  <2> HIDE DEF b, planned, rows, P, time
  <2> QED
    BY <2>1, <2>2, <2>3, <2>4
<1>6. rows["e2e"].count = many
  <2>1. Cardinality(OfStage(P, "request")) = many
    BY RequestsShown
  <2> HIDE DEF P, rows, many
  <2> QED
    BY <1>4, <1>5, <2>1
<1>7. \A stem \in PairedStems :
         /\ many \in Nat \ {0}
         /\ many = 1 => kpi(stem).value = Whole(time(stem)) /\ kpi(stem).method # AcrossRequests
         /\ many # 1 => kpi(stem).value = Over(time(stem), many) /\ kpi(stem).method = AcrossRequests
  BY PipelineValues
<1> HIDE DEF rows, many, time
<1>8. PhaseMismatches(rows, said.kpis) = {}
  <2>1. \A stem \in PairedStems : kpi(stem).value = ExpectedDuration(rows, kpi(stem), stem)
    <3> TAKE stem \in PairedStems
    <3> DEFINE k == kpi(stem)
    <3>1. /\ many \in Nat \ {0}
          /\ many = 1 => k.value = Whole(time(stem)) /\ k.method # AcrossRequests
          /\ many # 1 => k.value = Over(time(stem), many) /\ k.method = AcrossRequests
          /\ rows[stem].planned = time(stem) /\ rows["e2e"].count = many
      BY <1>5, <1>6, <1>7
    <3> HIDE DEF k
    <3>2. k.value = ExpectedDuration(rows, k, stem)
      BY <3>1 DEF ExpectedDuration
    <3> QED
      BY <3>2 DEF k
  <2> QED
    BY <1>4, <1>5, <2>1 DEF PhaseMismatches
<1>9. CountMismatches(run, b, P) = {}
  <2>1. /\ b.counts.steps = Cardinality({item \in P : item.spec.note.step # None})
        /\ b.counts.kpis = shown.kpis /\ b.counts.flows = Cardinality(DrawnFlows(P))
        /\ b.counts.counters = shown.kpis + Cardinality({m \in Sampled(run) : m.value # None})
        /\ b.counts.dangling = 0 /\ b.counts.errors = 0
    BY DEF MatchingBundle
  <2>2. b.counts.steps = StepCount(P)
    BY <1>1, <2>1, StepsCounted
  <2>3. {m \in Sampled(run) : m.value # None} = {m \in Sampled(run) : m.available}
    <3>1. \A m \in Sampled(run) : ~SampleRefused(m)
      BY DEF ResourcesRefused
    <3> QED
      BY <3>1 DEF SampleRefused
  <2>4. AvailableResources(run) \in Nat
    <3>1. Sampled(run) \subseteq run.metrics /\ IsFiniteSet(run.metrics)
      BY <1>1 DEF Sampled, RunTyped
    <3>2. IsFiniteSet({m \in Sampled(run) : m.available})
      BY <3>1, FS_Subset
    <3> QED
      BY <3>2, FS_CardinalityType DEF AvailableResources
  <2>5. b.counts.counters = AvailableResources(run) + b.counts.kpis
    <3>1. b.counts.counters = shown.kpis + AvailableResources(run)
      BY <2>1, <2>3 DEF AvailableResources
    <3>2. b.counts.kpis = shown.kpis
      BY <2>1
    <3> HIDE DEF b
    <3> QED
      BY <2>4, <3>1, <3>2
  <2> HIDE DEF P, b
  <2> DEFINE expected == [steps |-> StepCount(P), counters |-> AvailableResources(run) + b.counts.kpis,
                          flows |-> Cardinality(DrawnFlows(P)), dangling |-> 0, errors |-> 0]
  <2>6. \A name \in DOMAIN expected : b.counts[name] = expected[name]
    BY <2>1, <2>2, <2>5
  <2>7. CountMismatches(run, b, P) = {name \in DOMAIN expected : b.counts[name] # expected[name]}
    BY DEF CountMismatches
  <2> HIDE DEF expected
  <2> QED
    BY <2>6, <2>7
<1>10. OverviewMismatches(run, b, P, said) = PhaseMismatches(rows, said.kpis) \cup CountMismatches(run, b, P)
  BY DEF OverviewMismatches, rows
<1> QED
  BY <1>8, <1>9, <1>10

------------------------------------------------------------------------------
(* The steps of the generation, as far as the last check stands on them.       *)

Validating == {"validate"}
Sampling == {"report"} \cup Validating
Piped == {"windows", "throughput", "transfer", "resources"} \cup Sampling
Traced == {"client", "pipeline"} \cup Piped
Read == {"trace"} \cup Traced

\* Each step leaves behind that it did not refuse, and what it was to make of the run.
ReconcileInv ==
    /\ input \in Inputs
    /\ DOMAIN kpis = {"client", "pipeline", "throughput", "transfer"}
    /\ stage \in Read =>
          /\ J!ValidateMarkerGroups(loaded.lines).status = "valid" /\ ~PairingRefused(loaded.events)
          /\ paired = Planned(loaded)
    /\ stage \in Traced =>
          /\ ~DecodeDetailsRefused(paired) /\ ~FlowsRefused(paired)
          /\ bundle = MatchingBundle(input.shown, loaded, paired)
    /\ stage \in Piped =>
          /\ None \notin Correlations(loaded)
          /\ kpis.pipeline = Collected(loaded, PipelineRows(loaded), NoPipeline)
    /\ stage \in Sampling => ~ResourcesRefused(loaded)
    /\ stage \in Validating => report.kpis = kpis
    /\ ReportsReconcile

\* The last check refuses no run whose markers are on one clock.
LEMMA LastCheckAgrees ==
    ASSUME ReconcileInv, stage = "validate", OnOneClock
    PROVE  OverviewMismatches(loaded, bundle, paired, report) = {}
<1>1. /\ stage \in Read /\ stage \in Traced /\ stage \in Piped /\ stage \in Sampling /\ stage \in Validating
  BY DEF Read, Traced, Piped, Sampling, Validating
<1>2. /\ input \in Inputs /\ J!ValidateMarkerGroups(loaded.lines).status = "valid"
      /\ ~PairingRefused(loaded.events) /\ paired = Planned(loaded)
      /\ ~DecodeDetailsRefused(paired) /\ ~FlowsRefused(paired)
      /\ bundle = MatchingBundle(input.shown, loaded, paired)
      /\ None \notin Correlations(loaded)
      /\ kpis.pipeline = Collected(loaded, PipelineRows(loaded), NoPipeline)
      /\ ~ResourcesRefused(loaded) /\ report.kpis = kpis
  BY <1>1 DEF ReconcileInv
<1>3. RunTyped(loaded) /\ input.shown.kpis \in Nat
  BY <1>2, InputsAssumption DEF loaded
<1>4. OneClock(loaded)
  BY DEF OnOneClock, OneClock
<1> DEFINE run == loaded
<1> HIDE DEF run
<1>5. Correlations(loaded) # {}
  <2>1. {r.clock : r \in Markers(loaded)} = {loaded.canonical}
    BY <1>4 DEF OneClock, ClockOf
  <2>2. PICK e \in Markers(loaded) : e.clock = loaded.canonical
    BY <2>1
  <2> QED
    BY <2>2 DEF Correlations
<1>6. Accepted(loaded)
  BY <1>2, <1>3, <1>5 DEF Accepted
<1> QED
  BY <1>2, <1>3, <1>4, <1>6, NothingDiffers

\* The steps of the generation keep it.
LEMMA ReconcileInvHolds == Spec => []ReconcileInv
<1>1. Init => ReconcileInv
  BY DEF Init, ReconcileInv, NoKpis, ReportsReconcile, Read, Traced, Piped, Sampling, Validating
<1>2. ReconcileInv /\ [Next]_vars => ReconcileInv'
  <2> SUFFICES ASSUME ReconcileInv, [Next]_vars PROVE ReconcileInv'
    OBVIOUS
  <2> USE DEF Read, Traced, Piped, Sampling, Validating
  <2>1. ASSUME UNCHANGED <<input, paired, bundle, kpis, report>>, stage' # "refused_validate",
               stage' \in Read => stage \in Read, stage' \in Traced => stage \in Traced,
               stage' \in Piped => stage \in Piped, stage' \in Sampling => stage \in Sampling,
               stage' \in Validating => stage \in Validating
        PROVE  ReconcileInv'
    BY <2>1 DEF ReconcileInv, ReportsReconcile, loaded
  <2>2. CASE UNCHANGED vars
    BY <2>2 DEF vars, ReconcileInv, ReportsReconcile, loaded, OnOneClock
  <2>3. ASSUME NEW outcome, Refuse(outcome), outcome \notin Read \cup {"refused_validate"}
        PROVE  ReconcileInv'
    BY <2>1, <2>3 DEF Refuse
  <2>4. CASE Load
    <3>1. CASE Refuse("refused_load")
      BY <2>3, <3>1
    <3>2. CASE ~Refuse("refused_load")
      <4>1. /\ stage' = "trace" /\ UNCHANGED <<input, kpis>>
            /\ J!ValidateMarkerGroups(loaded.lines).status = "valid" /\ ~PairingRefused(loaded.events)
            /\ paired' = Planned(loaded)
        BY <2>4, <3>2 DEF Load, Planned
      <4> QED
        BY <4>1 DEF ReconcileInv, ReportsReconcile, loaded
    <3> QED
      BY <3>1, <3>2
  <2>5. CASE Trace
    <3>1. CASE Refuse("refused_trace")
      BY <2>3, <3>1
    <3>2. CASE ~Refuse("refused_trace")
      <4>1. /\ stage = "trace" /\ stage' = "client" /\ UNCHANGED <<input, kpis, paired>>
            /\ ~DecodeDetailsRefused(paired) /\ ~FlowsRefused(paired)
            /\ bundle' = MatchingBundle(input.shown, loaded, paired)
        BY <2>5, <3>2 DEF Trace
      <4> QED
        BY <4>1 DEF ReconcileInv, ReportsReconcile, loaded
    <3> QED
      BY <3>1, <3>2
  <2>6. CASE RequestFacingLatency
    <3>1. CASE Refuse("refused_client")
      BY <2>3, <3>1
    <3>2. CASE ~Refuse("refused_client")
      <4>1. /\ stage = "client" /\ stage' = "pipeline" /\ UNCHANGED <<input, paired, bundle>>
            /\ DOMAIN kpis' = DOMAIN kpis
        BY <2>6, <3>2 DEF RequestFacingLatency
      <4> QED
        BY <4>1 DEF ReconcileInv, ReportsReconcile, loaded
    <3> QED
      BY <3>1, <3>2
  <2>7. CASE PipelineLatency
    <3>1. CASE Refuse("refused_pipeline")
      BY <2>3, <3>1
    <3>2. CASE ~Refuse("refused_pipeline")
      <4>1. /\ stage = "pipeline" /\ stage' = "windows" /\ UNCHANGED <<input, paired, bundle>>
            /\ ~PipelineRefused(loaded, PipelineRows(loaded))
            /\ kpis' = [kpis EXCEPT !.pipeline = Collected(loaded, PipelineRows(loaded), NoPipeline)]
        BY <2>7, <3>2 DEF PipelineLatency
      <4>2. None \notin Correlations(loaded)
        BY <4>1 DEF PipelineRefused
      <4>3. DOMAIN kpis' = DOMAIN kpis
            /\ kpis'.pipeline = Collected(loaded, PipelineRows(loaded), NoPipeline)
        BY <4>1 DEF ReconcileInv
      <4> QED
        BY <4>1, <4>2, <4>3 DEF ReconcileInv, ReportsReconcile, loaded
    <3> QED
      BY <3>1, <3>2
  <2>8. CASE StageWindows
    BY <2>1, <2>8 DEF StageWindows
  <2>9. CASE Throughput
    <3>1. CASE Refuse("refused_throughput")
      BY <2>3, <3>1
    <3>2. CASE ~Refuse("refused_throughput")
      <4>1. /\ stage = "throughput" /\ stage' = "transfer" /\ UNCHANGED <<input, paired, bundle>>
            /\ kpis' = [kpis EXCEPT !.throughput = ThroughputAndTokens(loaded)]
        BY <2>9, <3>2 DEF Throughput
      <4>2. DOMAIN kpis' = DOMAIN kpis /\ kpis'.pipeline = kpis.pipeline
        BY <4>1 DEF ReconcileInv
      <4> QED
        BY <4>1, <4>2 DEF ReconcileInv, ReportsReconcile, loaded
    <3> QED
      BY <3>1, <3>2
  <2>10. CASE Transfer
    <3>1. CASE Refuse("refused_transfer")
      BY <2>3, <3>1
    <3>2. CASE ~Refuse("refused_transfer")
      <4>1. /\ stage = "transfer" /\ stage' = "resources" /\ UNCHANGED <<input, paired, bundle>>
            /\ kpis' = [kpis EXCEPT !.transfer = TransferKpis(loaded, kpis.pipeline, pairs)]
        BY <2>10, <3>2 DEF Transfer
      <4>2. DOMAIN kpis' = DOMAIN kpis /\ kpis'.pipeline = kpis.pipeline
        BY <4>1 DEF ReconcileInv
      <4> QED
        BY <4>1, <4>2 DEF ReconcileInv, ReportsReconcile, loaded
    <3> QED
      BY <3>1, <3>2
  <2>11. CASE Resources
    <3>1. CASE Refuse("refused_resources")
      BY <2>3, <3>1
    <3>2. CASE ~Refuse("refused_resources")
      <4>1. /\ stage = "resources" /\ stage' = "report" /\ UNCHANGED <<input, paired, bundle, kpis>>
            /\ ~ResourcesRefused(loaded)
        BY <2>11, <3>2 DEF Resources
      <4> QED
        BY <4>1 DEF ReconcileInv, ReportsReconcile, loaded
    <3> QED
      BY <3>1, <3>2
  <2>12. CASE Report
    <3>1. CASE Refuse("refused_report")
      BY <2>3, <3>1
    <3>2. CASE ~Refuse("refused_report")
      <4>1. /\ stage = "report" /\ stage' = "validate" /\ UNCHANGED <<input, paired, bundle, kpis>>
            /\ report'.kpis = kpis
        BY <2>12, <3>2 DEF Report, BuildOverviewReport
      <4> QED
        BY <4>1 DEF ReconcileInv, ReportsReconcile, loaded
    <3> QED
      BY <3>1, <3>2
  <2>13. CASE Validate
    <3>1. /\ stage = "validate" /\ stage' \in {"validated", "refused_validate"} /\ UNCHANGED <<input, kpis>>
          /\ stage' = "refused_validate" => OverviewMismatches(loaded, bundle, paired, report) # {}
      BY <2>13 DEF Validate
    <3>2. stage' = "refused_validate" => ~OnOneClock
      BY <3>1, LastCheckAgrees
    <3>3. OnOneClock' <=> OnOneClock
      BY <3>1 DEF OnOneClock, loaded
    <3> QED
      BY <3>1, <3>2, <3>3 DEF ReconcileInv, ReportsReconcile
  <2> QED
    BY <2>2, <2>4, <2>5, <2>6, <2>7, <2>8, <2>9, <2>10, <2>11, <2>12, <2>13 DEF Next
<1> QED
  BY <1>1, <1>2, PTL DEF Spec

\* For every set of runs: what the KPIs add up, what the plan pairs anew and what is
\* read back of the trace agree, whenever the markers are on one clock.
THEOREM ReportsHold == Spec => []ReportsReconcile
<1>1. ReconcileInv => ReportsReconcile
  BY DEF ReconcileInv
<1> QED
  BY <1>1, ReconcileInvHolds, PTL

------------------------------------------------------------------------------
(* Samples in order, and order statistics.                                     *)

\* A proper subset of a finite set has fewer elements.
LEMMA Fewer ==
    ASSUME NEW T, IsFiniteSet(T), NEW S \in SUBSET T, NEW x \in T \ S
    PROVE  Cardinality(S) < Cardinality(T) /\ Cardinality(S) \in Nat /\ Cardinality(T) \in Nat
<1>1. IsFiniteSet(S) /\ Cardinality(S) <= Cardinality(T) /\ (Cardinality(S) = Cardinality(T) => S = T)
  BY FS_Subset
<1>2. Cardinality(S) \in Nat /\ Cardinality(T) \in Nat
  BY <1>1, FS_CardinalityType
<1> QED
  BY <1>1, <1>2

\* Elements with different numbers are in order in InOrderOf, each once.
LEMMA InOrderIs ==
    ASSUME NEW S, IsFiniteSet(S), NEW number, \A x \in S : number[x] \in Int,
           \A x, y \in S : number[x] = number[y] => x = y
    PROVE  LET s == InOrderOf(S, number)
           IN  /\ Cardinality(S) \in Nat /\ s \in Seq(S) /\ Len(s) = Cardinality(S)
               /\ DOMAIN s = 1..Cardinality(S)
               /\ \A i, j \in 1..Cardinality(S) : i < j => number[s[i]] < number[s[j]]
               /\ \A x \in S : \E i \in 1..Cardinality(S) : s[i] = x
<1> DEFINE n == Cardinality(S)
           below(x) == {y \in S : number[y] < number[x]}
           place == [x \in S |-> Cardinality(below(x)) + 1]
           s == InOrderOf(S, number)
<1>1. n \in Nat /\ IsFiniteSet(1..n) /\ Cardinality(1..n) = n
  <2>1. n \in Nat
    BY FS_CardinalityType
  <2>2. IsFiniteSet(1..n) /\ Cardinality(1..n) = IF 1 > n THEN 0 ELSE n - 1 + 1
    BY <2>1, FS_Interval
  <2> HIDE DEF n
  <2> QED
    BY <2>1, <2>2
<1>2. \A x, y \in S : number[x] < number[y] => place[x] < place[y]
  <2> TAKE x, y \in S
  <2> HAVE number[x] < number[y]
  <2>1. below(x) \subseteq below(y) /\ x \in below(y) \ below(x) /\ below(y) \subseteq S
    OBVIOUS
  <2>2. IsFiniteSet(below(y))
    BY <2>1, FS_Subset
  <2> HIDE DEF below
  <2>3. Cardinality(below(x)) < Cardinality(below(y)) /\ Cardinality(below(x)) \in Nat
           /\ Cardinality(below(y)) \in Nat
    BY <2>1, <2>2, Fewer
  <2> QED
    BY <2>3
<1>3. \A x \in S : place[x] \in 1..n
  <2> TAKE x \in S
  <2>1. below(x) \subseteq S /\ x \in S \ below(x)
    OBVIOUS
  <2> HIDE DEF below
  <2>2. Cardinality(below(x)) < n /\ Cardinality(below(x)) \in Nat
    BY <2>1, Fewer
  <2> HIDE DEF n
  <2> QED
    BY <1>1, <2>2
<1>4. \A x, y \in S : place[x] = place[y] => x = y
  <2> TAKE x, y \in S
  <2> HAVE place[x] = place[y]
  <2>1. ~(number[x] < number[y]) /\ ~(number[y] < number[x])
    <3> HIDE DEF place
    <3>1. place[x] \in Int /\ place[y] \in Int
      BY <1>1, <1>3
    <3> QED
      BY <1>2, <3>1
  <2> QED
    BY <2>1
<1>5. \A k \in 1..n : \E x \in S : place[x] = k
  <2>1. place \in [S -> 1..n]
    BY <1>3
  <2> HIDE DEF place
  <2>2. place \in Injection(S, 1..n)
    BY <1>4, <2>1 DEF Injection, IsInjective
  <2> HIDE DEF n
  <2>3. place \in Surjection(S, 1..n)
    BY <1>1, <2>2, FS_Injection DEF n
  <2> QED
    BY <2>3 DEF Surjection
<1>6. \A k \in 1..n : s[k] \in S /\ place[s[k]] = k
  <2> TAKE k \in 1..n
  <2>1. s[k] = CHOOSE x \in S : Cardinality(below(x)) = k - 1
    BY DEF InOrderOf
  <2>2. \A x \in S : place[x] = Cardinality(below(x)) + 1 /\ Cardinality(below(x)) \in Nat
    BY FS_Subset, FS_CardinalityType
  <2>3. \E x \in S : Cardinality(below(x)) = k - 1
    <3>1. PICK x \in S : place[x] = k
      BY <1>5
    <3>2. place[x] = Cardinality(below(x)) + 1 /\ Cardinality(below(x)) \in Nat
      BY <2>2
    <3> DEFINE c == Cardinality(below(x))
    <3> HIDE DEF place, c
    <3>3. c = k - 1
      BY <1>1, <3>1, <3>2 DEF c
    <3> QED
      BY <3>3 DEF c
  <2> HIDE DEF s
  <2>4. s[k] \in S /\ Cardinality(below(s[k])) = k - 1
    BY <2>1, <2>3
  <2> QED
    BY <1>1, <2>4
<1>7. DOMAIN s = 1..n /\ s = [k \in 1..n |-> s[k]]
  <2> DEFINE is(k) == CHOOSE x \in S : Cardinality({y \in S : number[y] < number[x]}) = k - 1
  <2>1. s = [k \in 1..n |-> is(k)]
    BY DEF InOrderOf
  <2> HIDE DEF s, is, n
  <2> QED
    BY <2>1
<1> HIDE DEF s, place
<1>8. s \in Seq(S) /\ Len(s) = n
  <2>1. s \in [1..n -> S]
    BY <1>6, <1>7
  <2> HIDE DEF n
  <2> QED
    BY <1>1, <2>1
<1>9. \A x \in S : \E i \in 1..n : s[i] = x
  BY <1>3, <1>4, <1>6
<1>10. \A i, j \in 1..n : i < j => number[s[i]] < number[s[j]]
  <2> TAKE i, j \in 1..n
  <2> HAVE i < j
  <2>1. s[i] \in S /\ s[j] \in S /\ place[s[i]] = i /\ place[s[j]] = j
    BY <1>6
  <2>2. number[s[i]] # number[s[j]] /\ ~(number[s[j]] < number[s[i]])
    BY <1>2, <2>1
  <2> QED
    BY <2>1, <2>2
<1> QED
  BY <1>1, <1>7, <1>8, <1>9, <1>10 DEF s

\* A sum of the same denominator compares as its numerators do.
LEMMA Compares ==
    ASSUME NEW v \in Fraction, NEW w \in Fraction, NEW D \in Nat \ {0}, NEW a \in Int, NEW b \in Int,
           Denotes(v, a, D), Denotes(w, b, D)
    PROVE  AtMost(v, w) <=> a <= b
<1> DEFINE p == v.n
           q == v.d
           r == w.n
           t == w.d
<1>1. p \in Int /\ r \in Int /\ q \in Nat \ {0} /\ t \in Nat \ {0}
  BY DEF Fraction
<1>2. p * D = a * q /\ r * D = b * t
  BY DEF Denotes
<1>3. AtMost(v, w) <=> p * t <= r * q
  BY DEF AtMost
<1> HIDE DEF p, q, r, t
<1>4. (p * t) * D = a * (q * t)
  <2>1. (p * t) * D = (p * D) * t
    BY <1>1
  <2>2. (a * q) * t = a * (q * t)
    BY <1>1
  <2> QED
    BY <1>2, <2>1, <2>2
<1>5. (r * q) * D = b * (q * t)
  <2>1. (r * q) * D = (r * D) * q
    BY <1>1
  <2>2. (b * t) * q = b * (q * t)
    BY <1>1
  <2> QED
    BY <1>2, <2>1, <2>2
<1> DEFINE x == p * t
           y == r * q
           z == q * t
<1>6. x \in Int /\ y \in Int /\ z \in Int /\ z > 0
  BY <1>1
<1>7. x * D = a * z /\ y * D = b * z
  BY <1>4, <1>5
<1> HIDE DEF x, y, z
<1>8. x <= y => a <= b
  <2> HAVE x <= y
  <2>1. x * D <= y * D
    BY <1>6
  <2>2. a * z <= b * z
    BY <1>7, <2>1
  <2>3. ASSUME a > b PROVE FALSE
    <3>1. a * z > b * z
      BY <1>6, <2>3
    <3> QED
      BY <1>6, <2>2, <3>1
  <2> QED
    BY <2>3
<1>9. a <= b => x <= y
  <2> HAVE a <= b
  <2>1. a * z <= b * z
    BY <1>6
  <2>2. x * D <= y * D
    BY <1>7, <2>1
  <2>3. ASSUME x > y PROVE FALSE
    <3>1. x * D > y * D
      BY <1>6, <2>3
    <3> QED
      BY <1>6, <2>2, <3>1
  <2> QED
    BY <1>6, <2>3
<1> QED
  BY <1>3, <1>8, <1>9 DEF x, y

\* Where the numbers are less than one, and where they are at most that.
Under(A, a) == {i \in DOMAIN A : A[i] < a}
UpTo(A, a) == {i \in DOMAIN A : A[i] <= a}

\* Among finitely many numbers, counted from below, there is a k-th.
LEMMA KthExists ==
    ASSUME NEW P, IsFiniteSet(P), NEW A \in [P -> Int], NEW k \in 1..Cardinality(P)
    PROVE  \E j \in P : Cardinality(Under(A, A[j])) < k /\ k <= Cardinality(UpTo(A, A[j]))
<1> DEFINE upTo(a) == {i \in P : A[i] <= a}
           under(a) == {i \in P : A[i] < a}
           R == {A[i] : i \in P}
           enough == {a \in R : k <= Cardinality(upTo(a))}
<1>1. /\ Cardinality(P) \in Nat /\ k \in Nat /\ k >= 1 /\ k <= Cardinality(P)
      /\ \A S \in SUBSET P : IsFiniteSet(S) /\ Cardinality(S) \in Nat
  <2>1. Cardinality(P) \in Nat /\ \A S \in SUBSET P : IsFiniteSet(S) /\ Cardinality(S) \in Nat
    BY FS_Subset, FS_CardinalityType
  <2> QED
    BY <2>1
<1>2. IsFiniteSet(R) /\ R \subseteq Int
  BY ValuesAreFinite
<1>3. P # {}
  BY <1>1, FS_EmptySet
<1>4. enough # {}
  <2>1. PICK a \in R : \A b \in R : a >= b
    BY <1>2, <1>3, HasGreatest
  <2>2. upTo(a) = P
    <3>1. \A i \in P : A[i] \in R /\ A[i] \in Int
      OBVIOUS
    <3> QED
      BY <1>2, <2>1, <3>1
  <2> QED
    BY <1>1, <2>2
<1>5. PICK a \in enough : \A b \in enough : a <= b
  <2>1. enough \subseteq R
    OBVIOUS
  <2>2. IsFiniteSet(enough) /\ enough \subseteq Int
    BY <1>2, <2>1, FS_Subset
  <2> HIDE DEF enough
  <2> QED
    BY <1>4, <2>2, HasLeast
<1>6. a \in R /\ a \in Int /\ k <= Cardinality(upTo(a))
  BY <1>2, <1>5
<1>7. PICK j \in P : A[j] = a
  BY <1>6
<1>8. Cardinality(under(a)) < k
  <2>1. CASE under(a) = {}
    BY <1>1, <2>1, FS_EmptySet
  <2>2. CASE under(a) # {}
    <3> DEFINE U == {A[i] : i \in under(a)}
    <3>1. IsFiniteSet(under(a))
      BY <1>1
    <3>2. IsFiniteSet(U) /\ U # {} /\ U \subseteq Int
      <4> HIDE DEF under
      <4>1. IsFiniteSet(U) /\ U # {}
        BY <2>2, <3>1, ValuesAreFinite
      <4>2. U \subseteq Int
        BY DEF under
      <4> QED
        BY <4>1, <4>2
    <3>3. PICK b \in U : \A c \in U : b >= c
      BY <3>2, HasGreatest
    <3>4. b \in R /\ b < a /\ b \in Int
      BY <1>6, <3>2, <3>3
    <3>5. upTo(b) = under(a)
      <4>1. \A i \in P : A[i] <= b => A[i] < a
        BY <1>6, <3>4
      <4>2. \A i \in P : A[i] < a => A[i] <= b
        BY <3>3, <3>4
      <4> QED
        BY <4>1, <4>2
    <3>6. b \notin enough
      BY <1>5, <1>6, <3>4
    <3>7. ~(k <= Cardinality(upTo(b)))
      BY <3>4, <3>6
    <3> QED
      BY <1>1, <3>5, <3>7
  <2> QED
    BY <2>1, <2>2
<1>9. upTo(a) = UpTo(A, A[j]) /\ under(a) = Under(A, A[j])
  BY <1>7 DEF UpTo, Under
<1> QED
  BY <1>6, <1>7, <1>8, <1>9

\* Values in order: each is one of them, none is less than the one before, and the
\* first and the last bound them all.
LEMMA OrderedIs ==
    ASSUME NEW values, IsFiniteSet(DOMAIN values), DOMAIN values # {},
           \A i \in DOMAIN values : values[i] \in Fraction,
           NEW D \in Nat \ {0}, NEW A \in [DOMAIN values -> Int],
           \A i \in DOMAIN values : Denotes(values[i], A[i], D)
    PROVE  LET o == Ordered(values)
               n == Count(values)
           IN  /\ n \in Nat \ {0}
               /\ \A k \in 1..n : o[k] \in {values[i] : i \in DOMAIN values}
               /\ \E B \in [1..n -> Int] :
                     /\ \A k \in 1..n : Denotes(o[k], B[k], D)
                     /\ \A k, l \in 1..n : k <= l => B[k] <= B[l]
                     /\ \A i \in DOMAIN values : B[1] <= A[i] /\ A[i] <= B[n]
<1> DEFINE P == DOMAIN values
           o == Ordered(values)
           n == Count(values)
           R == {values[i] : i \in P}
           below(v) == Cardinality({i \in P : ~AtMost(v, values[i])})
           upTo(v) == Cardinality({i \in P : AtMost(values[i], v)})
           fits(k, v) == below(v) < k /\ k <= upTo(v)
           at == [k \in 1..n |-> CHOOSE i \in P : values[i] = o[k]]
           B == [k \in 1..n |-> A[at[k]]]
<1>1. n \in Nat \ {0}
  BY FS_CardinalityType, FS_EmptySet DEF Count
<1>2. \A i, j \in P : AtMost(values[i], values[j]) <=> A[i] <= A[j]
  BY Compares
<1>3. \A j \in P : /\ below(values[j]) = Cardinality(Under(A, A[j]))
                   /\ upTo(values[j]) = Cardinality(UpTo(A, A[j]))
  <2> TAKE j \in P
  <2>1. \A i \in P : (~AtMost(values[j], values[i])) <=> A[i] < A[j]
    BY <1>2
  <2>2. {i \in P : ~AtMost(values[j], values[i])} = Under(A, A[j])
    BY <2>1 DEF Under
  <2>3. {i \in P : AtMost(values[i], values[j])} = UpTo(A, A[j])
    BY <1>2 DEF UpTo
  <2> QED
    BY <2>2, <2>3
<1>4. \A k \in 1..n : \E v \in R : fits(k, v)
  <2> TAKE k \in 1..n
  <2>1. \E j \in P : Cardinality(Under(A, A[j])) < k /\ k <= Cardinality(UpTo(A, A[j]))
    <3>1. k \in 1..Cardinality(P) /\ IsFiniteSet(P) /\ A \in [P -> Int]
      BY DEF Count
    <3> HIDE DEF P
    <3> QED
      BY <3>1, KthExists
  <2> QED
    BY <1>3, <2>1
<1>5. \A k \in 1..n : o[k] = CHOOSE v \in R : fits(k, v)
  BY DEF Ordered
<1> HIDE DEF o, n
<1>6. \A k \in 1..n : o[k] \in R /\ fits(k, o[k])
  <2> HIDE DEF fits, R
  <2> QED
    BY <1>4, <1>5
<1>7. \A k \in 1..n : at[k] \in P /\ values[at[k]] = o[k]
  <2> TAKE k \in 1..n
  <2>1. \E i \in P : values[i] = o[k]
    BY <1>6
  <2> QED
    BY <2>1
<1> HIDE DEF at
<1>8. B \in [1..n -> Int] /\ \A k \in 1..n : B[k] = A[at[k]] /\ Denotes(o[k], B[k], D)
  BY <1>7
<1> DEFINE less(k) == Under(A, B[k])
           most(k) == UpTo(A, B[k])
<1>9. \A k \in 1..n : /\ Cardinality(less(k)) < k /\ k <= Cardinality(most(k))
                      /\ Cardinality(less(k)) \in Nat /\ Cardinality(most(k)) \in Nat
                      /\ IsFiniteSet(less(k)) /\ IsFiniteSet(most(k))
  <2> TAKE k \in 1..n
  <2>1. fits(k, values[at[k]])
    BY <1>6, <1>7
  <2>2. Cardinality(less(k)) < k /\ k <= Cardinality(most(k))
    BY <1>3, <1>7, <1>8, <2>1
  <2>3. less(k) \in SUBSET P /\ most(k) \in SUBSET P
    BY DEF Under, UpTo
  <2> HIDE DEF less, most
  <2> QED
    BY <2>2, <2>3, FS_Subset, FS_CardinalityType
<1>10. \A k, l \in 1..n : k <= l => B[k] <= B[l]
  <2> TAKE k, l \in 1..n
  <2> HAVE k <= l
  <2>1. ASSUME B[l] < B[k] PROVE FALSE
    <3>1. B[k] \in Int /\ B[l] \in Int /\ k \in Int /\ l \in Int
      BY <1>1, <1>8
    <3>2. most(l) \subseteq less(k)
      BY <2>1, <3>1 DEF Under, UpTo
    <3> HIDE DEF less, most, B
    <3>3. Cardinality(most(l)) <= Cardinality(less(k))
      BY <1>9, <3>2, FS_Subset
    <3> QED
      BY <1>9, <3>1, <3>3
  <2> HIDE DEF B
  <2>2. B[k] \in Int /\ B[l] \in Int
    BY <1>8
  <2> QED
    BY <2>1, <2>2
<1>11. \A i \in P : B[1] <= A[i] /\ A[i] <= B[n]
  <2>0. 1 \in 1..n /\ n \in 1..n
    BY <1>1
  <2>1. less(1) = {}
    <3> HIDE DEF less, B
    <3>2. Cardinality(less(1)) < 1 /\ Cardinality(less(1)) \in Nat /\ IsFiniteSet(less(1))
      BY <1>9, <2>0
    <3>1. Cardinality(less(1)) = 0 /\ IsFiniteSet(less(1))
      BY <3>2
    <3> QED
      BY <3>1, FS_EmptySet
  <2>2. most(n) = P
    <3>1. most(n) \subseteq P
      BY DEF UpTo
    <3> HIDE DEF most, B
    <3>2. Cardinality(P) = n
      BY DEF n, Count
    <3>3. n <= Cardinality(most(n)) /\ Cardinality(most(n)) \in Nat /\ n \in Nat
      BY <1>1, <1>9, <2>0
    <3>4. Cardinality(most(n)) <= Cardinality(P) /\ (Cardinality(most(n)) = Cardinality(P) => most(n) = P)
      BY <3>1, FS_Subset
    <3> QED
      BY <3>2, <3>3, <3>4
  <2> TAKE i \in P
  <2>3. B[1] \in Int /\ B[n] \in Int
    BY <1>8, <2>0
  <2>4. ~(A[i] < B[1]) /\ A[i] <= B[n]
    BY <2>1, <2>2 DEF Under, UpTo
  <2> QED
    BY <2>3, <2>4
<1> HIDE DEF B
<1>12. \A k \in 1..n : o[k] \in R
  BY <1>6
<1> QED
  BY <1>1, <1>8, <1>10, <1>11, <1>12 DEF o, n

------------------------------------------------------------------------------
(* Percentiles, and bounds of means.                                           *)

\* A factor that is not zero can be taken off both sides.
LEMMA Cancel == \A x, y \in Int : \A b \in Int \ {0} : x * b = y * b => x = y
<1> TAKE x, y \in Int
<1> TAKE b \in Int \ {0}
<1> HAVE x * b = y * b
<1>1. (x - y) * b = 0
  BY Z3
<1>2. x - y = 0
  BY <1>1, Z3
<1> QED
  BY <1>2

\* What denotes a fraction denotes every fraction equal to it.
LEMMA DenotesSame ==
    ASSUME NEW f \in Fraction, NEW a \in Int, NEW b \in Nat \ {0}, NEW c \in Int, NEW e \in Nat \ {0},
           Denotes(f, a, b), a * e = c * b
    PROVE  Denotes(f, c, e)
<1> DEFINE n == f.n
           d == f.d
<1>1. n \in Int /\ d \in Nat \ {0} /\ n * b = a * d
  BY DEF Fraction, Denotes
<1> HIDE DEF n, d
<1>2. (n * e) * b = (c * d) * b
  <2>1. (n * e) * b = (n * b) * e
    BY <1>1
  <2>2. (a * d) * e = (a * e) * d
    BY <1>1
  <2>3. (c * b) * d = (c * d) * b
    BY <1>1
  <2> QED
    BY <1>1, <2>1, <2>2, <2>3
<1> DEFINE x == n * e
           y == c * d
<1>3. x \in Int /\ y \in Int /\ x * b = y * b
  BY <1>1, <1>2
<1> HIDE DEF x, y
<1>4. x = y
  BY <1>3, Cancel
<1> QED
  BY <1>4 DEF x, y, n, d, Denotes

\* Between two numbers of B, a hundredth of the way from the one to the other for each of
\* the rest.
Between100(B, p) ==
    100 * B[p \div 100 + 1] + (B[(p + 99) \div 100 + 1] - B[p \div 100 + 1]) * (p % 100)

\* What lies between, of numbers that do not decrease, does not decrease.
LEMMA BetweenInOrder ==
    ASSUME NEW n \in Nat \ {0}, NEW B \in [1..n -> Int],
           \A k, l \in 1..n : k <= l => B[k] <= B[l],
           NEW p \in Nat, NEW q \in Nat, p <= q, q <= 100 * (n - 1)
    PROVE  /\ Between100(B, p) \in Int /\ Between100(B, q) \in Int
           /\ 100 * B[1] <= Between100(B, p) /\ Between100(B, p) <= Between100(B, q)
           /\ Between100(B, q) <= 100 * B[n]
<1> DEFINE low(m) == m \div 100 + 1
           high(m) == (m + 99) \div 100 + 1
<1>1. ASSUME NEW m \in Nat, m <= 100 * (n - 1)
      PROVE  /\ low(m) \in 1..n /\ high(m) \in 1..n /\ m % 100 \in 0..99
             /\ low(m) <= high(m) /\ high(m) <= low(m) + 1
             /\ m % 100 = 0 => high(m) = low(m)
             /\ m = 100 * (low(m) - 1) + (m % 100)
  <2> DEFINE d == m \div 100
             r == m % 100
             e == (m + 99) \div 100
             t == (m + 99) % 100
  <2>1. /\ d \in Int /\ r \in Int /\ e \in Int /\ t \in Int
        /\ m = 100 * d + r /\ r \in 0..99 /\ m + 99 = 100 * e + t /\ t \in 0..99
    <3>1. d \in Int /\ r \in Int /\ m = 100 * d + r /\ r \in 0..99
      OBVIOUS
    <3>2. e \in Int /\ t \in Int /\ m + 99 = 100 * e + t /\ t \in 0..99
      OBVIOUS
    <3> QED
      BY <3>1, <3>2
  <2>2. low(m) = d + 1 /\ high(m) = e + 1
    OBVIOUS
  <2> HIDE DEF d, r, e, t
  <2>3. d >= 0 /\ d <= n - 1 /\ e >= 0 /\ e <= n - 1 /\ d <= e /\ e <= d + 1 /\ (r = 0 => e = d)
    BY <1>1, <2>1
  <2>4. /\ d + 1 \in 1..n /\ e + 1 \in 1..n /\ r \in 0..99
        /\ d + 1 <= e + 1 /\ e + 1 <= (d + 1) + 1
        /\ r = 0 => e + 1 = d + 1
        /\ m = 100 * ((d + 1) - 1) + r
    BY <2>1, <2>3
  <2>5. m % 100 = r
    BY DEF r
  <2> HIDE DEF low, high
  <2> QED
    BY <2>2, <2>4, <2>5
<1> HIDE DEF low, high
<1>2. ASSUME NEW m \in Nat, m <= 100 * (n - 1)
      PROVE  /\ Between100(B, m) = 100 * B[low(m)] + (B[high(m)] - B[low(m)]) * (m % 100)
             /\ Between100(B, m) \in Int
             /\ 100 * B[low(m)] <= Between100(B, m) /\ Between100(B, m) <= 100 * B[high(m)]
  <2>1. Between100(B, m) = 100 * B[low(m)] + (B[high(m)] - B[low(m)]) * (m % 100)
    BY DEF Between100, low, high
  <2> DEFINE a == B[low(m)]
             b == B[high(m)]
             r == m % 100
  <2>2. a \in Int /\ b \in Int /\ r \in 0..99 /\ a <= b
    BY <1>1, <1>2
  <2> HIDE DEF a, b, r
  <2>3. (b - a) * r >= 0 /\ (b - a) * r <= (b - a) * 100 /\ (b - a) * r \in Int
    BY <2>2
  <2>4. 100 * a + (b - a) * r \in Int /\ 100 * a <= 100 * a + (b - a) * r
           /\ 100 * a + (b - a) * r <= 100 * b
    BY <2>2, <2>3
  <2> QED
    BY <2>1, <2>4 DEF a, b, r
<1>3. p <= 100 * (n - 1)
  OBVIOUS
<1>4. Between100(B, p) <= Between100(B, q)
  <2>1. CASE low(p) < low(q)
    <3>1. high(p) <= low(q)
      BY <1>1, <1>3, <2>1
    <3>2. B[high(p)] <= B[low(q)] /\ B[high(p)] \in Int /\ B[low(q)] \in Int
      BY <1>1, <1>3, <3>1
    <3> QED
      BY <1>2, <1>3, <3>2
  <2>2. CASE low(p) = low(q)
    <3>1. p % 100 <= q % 100
      <4> DEFINE r == p % 100
                 s == q % 100
      <4>1. p = 100 * (low(p) - 1) + r /\ r \in 0..99 /\ low(p) \in 1..n
        BY <1>1, <1>3
      <4>3. q = 100 * (low(q) - 1) + s /\ s \in 0..99 /\ low(q) \in 1..n
        BY <1>1
      <4> HIDE DEF r, s
      <4>2. r <= s
        BY <2>2, <4>1, <4>3
      <4> QED
        BY <4>2 DEF r, s
    <3>2. CASE p % 100 = 0
      <4>1. Between100(B, p) <= 100 * B[high(p)] /\ high(p) = low(q)
        BY <1>1, <1>2, <1>3, <2>2, <3>2
      <4>2. 100 * B[low(q)] <= Between100(B, q) /\ Between100(B, q) \in Int /\ Between100(B, p) \in Int
        BY <1>2, <1>3
      <4>3. B[low(q)] \in Int
        BY <1>1
      <4> QED
        BY <4>1, <4>2, <4>3
    <3>3. CASE p % 100 # 0
      <4>1. high(p) = high(q)
        <5>1. q % 100 # 0
          BY <1>1, <1>3, <3>1, <3>3
        <5> QED
          BY <1>3, <2>2, <3>3, <5>1 DEF low, high
      <4> DEFINE a == B[low(q)]
                 b == B[high(q)]
                 r == p % 100
                 s == q % 100
      <4>2. a \in Int /\ b \in Int /\ a <= b /\ r \in Int /\ s \in Int /\ r <= s
        BY <1>1, <1>3, <3>1
      <4>3. Between100(B, p) = 100 * a + (b - a) * r /\ Between100(B, q) = 100 * a + (b - a) * s
        BY <1>2, <1>3, <2>2, <4>1
      <4> HIDE DEF a, b, r, s
      <4>4. (b - a) * r <= (b - a) * s /\ (b - a) * r \in Int /\ (b - a) * s \in Int
        BY <4>2
      <4> QED
        BY <4>2, <4>3, <4>4
    <3> QED
      BY <3>2, <3>3
  <2>3. ~(low(q) < low(p))
    BY <1>3 DEF low
  <2>4. low(p) \in Int /\ low(q) \in Int
    BY <1>1, <1>3
  <2> QED
    BY <2>1, <2>2, <2>3, <2>4
<1>5. 100 * B[1] <= 100 * B[low(p)] /\ B[low(p)] \in Int /\ B[1] \in Int
  <2>1. 1 \in 1..n /\ low(p) \in 1..n /\ 1 <= low(p)
    BY <1>1, <1>3
  <2> QED
    BY <2>1
<1>6. 100 * B[high(q)] <= 100 * B[n] /\ B[high(q)] \in Int /\ B[n] \in Int
  <2>1. n \in 1..n /\ high(q) \in 1..n /\ high(q) <= n
    BY <1>1
  <2> QED
    BY <2>1
<1>7. /\ Between100(B, p) \in Int /\ Between100(B, q) \in Int
      /\ 100 * B[low(p)] <= Between100(B, p) /\ Between100(B, q) <= 100 * B[high(q)]
  BY <1>2, <1>3
<1> DEFINE x == Between100(B, p)
           y == Between100(B, q)
           first == B[1]
           last == B[n]
           l == B[low(p)]
           h == B[high(q)]
<1>8. /\ x \in Int /\ y \in Int /\ first \in Int /\ last \in Int /\ l \in Int /\ h \in Int
      /\ 100 * first <= 100 * l /\ 100 * l <= x /\ x <= y /\ y <= 100 * h /\ 100 * h <= 100 * last
  BY <1>4, <1>5, <1>6, <1>7
<1> HIDE DEF x, y, first, last, l, h
<1>9. 100 * first <= x /\ y <= 100 * last
  BY <1>8
<1> QED
  BY <1>7, <1>8, <1>9 DEF x, y, first, last

\* A fraction of the way from one value to another, over a common denominator.
LEMMA GapIs ==
    ASSUME NEW v \in Fraction, NEW w \in Fraction, NEW D \in Nat \ {0}, NEW a \in Int, NEW b \in Int,
           Denotes(v, a, D), Denotes(w, b, D), NEW r \in Nat
    PROVE  LET gap == [n |-> w.n * v.d - v.n * w.d, d |-> w.d * v.d]
               p == Plus(v, Over(gap.n * r, gap.d * 100))
           IN  p \in Fraction /\ Denotes(p, 100 * a + (b - a) * r, 100 * D)
<1> DEFINE vn == v.n
           vd == v.d
           wn == w.n
           wd == w.d
           x == (wn * vd - vn * wd) * r
           y == (wd * vd) * 100
           z == 100 * D
<1>1. /\ vn \in Int /\ wn \in Int /\ vd \in Nat \ {0} /\ wd \in Nat \ {0}
      /\ vn * D = a * vd /\ wn * D = b * wd
  BY DEF Fraction, Denotes
<1> HIDE DEF vn, vd, wn, wd
<1>2. x \in Int /\ y \in Nat \ {0} /\ z \in Nat \ {0} /\ (b - a) * r \in Int /\ 100 * a \in Int
  <2>1. wd * vd \in Nat \ {0}
    BY <1>1
  <2> QED
    BY <1>1, <2>1
<1>3. x * z = ((b - a) * r) * y
  <2> DEFINE m == wd * vd
             g == wn * vd - vn * wd
  <2>1. m \in Int /\ g \in Int
    BY <1>1
  <2>2. g * D = (b - a) * m
    <3>1. (wn * vd) * D = (wn * D) * vd /\ (vn * wd) * D = (vn * D) * wd
      BY <1>1
    <3>2. (b * wd) * vd = b * (wd * vd) /\ (a * vd) * wd = a * (wd * vd)
      BY <1>1
    <3>3. g * D = (wn * vd) * D - (vn * wd) * D
      BY <1>1
    <3>4. (b - a) * m = b * m - a * m
      BY <2>1
    <3> QED
      BY <1>1, <3>1, <3>2, <3>3, <3>4
  <2> HIDE DEF m, g
  <2>3. (g * r) * (100 * D) = 100 * ((g * D) * r)
    BY <2>1
  <2>4. ((b - a) * r) * (m * 100) = 100 * (((b - a) * m) * r)
    BY <2>1
  <2> QED
    BY <2>2, <2>3, <2>4 DEF m, g
<1>4. Over(x, y) \in Fraction /\ Denotes(Over(x, y), x, y)
  <2> HIDE DEF x, y
  <2> QED
    BY <1>2, OverIs
<1>5. Denotes(Over(x, y), (b - a) * r, z)
  <2> HIDE DEF x, y, z
  <2> QED
    BY <1>2, <1>3, <1>4, DenotesSame
<1>6. Denotes(v, 100 * a, z)
  <2>1. vn * z = (100 * a) * vd
    BY <1>1
  <2> QED
    BY <2>1 DEF Denotes, vn, vd
<1>7. /\ Plus(v, Over(x, y)) \in Fraction
      /\ Denotes(Plus(v, Over(x, y)), 100 * a + (b - a) * r, z)
  <2> HIDE DEF x, y, z
  <2> QED
    BY <1>2, <1>4, <1>5, <1>6, PlusIs
<1> QED
  BY <1>7 DEF x, y, z, vn, vd, wn, wd

\* The percentile is where the values in order say.
LEMMA PercentileIs ==
    ASSUME NEW values, NEW D \in Nat \ {0}, Count(values) \in Nat \ {0},
           NEW B \in [1..Count(values) -> Int],
           \A k \in 1..Count(values) :
              Ordered(values)[k] \in Fraction /\ Denotes(Ordered(values)[k], B[k], D),
           NEW percent \in 0..100
    PROVE  /\ PercentileR7(values, percent) \in Fraction
           /\ Denotes(PercentileR7(values, percent),
                      Between100(B, (Count(values) - 1) * percent), 100 * D)
<1> DEFINE n == Count(values)
           o == Ordered(values)
           p == (n - 1) * percent
           l == p \div 100 + 1
           h == (p + 99) \div 100 + 1
           r == p % 100
<1>1. p \in Nat /\ p <= 100 * (n - 1)
  <2> DEFINE m == n - 1
  <2>1. m \in Nat
    OBVIOUS
  <2> HIDE DEF m
  <2>2. m * percent \in Nat /\ m * percent <= 100 * m
    BY <2>1
  <2> QED
    BY <2>2 DEF m
<1>2. l \in 1..n /\ h \in 1..n /\ r \in Nat
  <2> HIDE DEF p, n
  <2>1. n \in Nat \ {0}
    BY DEF n
  <2>2. p \div 100 \in Nat /\ p \div 100 <= n - 1 /\ (p + 99) \div 100 \in Nat
           /\ (p + 99) \div 100 <= n - 1 /\ r \in Nat
    BY <1>1, <2>1
  <2> QED
    BY <2>1, <2>2
<1>3. /\ o[l] \in Fraction /\ o[h] \in Fraction /\ Denotes(o[l], B[l], D) /\ Denotes(o[h], B[h], D)
      /\ B[l] \in Int /\ B[h] \in Int
  <2> HIDE DEF l, h
  <2> QED
    BY <1>2
<1>4. PercentileR7(values, percent) =
         LET gap == [n |-> o[h].n * o[l].d - o[l].n * o[h].d, d |-> o[h].d * o[l].d]
         IN  Plus(o[l], Over(gap.n * r, gap.d * 100))
  BY DEF PercentileR7
<1>5. Between100(B, p) = 100 * B[l] + (B[h] - B[l]) * r
  BY DEF Between100
<1> HIDE DEF o, l, h, r, p
<1>6. /\ PercentileR7(values, percent) \in Fraction
      /\ Denotes(PercentileR7(values, percent), 100 * B[l] + (B[h] - B[l]) * r, 100 * D)
  <2> DEFINE v == o[l]
             w == o[h]
             a == B[l]
             b == B[h]
             gap == [n |-> w.n * v.d - v.n * w.d, d |-> w.d * v.d]
  <2>1. v \in Fraction /\ w \in Fraction /\ a \in Int /\ b \in Int
           /\ Denotes(v, a, D) /\ Denotes(w, b, D) /\ r \in Nat
    BY <1>2, <1>3
  <2>2. PercentileR7(values, percent) = Plus(v, Over(gap.n * r, gap.d * 100))
    BY <1>4
  <2> HIDE DEF v, w, a, b
  <2>3. /\ Plus(v, Over(gap.n * r, gap.d * 100)) \in Fraction
        /\ Denotes(Plus(v, Over(gap.n * r, gap.d * 100)), 100 * a + (b - a) * r, 100 * D)
    BY <2>1, GapIs
  <2> QED
    BY <2>2, <2>3 DEF a, b
<1> QED
  BY <1>5, <1>6 DEF p

\* The statistics of values that are there: the smallest and the largest bound them, and
\* the percentiles are in order between the two.
LEMMA StatisticsIs ==
    ASSUME NEW values, IsFiniteSet(DOMAIN values), DOMAIN values # {},
           NEW D \in Nat \ {0}, NEW A \in [DOMAIN values -> Int],
           \A i \in DOMAIN values : values[i] \in Fraction /\ Denotes(values[i], A[i], D),
           NEW mean, NEW weighted
    PROVE  LET s == Statistics(values, mean, weighted)
           IN  /\ s.min \in Fraction /\ s.max \in Fraction /\ s.mean = mean /\ s.weighted = weighted
               /\ InOrder(s)
               /\ \E low \in Int, high \in Int :
                     /\ Denotes(s.min, low, D) /\ Denotes(s.max, high, D)
                     /\ \A i \in DOMAIN values : low <= A[i] /\ A[i] <= high
<1> DEFINE n == Count(values)
           o == Ordered(values)
           E == 100 * D
           s == Statistics(values, mean, weighted)
<1>1. n \in Nat \ {0} /\ \A k \in 1..n : o[k] \in {values[i] : i \in DOMAIN values}
  BY OrderedIs
<1>2. PICK B \in [1..n -> Int] :
        /\ \A k \in 1..n : Denotes(o[k], B[k], D)
        /\ \A k, l \in 1..n : k <= l => B[k] <= B[l]
        /\ \A i \in DOMAIN values : B[1] <= A[i] /\ A[i] <= B[n]
  BY OrderedIs
<1>3. \A k \in 1..n : o[k] \in Fraction
  BY <1>1
<1>4. /\ s.min = o[1] /\ s.max = o[n] /\ s.p50 = PercentileR7(values, 50)
      /\ s.p95 = PercentileR7(values, 95) /\ s.mean = mean /\ s.weighted = weighted
  BY DEF Statistics
<1> HIDE DEF s, o, n
<1>5. 1 \in 1..n /\ n \in 1..n /\ E \in Nat \ {0}
  BY <1>1
<1> DEFINE f == (n - 1) * 50
           t == (n - 1) * 95
<1>6. f \in Nat /\ t \in Nat /\ f <= t /\ t <= 100 * (n - 1)
  BY <1>1
<1> HIDE DEF f, t
<1>7. /\ Between100(B, f) \in Int /\ Between100(B, t) \in Int
      /\ 100 * B[1] <= Between100(B, f) /\ Between100(B, f) <= Between100(B, t)
      /\ Between100(B, t) <= 100 * B[n]
  BY <1>1, <1>2, <1>6, BetweenInOrder
<1>8. /\ s.p50 \in Fraction /\ Denotes(s.p50, Between100(B, f), E)
      /\ s.p95 \in Fraction /\ Denotes(s.p95, Between100(B, t), E)
  <2>1. 50 \in 0..100 /\ 95 \in 0..100
    OBVIOUS
  <2>2. /\ Count(values) \in Nat \ {0} /\ B \in [1..Count(values) -> Int]
        /\ \A k \in 1..Count(values) :
              Ordered(values)[k] \in Fraction /\ Denotes(Ordered(values)[k], B[k], D)
    BY <1>1, <1>2, <1>3 DEF o, n
  <2>3. /\ PercentileR7(values, 50) \in Fraction
        /\ Denotes(PercentileR7(values, 50), Between100(B, (Count(values) - 1) * 50), 100 * D)
    BY <2>1, <2>2, PercentileIs
  <2>4. /\ PercentileR7(values, 95) \in Fraction
        /\ Denotes(PercentileR7(values, 95), Between100(B, (Count(values) - 1) * 95), 100 * D)
    BY <2>1, <2>2, PercentileIs
  <2> QED
    BY <1>4, <2>3, <2>4 DEF f, t, n
<1>9. /\ o[1] \in Fraction /\ o[n] \in Fraction /\ B[1] \in Int /\ B[n] \in Int
      /\ Denotes(o[1], B[1], D) /\ Denotes(o[n], B[n], D)
  BY <1>2, <1>3, <1>5
<1>10. /\ Denotes(o[1], 100 * B[1], E) /\ Denotes(o[n], 100 * B[n], E)
       /\ 100 * B[1] \in Int /\ 100 * B[n] \in Int
  <2>1. B[1] * E = (100 * B[1]) * D /\ B[n] * E = (100 * B[n]) * D
    BY <1>9
  <2> HIDE DEF E
  <2>2. 100 * B[1] \in Int /\ 100 * B[n] \in Int
    BY <1>9
  <2> QED
    BY <1>5, <1>9, <2>1, <2>2, DenotesSame
<1>11. InOrder(s)
  <2>1. AtMost(o[1], s.p50) /\ AtMost(s.p50, s.p95) /\ AtMost(s.p95, o[n])
    <3> HIDE DEF E
    <3>1. AtMost(o[1], s.p50)
      BY <1>5, <1>7, <1>8, <1>9, <1>10, Compares
    <3>2. AtMost(s.p50, s.p95)
      BY <1>5, <1>7, <1>8, Compares
    <3>3. AtMost(s.p95, o[n])
      BY <1>5, <1>7, <1>8, <1>9, <1>10, Compares
    <3> QED
      BY <3>1, <3>2, <3>3
  <2> QED
    BY <1>4, <2>1 DEF InOrder
<1>12. /\ s.min \in Fraction /\ s.max \in Fraction /\ s.mean = mean /\ s.weighted = weighted
       /\ \E low \in Int, high \in Int :
             /\ Denotes(s.min, low, D) /\ Denotes(s.max, high, D)
             /\ \A i \in DOMAIN values : low <= A[i] /\ A[i] <= high
  BY <1>2, <1>4, <1>9
<1> QED
  BY <1>11, <1>12 DEF s

\* A sum scales with its numbers.
LEMMA SigmaScale ==
    ASSUME NEW g, NEW S, Summable(g, S), NEW c \in Int, NEW h, \A x \in S : h[x] = c * g[x]
    PROVE  Sigma(h, S) = c * Sigma(g, S) /\ Summable(h, S)
<1> DEFINE F == {T \in SUBSET S : Sigma(h, T) = c * Sigma(g, T)}
<1>1. IsFiniteSet(S) /\ \A x \in S : g[x] \in Int /\ h[x] \in Int
  BY DEF Summable
<1>2. {} \in F
  BY SigmaEmpty
<1>3. ASSUME NEW T \in SUBSET S, NEW x \in S \ T, T \in F
      PROVE  T \cup {x} \in F
  <2>1. Summable(g, T \cup {x}) /\ Summable(h, T \cup {x}) /\ Summable(g, T)
    BY <1>1, FS_Subset DEF Summable
  <2>2. Sigma(h, T \cup {x}) = Sigma(h, T) + h[x] /\ Sigma(g, T \cup {x}) = Sigma(g, T) + g[x]
    BY <2>1, SigmaAdd
  <2>3. Sigma(h, T) = c * Sigma(g, T) /\ Sigma(g, T) \in Int /\ h[x] = c * g[x] /\ g[x] \in Int
    BY <1>1, <1>3, <2>1, SigmaInt
  <2> QED
    BY <2>2, <2>3
<1>4. S \in F
  <2> HIDE DEF F
  <2> QED
    BY <1>1, <1>2, <1>3, SetInduction
<1> QED
  BY <1>1, <1>4 DEF Summable

\* A sum of larger numbers is larger.
LEMMA SigmaMonotone ==
    ASSUME NEW f, NEW g, NEW S, Summable(f, S), Summable(g, S), \A x \in S : f[x] <= g[x]
    PROVE  Sigma(f, S) <= Sigma(g, S)
<1> DEFINE F == {T \in SUBSET S : Sigma(f, T) <= Sigma(g, T)}
<1>1. IsFiniteSet(S) /\ \A x \in S : g[x] \in Int /\ f[x] \in Int
  BY DEF Summable
<1>2. {} \in F
  BY SigmaEmpty
<1>3. ASSUME NEW T \in SUBSET S, NEW x \in S \ T, T \in F
      PROVE  T \cup {x} \in F
  <2>1. /\ Summable(g, T \cup {x}) /\ Summable(f, T \cup {x}) /\ Summable(g, T) /\ Summable(f, T)
    BY <1>1, FS_Subset DEF Summable
  <2>2. Sigma(f, T \cup {x}) = Sigma(f, T) + f[x] /\ Sigma(g, T \cup {x}) = Sigma(g, T) + g[x]
    BY <2>1, SigmaAdd
  <2>3. Sigma(f, T) <= Sigma(g, T) /\ Sigma(f, T) \in Int /\ Sigma(g, T) \in Int
           /\ f[x] <= g[x] /\ f[x] \in Int /\ g[x] \in Int
    BY <1>1, <1>3, <2>1, SigmaInt
  <2> QED
    BY <2>2, <2>3
<1>4. S \in F
  <2> HIDE DEF F
  <2> QED
    BY <1>1, <1>2, <1>3, SetInduction
<1> QED
  BY <1>4

\* A sum of numbers above zero is above zero.
LEMMA SigmaPositive ==
    ASSUME NEW S, IsFiniteSet(S), S # {}, NEW w \in [S -> Nat \ {0}]
    PROVE  Sigma(w, S) \in Nat \ {0} /\ Summable(w, S)
<1> DEFINE one == [x \in S |-> 1]
<1>1. Summable(w, S)
  BY DEF Summable
<1>2. Sigma(one, S) = Cardinality(S) * 1 /\ Summable(one, S)
  BY SigmaConst
<1>3. \A x \in S : one[x] <= w[x]
  BY DEF Summable
<1> HIDE DEF one
<1>4. Sigma(one, S) <= Sigma(w, S) /\ Sigma(w, S) \in Int
  BY <1>1, <1>2, <1>3, SigmaMonotone, SigmaInt
<1>5. Cardinality(S) \in Nat /\ Cardinality(S) # 0
  BY FS_CardinalityType, FS_EmptySet
<1> QED
  BY <1>1, <1>2, <1>4, <1>5

\* A part of a sum is the sum over so many times its denominator.
LEMMA PartIs ==
    ASSUME NEW t \in Fraction, NEW a \in Int, NEW D \in Nat \ {0}, NEW k \in Nat \ {0},
           Denotes(t, a, D)
    PROVE  Part(t, k) \in Fraction /\ Denotes(Part(t, k), a, D * k) /\ D * k \in Nat \ {0}
<1> DEFINE n == t.n
           d == t.d
           x == d * k
           z == D * k
<1>1. n \in Int /\ d \in Nat \ {0} /\ n * D = a * d
  BY DEF Fraction, Denotes
<1>2. Part(t, k) = Over(n, x)
  BY DEF Part
<1> HIDE DEF n, d
<1>3. x \in Nat \ {0} /\ z \in Nat \ {0}
  BY <1>1
<1>4. n * z = a * x
  <2>1. n * z = (n * D) * k /\ a * x = (a * d) * k
    BY <1>1
  <2> QED
    BY <1>1, <2>1
<1> HIDE DEF x, z
<1>5. Over(n, x) \in Fraction /\ Denotes(Over(n, x), n, x)
  BY <1>1, <1>3, OverIs
<1>6. Denotes(Over(n, x), a, z)
  BY <1>1, <1>3, <1>4, <1>5, DenotesSame
<1> QED
  BY <1>2, <1>3, <1>5, <1>6 DEF z

\* What denotes a fraction also does with both of its numbers so many times as large.
LEMMA DenotesTimes ==
    ASSUME NEW f \in Fraction, NEW a \in Int, NEW b \in Nat \ {0}, NEW k \in Nat \ {0},
           Denotes(f, a, b)
    PROVE  Denotes(f, k * a, b * k) /\ k * a \in Int /\ b * k \in Nat \ {0}
<1>1. a * (b * k) = (k * a) * b /\ k * a \in Int /\ b * k \in Nat \ {0}
  OBVIOUS
<1> QED
  BY <1>1, DenotesSame

\* A mean is the sum of its numbers over so many times their denominator.
LEMMA MeanDenotes ==
    ASSUME NEW S, IsFiniteSet(S), S # {}, NEW values \in [S -> Fraction], NEW D \in Nat \ {0},
           NEW A \in [S -> Int], \A x \in S : Denotes(values[x], A[x], D)
    PROVE  /\ Mean(values) \in Fraction /\ Cardinality(S) \in Nat \ {0}
           /\ Denotes(Mean(values), Sigma(A, S), D * Cardinality(S))
<1>1. Total(values) \in Fraction /\ Denotes(Total(values), Sigma(A, S), D)
  BY TotalIs
<1>2. Cardinality(S) \in Nat \ {0}
  BY FS_CardinalityType, FS_EmptySet
<1>3. Sigma(A, S) \in Int
  BY SigmaInt DEF Summable
<1>4. Mean(values) = Part(Total(values), Cardinality(S))
  BY DEF Mean
<1> QED
  BY <1>1, <1>2, <1>3, <1>4, PartIs

\* A mean lies between two bounds of its numbers.
LEMMA MeanBetween ==
    ASSUME NEW S, IsFiniteSet(S), S # {}, NEW values \in [S -> Fraction], NEW D \in Nat \ {0},
           NEW A \in [S -> Int], \A x \in S : Denotes(values[x], A[x], D),
           NEW low \in Int, NEW high \in Int, \A x \in S : low <= A[x] /\ A[x] <= high,
           NEW min \in Fraction, NEW max \in Fraction, Denotes(min, low, D), Denotes(max, high, D)
    PROVE  Mean(values) \in Fraction /\ AtMost(min, Mean(values)) /\ AtMost(Mean(values), max)
<1> DEFINE n == Cardinality(S)
           sum == Sigma(A, S)
<1>1. Mean(values) \in Fraction /\ n \in Nat \ {0} /\ Denotes(Mean(values), sum, D * n)
  BY MeanDenotes
<1>2. Summable(A, S)
  BY DEF Summable
<1>3. sum \in Int
  BY <1>2, SigmaInt
<1>4. n * low <= sum
  <2> DEFINE g == [x \in S |-> low]
  <2>1. Sigma(g, S) = n * low /\ Summable(g, S)
    BY SigmaConst
  <2>2. \A x \in S : g[x] <= A[x]
    OBVIOUS
  <2> HIDE DEF g
  <2> QED
    BY <1>2, <2>1, <2>2, SigmaMonotone
<1>5. sum <= n * high
  <2> DEFINE g == [x \in S |-> high]
  <2>1. Sigma(g, S) = n * high /\ Summable(g, S)
    BY SigmaConst
  <2>2. \A x \in S : A[x] <= g[x]
    OBVIOUS
  <2> HIDE DEF g
  <2> QED
    BY <1>2, <2>1, <2>2, SigmaMonotone
<1> HIDE DEF n, sum
<1>6. /\ Denotes(min, n * low, D * n) /\ Denotes(max, n * high, D * n)
      /\ n * low \in Int /\ n * high \in Int /\ D * n \in Nat \ {0}
  BY <1>1, DenotesTimes
<1> QED
  BY <1>1, <1>3, <1>4, <1>5, <1>6, Compares

\* A weighted mean is the sum of the weighted numbers over that of the weights.
LEMMA WeightedDenotes ==
    ASSUME NEW S, IsFiniteSet(S), S # {}, NEW stream, NEW D \in Nat \ {0}, NEW A, NEW w \in [S -> Nat \ {0}],
           \A i \in S : stream[i].value \in Fraction /\ A[i] \in Int /\ Denotes(stream[i].value, A[i], D),
           NEW h, \A i \in S : h[i] = A[i] * w[i]
    PROVE  /\ Weighted(stream, w) \in Fraction /\ Summable(h, S) /\ Sigma(w, S) \in Nat \ {0}
           /\ Denotes(Weighted(stream, w), Sigma(h, S), D * Sigma(w, S))
<1> DEFINE g == [i \in S |-> A[i] * w[i]]
           values == [i \in S |-> Over(stream[i].value.n * w[i], stream[i].value.d)]
<1>1. \A i \in S : /\ Over(stream[i].value.n * w[i], stream[i].value.d) \in Fraction
                   /\ A[i] * w[i] \in Int
                   /\ Denotes(Over(stream[i].value.n * w[i], stream[i].value.d), A[i] * w[i], D)
  <2> TAKE i \in S
  <2> DEFINE n == stream[i].value.n
             d == stream[i].value.d
             a == A[i]
             v == w[i]
             x == n * v
             y == a * v
  <2>1. n \in Int /\ d \in Nat \ {0} /\ a \in Int /\ v \in Nat \ {0} /\ n * D = a * d
    BY DEF Fraction, Denotes
  <2> HIDE DEF n, d, a, v
  <2>2. x \in Int /\ y \in Int
    BY <2>1
  <2>3. x * D = y * d
    <3>1. x * D = (n * D) * v /\ y * d = (a * d) * v
      BY <2>1
    <3> QED
      BY <2>1, <3>1
  <2> HIDE DEF x, y
  <2>4. Over(x, d) \in Fraction /\ Denotes(Over(x, d), x, d)
    BY <2>1, <2>2, OverIs
  <2>5. Denotes(Over(x, d), y, D)
    BY <2>1, <2>2, <2>3, <2>4, DenotesSame
  <2> QED
    BY <2>2, <2>4, <2>5 DEF x, y, n, d, a, v
<1>2. values \in [S -> Fraction] /\ g \in [S -> Int] /\ \A i \in S : Denotes(values[i], g[i], D)
  BY <1>1
<1>3. DOMAIN w = S /\ Weighted(stream, w) = Part(Total(values), SumFunction(w))
  BY DEF Weighted
<1>4. Sigma(w, S) \in Nat \ {0} /\ Summable(w, S)
  BY SigmaPositive
<1>5. SumFunction(w) = Sigma(w, S)
  BY <1>3, <1>4, SumIs
<1> HIDE DEF values, g
<1>6. Total(values) \in Fraction /\ Denotes(Total(values), Sigma(g, S), D)
  BY <1>2, TotalIs
<1>7. Summable(g, S) /\ Sigma(g, S) \in Int
  <2>1. Summable(g, S)
    BY <1>2 DEF Summable
  <2> QED
    BY <2>1, SigmaInt
<1>8. /\ Weighted(stream, w) \in Fraction
      /\ Denotes(Weighted(stream, w), Sigma(g, S), D * Sigma(w, S))
  BY <1>3, <1>4, <1>5, <1>6, <1>7, PartIs
<1>9. Summable(h, S) /\ Sigma(h, S) = Sigma(g, S)
  <2>1. \A i \in S : g[i] = h[i]
    BY DEF g
  <2> QED
    BY <1>7, <2>1, SigmaSame DEF Summable
<1> QED
  BY <1>4, <1>8, <1>9

\* A weighted mean lies between two bounds of its numbers.
LEMMA WeightedBetween ==
    ASSUME NEW S, IsFiniteSet(S), S # {}, NEW stream, NEW D \in Nat \ {0}, NEW A, NEW w \in [S -> Nat \ {0}],
           \A i \in S : stream[i].value \in Fraction /\ A[i] \in Int /\ Denotes(stream[i].value, A[i], D),
           NEW low \in Int, NEW high \in Int, \A i \in S : low <= A[i] /\ A[i] <= high,
           NEW min \in Fraction, NEW max \in Fraction, Denotes(min, low, D), Denotes(max, high, D)
    PROVE  /\ Weighted(stream, w) \in Fraction
           /\ AtMost(min, Weighted(stream, w)) /\ AtMost(Weighted(stream, w), max)
<1> DEFINE g == [i \in S |-> A[i] * w[i]]
           n == Sigma(w, S)
           sum == Sigma(g, S)
           f == [i \in S |-> low * w[i]]
           h == [i \in S |-> high * w[i]]
<1>1. /\ Weighted(stream, w) \in Fraction /\ Summable(g, S) /\ n \in Nat \ {0}
      /\ Denotes(Weighted(stream, w), sum, D * n)
  BY WeightedDenotes
<1>2. \A i \in S : f[i] <= g[i] /\ g[i] <= h[i]
  <2> TAKE i \in S
  <2> DEFINE a == A[i]
             v == w[i]
  <2>1. a \in Int /\ v \in Nat /\ low <= a /\ a <= high
    OBVIOUS
  <2> HIDE DEF a, v
  <2>2. low * v <= a * v /\ a * v <= high * v
    BY <2>1
  <2> QED
    BY <2>2 DEF a, v
<1>3. Summable(w, S)
  BY SigmaPositive
<1>4. Sigma(f, S) = low * n /\ Summable(f, S) /\ Sigma(h, S) = high * n /\ Summable(h, S)
  <2>1. \A i \in S : f[i] = low * w[i] /\ h[i] = high * w[i]
    OBVIOUS
  <2> HIDE DEF f, h, g
  <2> QED
    BY <1>3, <2>1, SigmaScale
<1>5. sum \in Int /\ low * n <= sum /\ sum <= high * n
  <2> HIDE DEF f, h, g, n
  <2> QED
    BY <1>1, <1>2, <1>4, SigmaMonotone, SigmaInt
<1> HIDE DEF n, sum
<1>6. /\ Denotes(min, n * low, D * n) /\ Denotes(max, n * high, D * n)
      /\ n * low \in Int /\ n * high \in Int /\ D * n \in Nat \ {0}
  BY <1>1, DenotesTimes
<1>7. n * low <= sum /\ sum <= n * high
  BY <1>1, <1>5
<1> QED
  BY <1>1, <1>5, <1>6, <1>7, Compares

------------------------------------------------------------------------------
(* A quotient in lowest terms is one fraction only.                            *)

\* A product leaves no rest.
LEMMA NoRest ==
    ASSUME NEW k \in Nat \ {0}, NEW p \in Int
    PROVE  (k * p) % k = 0
<1> DEFINE n == k * p
           m == n \div k
           r == n % k
           e == p - m
<1>1. n \in Int
  OBVIOUS
<1>2. m \in Int /\ r \in Int /\ n = k * m + r /\ 0 <= r /\ r < k
  <2> HIDE DEF n
  <2> QED
    BY <1>1
<1>3. n = k * p
  OBVIOUS
<1> HIDE DEF n, m, r
<1>4. e \in Int /\ r = k * e
  BY <1>2, <1>3
<1> HIDE DEF e
<1>5. ~(e >= 1)
  <2> SUFFICES ASSUME e >= 1 PROVE FALSE
    OBVIOUS
  <2>1. k * e >= k
    BY <1>4
  <2> QED
    BY <1>2, <1>4, <2>1
<1>6. ~(e <= -1)
  <2> SUFFICES ASSUME e <= -1 PROVE FALSE
    OBVIOUS
  <2>1. k * e <= -k
    BY <1>4
  <2> QED
    BY <1>2, <1>4, <2>1
<1>7. e = 0
  BY <1>4, <1>5, <1>6
<1> QED
  BY <1>4, <1>7 DEF r, n

\* In lowest terms: nothing but one divides both numbers.
Lowest(f) == \A k \in Nat \ {0} : \A p, q \in Int : f.n = k * p /\ f.d = k * q => k = 1

\* Over leaves its quotient in lowest terms.
LEMMA OverLowest ==
    ASSUME NEW n \in Int, NEW d \in Nat \ {0}
    PROVE  Lowest(Over(n, d))
<1> DEFINE C == {k \in 1..d : n % k = 0 /\ d % k = 0}
           c == Max(C)
           u == n \div c
           v == d \div c
<1>1. IsFiniteSet(C) /\ C \subseteq Int /\ C # {}
  <2>1. IsFiniteSet(1..d)
    <3>1. 1 \in Int /\ d \in Int
      OBVIOUS
    <3> QED
      BY <3>1, FS_Interval
  <2>2. C \subseteq 1..d
    OBVIOUS
  <2>3. 1 \in C /\ 1..d \subseteq Int
    <3>1. 1 \in 1..d /\ n % 1 = 0 /\ d % 1 = 0
      OBVIOUS
    <3> QED
      BY <3>1
  <2> HIDE DEF C
  <2> QED
    BY <2>1, <2>2, <2>3, FS_Subset
<1>2. c \in C /\ \A y \in C : c >= y
  <2> HIDE DEF C
  <2>1. \E x \in C : \A y \in C : x >= y
    BY <1>1, HasGreatest
  <2> QED
    BY <2>1 DEF Max
<1>3. Over(n, d) = [n |-> u, d |-> v]
  BY DEF Over
<1> HIDE DEF c
<1>4. c \in Nat \ {0} /\ n % c = 0 /\ d % c = 0
  BY <1>2
<1>5. u \in Int /\ v \in Int /\ n = c * u /\ d = c * v
  BY <1>4
<1> HIDE DEF u, v
<1>6. ASSUME NEW k \in Nat \ {0}, NEW p \in Int, NEW q \in Int, u = k * p, v = k * q
      PROVE  k = 1
  <2> DEFINE m == k * c
  <2>1. m \in Nat \ {0} /\ n = m * p /\ d = m * q
    <3>1. n = c * (k * p) /\ d = c * (k * q)
      BY <1>5, <1>6
    <3>2. c * (k * p) = (k * c) * p /\ c * (k * q) = (k * c) * q /\ k * c \in Nat \ {0}
      BY <1>4
    <3> QED
      BY <3>1, <3>2
  <2> HIDE DEF m
  <2>2. n % m = 0 /\ d % m = 0
    BY <2>1, NoRest
  <2>3. m <= d
    <3>1. q >= 1
      <4> SUFFICES ASSUME q <= 0 PROVE FALSE
        OBVIOUS
      <4>1. m * q <= 0
        BY <2>1
      <4> QED
        BY <2>1, <4>1
    <3>2. m * q >= m
      BY <2>1, <3>1
    <3> QED
      BY <2>1, <3>2
  <2>4. m \in C
    BY <2>1, <2>2, <2>3
  <2>5. k * c <= c
    BY <1>2, <1>4, <2>1, <2>4 DEF m
  <2>6. ASSUME k >= 2 PROVE FALSE
    <3>1. k * c >= 2 * c
      BY <1>4, <2>6
    <3> QED
      BY <1>4, <2>5, <3>1
  <2> QED
    BY <2>6
<1> QED
  BY <1>3, <1>6 DEF Lowest

\* The denominators an equal fraction may have are multiples of the one in lowest terms.
LEMMA LowestDivides ==
    ASSUME NEW f \in Fraction, Lowest(f), NEW a \in Int, NEW b \in Nat \ {0}, Denotes(f, a, b)
    PROVE  f.d <= b
<1> DEFINE n == f.n
           d == f.d
           fits(q) == \E p \in Int : n * q = p * d
           Q == {q \in 1..d : fits(q)}
<1>1. n \in Int /\ d \in Nat \ {0} /\ n * b = a * d
  BY DEF Fraction, Denotes
<1>2. \A k \in Nat \ {0} : \A p, q \in Int : n = k * p /\ d = k * q => k = 1
  BY DEF Lowest
<1> HIDE DEF n, d
<1>3. IsFiniteSet(Q) /\ Q \subseteq Int /\ Q # {}
  <2>1. IsFiniteSet(1..d)
    <3>1. 1 \in Int /\ d \in Int
      BY <1>1
    <3> QED
      BY <3>1, FS_Interval
  <2>2. Q \subseteq 1..d /\ d \in Q /\ 1..d \subseteq Int
    BY <1>1
  <2> HIDE DEF Q
  <2> QED
    BY <2>1, <2>2, FS_Subset
<1>4. PICK q \in Q : \A y \in Q : q <= y
  <2> HIDE DEF Q
  <2> QED
    BY <1>3, HasLeast
<1>5. PICK p \in Int : n * q = p * d
  BY <1>4
<1>6. q \in Nat \ {0} /\ q <= d
  BY <1>1, <1>4
<1>7. ASSUME NEW t \in Nat \ {0}, fits(t)
      PROVE  t % q = 0 /\ q <= t
  <2> DEFINE m == t \div q
             r == t % q
  <2>1. m \in Int /\ r \in Int /\ t = q * m + r /\ 0 <= r /\ r < q
    BY <1>6
  <2> HIDE DEF m, r
  <2>2. PICK s \in Int : n * t = s * d
    BY <1>7
  <2>3. n * r = (s - m * p) * d
    <3>1. r = t - q * m
      BY <1>6, <2>1
    <3>2. n * r = n * t - n * (q * m)
      BY <1>1, <1>6, <2>1, <3>1
    <3>3. n * (q * m) = (n * q) * m
      BY <1>1, <1>6, <2>1
    <3>4. (p * d) * m = (m * p) * d
      BY <1>1, <2>1
    <3>5. (s - m * p) * d = s * d - (m * p) * d
      BY <1>1, <2>1
    <3> QED
      BY <1>5, <2>2, <3>2, <3>3, <3>4, <3>5
  <2>4. r = 0
    <3> SUFFICES ASSUME r # 0 PROVE FALSE
      OBVIOUS
    <3>1. s - m * p \in Int
      BY <2>1
    <3>2. r \in 1..d
      BY <1>1, <1>6, <2>1
    <3>3. r \in Q
      BY <2>3, <3>1, <3>2
    <3> QED
      BY <1>4, <1>6, <2>1, <3>3
  <2>5. m >= 1
    <3> SUFFICES ASSUME m <= 0 PROVE FALSE
      BY <2>1
    <3>1. q * m <= 0
      BY <1>6, <2>1
    <3> QED
      BY <2>1, <2>4, <3>1
  <2>6. q * m >= q
    BY <1>6, <2>1, <2>5
  <2> QED
    BY <1>6, <2>1, <2>4, <2>6 DEF r
<1>8. d = q
  <2>1. fits(d)
    BY <1>1
  <2>2. d % q = 0
    BY <1>1, <1>7, <2>1
  <2> DEFINE c == d \div q
  <2>3. c \in Int /\ d = q * c
    BY <1>1, <1>6, <2>2
  <2> HIDE DEF c
  <2>4. c >= 1
    <3> SUFFICES ASSUME c <= 0 PROVE FALSE
      BY <2>3
    <3>1. q * c <= 0
      BY <1>6, <2>3
    <3> QED
      BY <1>1, <2>3, <3>1
  <2>5. n = c * p
    <3>1. n * q = (c * p) * q
      <4>1. p * (q * c) = (c * p) * q
        BY <1>6, <2>3
      <4> QED
        BY <1>5, <2>3, <4>1
    <3> DEFINE y == c * p
    <3>2. y \in Int
      BY <2>3
    <3> HIDE DEF y
    <3>3. n * q = y * q /\ q \in Int \ {0}
      BY <1>6, <3>1 DEF y
    <3>4. n = y
      BY <1>1, <3>2, <3>3, Cancel
    <3> QED
      BY <3>4 DEF y
  <2>6. d = c * q
    BY <1>6, <2>3
  <2>7. c = 1
    BY <1>2, <1>6, <2>3, <2>4, <2>5, <2>6
  <2> QED
    BY <1>6, <2>6, <2>7
<1>9. fits(b)
  BY <1>1
<1> QED
  BY <1>7, <1>8, <1>9 DEF d

\* Equal fractions in lowest terms are the same.
LEMMA LowestSame ==
    ASSUME NEW f \in Fraction, NEW g \in Fraction, Lowest(f), Lowest(g),
           NEW a \in Int, NEW b \in Nat \ {0}, Denotes(f, a, b), Denotes(g, a, b)
    PROVE  f = g
<1> DEFINE n == f.n
           d == f.d
           m == g.n
           e == g.d
<1>1. /\ n \in Int /\ d \in Nat \ {0} /\ n * b = a * d
      /\ m \in Int /\ e \in Nat \ {0} /\ m * b = a * e
  BY DEF Fraction, Denotes
<1> HIDE DEF n, d, m, e
<1>2. n * e = m * d
  <2>1. (n * e) * b = (m * d) * b
    <3>1. (n * e) * b = (n * b) * e /\ (m * d) * b = (m * b) * d /\ (a * d) * e = (a * e) * d
      BY <1>1
    <3> QED
      BY <1>1, <3>1
  <2> DEFINE x == n * e
             y == m * d
  <2>2. x \in Int /\ y \in Int /\ b \in Int \ {0}
    BY <1>1
  <2>3. x * b = y * b
    BY <2>1
  <2> HIDE DEF x, y
  <2>4. x = y
    BY <2>2, <2>3, Cancel
  <2> QED
    BY <2>4 DEF x, y
<1>3. Denotes(f, m, e) /\ Denotes(g, n, d)
  BY <1>2 DEF Denotes, n, d, m, e
<1>4. d <= e /\ e <= d
  BY <1>1, <1>3, LowestDivides DEF d, e
<1>5. d = e
  BY <1>1, <1>4
<1>6. n = m
  BY <1>1, <1>2, <1>5, Cancel
<1> QED
  BY <1>5, <1>6 DEF Fraction, n, d, m, e

------------------------------------------------------------------------------
(* What a walk along intervals in order adds up.                               *)

\* What holds of one, and of the next after each, holds up to any number.
LEMMA CountUp ==
    ASSUME NEW n \in Nat, NEW F, n >= 1 => 1 \in F,
           \A i \in 1..n : i \in F /\ i + 1 <= n => i + 1 \in F
    PROVE  1..n \subseteq F
<1> DEFINE S == (1..n) \ F
<1> SUFFICES ASSUME S # {} PROVE FALSE
  OBVIOUS
<1>1. IsFiniteSet(S) /\ S \subseteq Int
  <2>1. IsFiniteSet(1..n)
    <3>1. 1 \in Int /\ n \in Int
      OBVIOUS
    <3> QED
      BY <3>1, FS_Interval
  <2>2. S \subseteq 1..n /\ 1..n \subseteq Int
    OBVIOUS
  <2> HIDE DEF S
  <2> QED
    BY <2>1, <2>2, FS_Subset
<1>2. PICK x \in S : \A y \in S : x <= y
  <2> HIDE DEF S
  <2> QED
    BY <1>1, HasLeast
<1>3. x \in 1..n /\ x \notin F
  BY <1>2
<1>4. x # 1
  BY <1>3
<1>5. x - 1 \in 1..n /\ x - 1 \notin S
  BY <1>2, <1>3, <1>4
<1>6. x - 1 \in F /\ (x - 1) + 1 = x /\ (x - 1) + 1 <= n
  BY <1>3, <1>5
<1> QED
  BY <1>3, <1>5, <1>6

\* The walk along intervals in order is there.
SweptFrom(w, ordered, i) ==
    IF i = 1 THEN [total |-> 0, start |-> ordered[1][1], end |-> ordered[1][2], overlapped |-> FALSE]
    ELSE Sweep(w[i - 1], ordered[i])
LEMMA WalkExists ==
    ASSUME NEW n \in Nat, NEW ordered
    PROVE  \E w : w = [i \in 1..n |-> SweptFrom(w, ordered, i)]
<1> DEFINE walks(w, k) == \A i \in 1..k : w[i] = SweptFrom(w, ordered, i)
           F == {k \in 1..n : \E w : walks(w, k)}
<1>1. ASSUME n >= 1 PROVE 1 \in F
  <2> DEFINE w == [i \in 1..1 |-> SweptFrom(<<>>, ordered, 1)]
  <2>1. walks(w, 1)
    BY DEF SweptFrom
  <2> HIDE DEF walks, w
  <2> QED
    BY <1>1, <2>1
<1>2. ASSUME NEW k \in 1..n, k \in F, k + 1 <= n PROVE k + 1 \in F
  <2>1. PICK w : walks(w, k)
    BY <1>2
  <2> DEFINE v == [i \in 1..(k + 1) |-> IF i <= k THEN w[i] ELSE Sweep(w[k], ordered[i])]
  <2>2. \A i \in 1..(k + 1) : v[i] = SweptFrom(v, ordered, i)
    <3> TAKE i \in 1..(k + 1)
    <3>1. CASE i = 1
      <4>1. v[1] = w[1] /\ w[1] = SweptFrom(w, ordered, 1)
        BY <2>1
      <4> QED
        BY <3>1, <4>1 DEF SweptFrom
    <3>2. CASE i # 1 /\ i <= k
      <4>1. i \in 1..k /\ i - 1 \in 1..(k + 1) /\ i - 1 <= k
        BY <3>2
      <4>2. v[i] = w[i] /\ v[i - 1] = w[i - 1]
        BY <3>2, <4>1
      <4>3. w[i] = SweptFrom(w, ordered, i)
        BY <2>1, <4>1
      <4> HIDE DEF v
      <4> QED
        BY <3>2, <4>2, <4>3 DEF SweptFrom
    <3>3. CASE i = k + 1
      <4>1. v[i] = Sweep(w[k], ordered[i]) /\ v[k] = w[k] /\ i - 1 = k /\ i # 1
        BY <3>3
      <4> HIDE DEF v
      <4> QED
        BY <4>1 DEF SweptFrom
    <3> QED
      BY <3>1, <3>2, <3>3
  <2>3. k + 1 \in 1..n
    BY <1>2
  <2> HIDE DEF v
  <2> QED
    BY <2>2, <2>3
<1>3. 1..n \subseteq F
  <2> HIDE DEF F
  <2> QED
    BY <1>1, <1>2, CountUp
<1>4. \E w : walks(w, n)
  <2>1. CASE n = 0
    BY <2>1
  <2>2. CASE n # 0
    BY <1>3, <2>2
  <2> QED
    BY <2>1, <2>2
<1>5. PICK w : walks(w, n)
  BY <1>4
<1> DEFINE v == [i \in 1..n |-> w[i]]
<1>6. v = [i \in 1..n |-> SweptFrom(v, ordered, i)]
  <2>1. \A i \in 1..n : v[i] = SweptFrom(v, ordered, i)
    <3> TAKE i \in 1..n
    <3>1. v[i] = w[i] /\ w[i] = SweptFrom(w, ordered, i)
      BY <1>5
    <3>2. i # 1 => v[i - 1] = w[i - 1]
      OBVIOUS
    <3> HIDE DEF v
    <3> QED
      BY <3>1, <3>2 DEF SweptFrom
  <2>2. DOMAIN v = 1..n /\ v = [i \in 1..n |-> v[i]]
    OBVIOUS
  <2> HIDE DEF v
  <2> QED
    BY <2>1, <2>2
<1> QED
  BY <1>6

\* The walk along intervals that do not overlap finds none that do, and adds up how long
\* they are.
LEMMA WalkAddsUp ==
    ASSUME NEW ordered, NEW n \in Nat \ {0}, Len(ordered) = n,
           \A i \in 1..n : /\ ordered[i][1] \in Int /\ ordered[i][2] \in Int
                           /\ ordered[i][1] < ordered[i][2],
           \A i \in 1..n : i + 1 <= n => ordered[i][2] <= ordered[i + 1][1]
    PROVE  LET length == [i \in 1..n |-> ordered[i][2] - ordered[i][1]]
               s == Swept(ordered)
           IN  ~s.overlapped /\ s.total + s.end - s.start = Sigma(length, 1..n)
<1> DEFINE length == [i \in 1..n |-> ordered[i][2] - ordered[i][1]]
           w == CHOOSE w : w = [i \in 1..Len(ordered) |->
                   IF i = 1 THEN [total |-> 0, start |-> ordered[1][1], end |-> ordered[1][2],
                                  overlapped |-> FALSE]
                   ELSE Sweep(w[i - 1], ordered[i])]
           inv(i) == /\ w[i] \in [total : Int, start : Int, end : Int, overlapped : {FALSE}]
                     /\ w[i].end = ordered[i][2]
                     /\ w[i].total + w[i].end - w[i].start = Sigma(length, 1..i)
           F == {i \in 1..n : inv(i)}
<1>1. Swept(ordered) = w[n]
  BY DEF Swept
<1>2. w = [i \in 1..n |-> SweptFrom(w, ordered, i)]
  <2>1. \E v : v = [i \in 1..n |-> SweptFrom(v, ordered, i)]
    BY WalkExists
  <2> QED
    BY <2>1 DEF SweptFrom
<1> HIDE DEF w
<1>3. w[1] = [total |-> 0, start |-> ordered[1][1], end |-> ordered[1][2], overlapped |-> FALSE]
         /\ \A i \in 1..n : i + 1 <= n => w[i + 1] = Sweep(w[i], ordered[i + 1])
  <2>1. \A i \in 1..n : w[i] = SweptFrom(w, ordered, i)
    BY <1>2
  <2>2. w[1] = SweptFrom(w, ordered, 1)
    BY <2>1
  <2>3. ASSUME NEW i \in 1..n, i + 1 <= n PROVE w[i + 1] = Sweep(w[i], ordered[i + 1])
    <3>1. i + 1 \in 1..n /\ i + 1 # 1 /\ (i + 1) - 1 = i
      BY <2>3
    <3>2. w[i + 1] = SweptFrom(w, ordered, i + 1)
      BY <2>1, <3>1
    <3> QED
      BY <3>1, <3>2 DEF SweptFrom
  <2> QED
    BY <2>2, <2>3 DEF SweptFrom
<1>4. \A i \in 1..n : Summable(length, 1..i) /\ length[i] = ordered[i][2] - ordered[i][1]
  <2> TAKE i \in 1..n
  <2>1. IsFiniteSet(1..i)
    <3>1. 1 \in Int /\ i \in Int
      OBVIOUS
    <3> QED
      BY <3>1, FS_Interval
  <2>2. \A x \in 1..i : x \in 1..n
    OBVIOUS
  <2> QED
    BY <2>1, <2>2 DEF Summable
<1> HIDE DEF length
<1>5. 1 \in F
  <2>1. 1..1 = {1} /\ 1 \in 1..n
    OBVIOUS
  <2>2. Sigma(length, 1..1) = length[1]
    <3>1. length[1] \in Int
      BY <1>4, <2>1
    <3> QED
      BY <2>1, <3>1, SigmaOne
  <2>3. inv(1)
    BY <1>3, <1>4, <2>1, <2>2
  <2> HIDE DEF inv
  <2> QED
    BY <2>1, <2>3
<1>6. ASSUME NEW i \in 1..n, i \in F, i + 1 <= n PROVE i + 1 \in F
  <2> DEFINE s == w[i]
             j == i + 1
             p == ordered[j]
  <2>1. j \in 1..n /\ j \notin 1..i /\ 1..j = (1..i) \cup {j}
    BY <1>6
  <2>2. /\ s \in [total : Int, start : Int, end : Int, overlapped : {FALSE}]
        /\ s.end = ordered[i][2] /\ s.total + s.end - s.start = Sigma(length, 1..i)
    BY <1>6
  <2>3. w[j] = Sweep(s, p)
    BY <1>3, <1>6
  <2>4. p[1] \in Int /\ p[2] \in Int /\ p[1] < p[2] /\ s.end <= p[1]
    BY <1>6, <2>1, <2>2
  <2>5. Sigma(length, 1..j) = Sigma(length, 1..i) + (p[2] - p[1])
    <3>1. Summable(length, 1..j) /\ length[j] = p[2] - p[1]
      BY <1>4, <2>1
    <3> HIDE DEF j, p
    <3>2. j \notin 1..i /\ Summable(length, (1..i) \cup {j})
      BY <2>1, <3>1
    <3>3. Sigma(length, (1..i) \cup {j}) = Sigma(length, 1..i) + length[j]
      BY <3>2, SigmaAdd
    <3> QED
      BY <2>1, <3>1, <3>3
  <2> HIDE DEF s, j, p
  <2>6. /\ w[j] \in [total : Int, start : Int, end : Int, overlapped : {FALSE}]
        /\ w[j].end = p[2] /\ w[j].total + w[j].end - w[j].start
                                = s.total + s.end - s.start + (p[2] - p[1])
    <3>1. CASE p[1] <= s.end
      <4>1. p[1] = s.end /\ p[2] > s.end /\ ~(p[1] < s.end)
        BY <2>2, <2>4, <3>1
      <4>2. w[j] = [s EXCEPT !.end = p[2], !.overlapped = FALSE]
        BY <2>2, <2>3, <3>1, <4>1 DEF Sweep
      <4>3. w[j] = [total |-> s.total, start |-> s.start, end |-> p[2], overlapped |-> FALSE]
        BY <2>2, <4>2
      <4> QED
        BY <2>2, <2>4, <4>1, <4>3
    <3>2. CASE ~(p[1] <= s.end)
      <4>1. w[j] = [total |-> s.total + s.end - s.start, start |-> p[1], end |-> p[2],
                    overlapped |-> s.overlapped]
        BY <2>3, <3>2 DEF Sweep
      <4>2. s.total \in Int /\ s.end \in Int /\ s.start \in Int /\ s.overlapped = FALSE
        BY <2>2
      <4>3. w[j] \in [total : Int, start : Int, end : Int, overlapped : {FALSE}]
        <5> DEFINE a == s.total + s.end - s.start
        <5>1. a \in Int
          BY <4>2
        <5>2. w[j] = [total |-> a, start |-> p[1], end |-> p[2], overlapped |-> FALSE]
          BY <4>1, <4>2
        <5> HIDE DEF a
        <5> QED
          BY <2>4, <5>1, <5>2
      <4>4. w[j].end = p[2] /\ w[j].total = s.total + s.end - s.start /\ w[j].start = p[1]
        BY <4>1
      <4> QED
        BY <2>4, <4>2, <4>3, <4>4
    <3> QED
      BY <3>1, <3>2
  <2>7. w[j].end = ordered[j][2] /\ w[j].total + w[j].end - w[j].start = Sigma(length, 1..j)
    BY <2>2, <2>5, <2>6 DEF p
  <2> QED
    BY <2>1, <2>6, <2>7 DEF j
<1>7. n \in F
  <2> HIDE DEF F
  <2>1. 1..n \subseteq F
    BY <1>5, <1>6, CountUp
  <2> QED
    BY <2>1
<1>8. ~w[n].overlapped /\ w[n].total + w[n].end - w[n].start = Sigma(length, 1..n)
  BY <1>7
<1> QED
  BY <1>1, <1>8 DEF length

------------------------------------------------------------------------------
(* The samples that speak for the moments of a window.                         *)

\* A stream whose instants are whole, and whose available samples have values; a window
\* that is one.
StreamTyped(stream) ==
    /\ Len(stream) \in Nat /\ DOMAIN stream = 1..Len(stream)
    /\ \A i \in 1..Len(stream) : /\ stream[i].ts \in Int /\ stream[i].available \in BOOLEAN
                                 /\ stream[i].available => stream[i].value \in Fraction
WindowTyped(window) == window.start \in Int /\ window.end \in Int /\ window.start < window.end

\* The moments of a window, and those of them before a sample and since the one before it.
Moments(window) == window.start..(window.end - 1)
MomentsOf(stream, window, i) ==
    {t \in Moments(window) : stream[i - 1].ts <= t /\ t < stream[i].ts}
PartOf(stream, window, i) ==
    <<Larger(stream[i - 1].ts, window.start), Smaller(stream[i].ts, window.end)>>

\* In a stream that only increases, a later sample is later.
LEMMA LaterIsLater ==
    ASSUME NEW stream, StreamTyped(stream), Increasing(stream),
           NEW i \in 1..Len(stream), NEW j \in 1..Len(stream), i <= j
    PROVE  stream[i].ts <= stream[j].ts
<1> DEFINE n == Len(stream)
           F == {k \in 1..n : i <= k => stream[i].ts <= stream[k].ts}
<1>1. n \in Nat /\ \A k \in 1..n : stream[k].ts \in Int
  BY DEF StreamTyped
<1>2. \A k \in 1..n : k + 1 <= n => stream[k].ts < stream[k + 1].ts
  <2> TAKE k \in 1..n
  <2> HAVE k + 1 <= n
  <2>1. k + 1 \in 2..n /\ (k + 1) - 1 = k /\ k + 1 \in 1..n
    BY <1>1
  <2>2. Delta(stream, k + 1) > 0
    BY <2>1 DEF Increasing, Later
  <2> QED
    BY <1>1, <2>1, <2>2 DEF Delta
<1> HIDE DEF n
<1>3. n >= 1 => 1 \in F
  BY <1>1 DEF n
<1>4. ASSUME NEW k \in 1..n, k \in F, k + 1 <= n PROVE k + 1 \in F
  <2>1. k + 1 \in 1..n
    BY <1>1, <1>4
  <2>2. i \in 1..n
    BY DEF n
  <2>3. ASSUME i <= k + 1 PROVE stream[i].ts <= stream[k + 1].ts
    <3>1. CASE i = k + 1
      BY <1>1, <2>1, <3>1
    <3>2. CASE i # k + 1
      <4>1. i <= k
        BY <1>1, <2>2, <2>3, <3>2
      <4>2. stream[i].ts <= stream[k].ts /\ stream[k].ts < stream[k + 1].ts
        BY <1>2, <1>4, <4>1
      <4>3. stream[i].ts \in Int /\ stream[k].ts \in Int /\ stream[k + 1].ts \in Int
        BY <1>1, <2>1, <2>2
      <4> QED
        BY <4>2, <4>3
    <3> QED
      BY <3>1, <3>2
  <2> QED
    BY <2>1, <2>3
<1>5. 1..n \subseteq F
  <2> HIDE DEF F
  <2> QED
    BY <1>1, <1>3, <1>4, CountUp
<1>6. j \in F
  BY <1>5 DEF n
<1> QED
  BY <1>6

\* A sample overlaps a window for as many moments as it has of it.
LEMMA MomentsCount ==
    ASSUME NEW stream, StreamTyped(stream), NEW window, WindowTyped(window), NEW i \in Later(stream)
    PROVE  /\ IsFiniteSet(MomentsOf(stream, window, i))
           /\ Cardinality(MomentsOf(stream, window, i)) = Overlap(stream, i, window)
           /\ Overlap(stream, i, window) \in Nat
           /\ Overlap(stream, i, window) > 0 =>
                 /\ PartOf(stream, window, i)[1] \in Int /\ PartOf(stream, window, i)[2] \in Int
                 /\ PartOf(stream, window, i)[2] - PartOf(stream, window, i)[1]
                       = Overlap(stream, i, window)
                 /\ stream[i - 1].ts <= PartOf(stream, window, i)[1]
                 /\ PartOf(stream, window, i)[2] <= stream[i].ts
<1> DEFINE a == window.start
           b == window.end
           p == stream[i - 1].ts
           q == stream[i].ts
           lo == Larger(p, a)
           hi == Smaller(q, b)
           o == Overlap(stream, i, window)
           M == MomentsOf(stream, window, i)
<1>1. a \in Int /\ b \in Int /\ p \in Int /\ q \in Int
  <2>1. i \in 1..Len(stream) /\ i - 1 \in 1..Len(stream)
    BY DEF StreamTyped, Later
  <2> QED
    BY <2>1 DEF StreamTyped, WindowTyped
<1>2. o = Larger(0, hi - lo) /\ PartOf(stream, window, i) = <<lo, hi>>
  BY DEF Overlap, PartOf
<1>3. M = {t \in a..(b - 1) : p <= t /\ t < q}
  BY DEF MomentsOf, Moments
<1> HIDE DEF a, b, p, q, o, M
<1>4. lo \in Int /\ hi \in Int /\ lo >= p /\ lo >= a /\ hi <= q /\ hi <= b
         /\ (lo = p \/ lo = a) /\ (hi = q \/ hi = b)
  BY <1>1 DEF Larger, Smaller
<1> HIDE DEF lo, hi
<1>5. M = lo..(hi - 1)
  <2>1. \A t \in M : t \in lo..(hi - 1)
    BY <1>1, <1>3, <1>4
  <2>2. \A t \in lo..(hi - 1) : t \in M
    BY <1>1, <1>3, <1>4
  <2> QED
    BY <2>1, <2>2
<1>6. o \in Nat /\ o = (IF lo > hi - 1 THEN 0 ELSE hi - 1 - lo + 1)
  BY <1>2, <1>4 DEF Larger
<1>7. IsFiniteSet(M) /\ Cardinality(M) = o
  <2>1. hi - 1 \in Int
    BY <1>4
  <2>2. IsFiniteSet(lo..(hi - 1))
        /\ Cardinality(lo..(hi - 1)) = (IF lo > hi - 1 THEN 0 ELSE hi - 1 - lo + 1)
    BY <1>4, <2>1, FS_Interval
  <2> QED
    BY <1>5, <1>6, <2>2
<1>8. o > 0 => hi - lo = o
  BY <1>4, <1>6
<1> QED
  BY <1>2, <1>4, <1>6, <1>7, <1>8 DEF o, M, p, q

\* No moment is of two samples.
LEMMA MomentsApart ==
    ASSUME NEW stream, StreamTyped(stream), Increasing(stream), NEW window, WindowTyped(window),
           NEW i \in Later(stream), NEW j \in Later(stream), NEW t \in Moments(window),
           t \in MomentsOf(stream, window, i), t \in MomentsOf(stream, window, j)
    PROVE  i = j
<1>1. /\ i \in 1..Len(stream) /\ i - 1 \in 1..Len(stream) /\ i \in Int
      /\ j \in 1..Len(stream) /\ j - 1 \in 1..Len(stream) /\ j \in Int
  BY DEF StreamTyped, Later
<1>2. t \in Int
  BY DEF Moments, WindowTyped
<1>3. /\ stream[i - 1].ts <= t /\ t < stream[i].ts /\ stream[j - 1].ts <= t /\ t < stream[j].ts
  BY DEF MomentsOf
<1>4. \A k \in 1..Len(stream) : stream[k].ts \in Int
  BY DEF StreamTyped
<1>5. ASSUME i < j PROVE FALSE
  <2>1. i <= j - 1
    BY <1>1, <1>5
  <2>2. stream[i].ts <= stream[j - 1].ts
    BY <1>1, <2>1, LaterIsLater
  <2>3. stream[i].ts \in Int /\ stream[j - 1].ts \in Int
    BY <1>1, <1>4
  <2> QED
    BY <1>2, <1>3, <2>2, <2>3
<1>6. ASSUME j < i PROVE FALSE
  <2>1. j <= i - 1
    BY <1>1, <1>6
  <2>2. stream[j].ts <= stream[i - 1].ts
    BY <1>1, <2>1, LaterIsLater
  <2>3. stream[j].ts \in Int /\ stream[i - 1].ts \in Int
    BY <1>1, <1>4
  <2> QED
    BY <1>2, <1>3, <2>2, <2>3
<1> QED
  BY <1>1, <1>5, <1>6

\* What a contributing sample is: one that speaks for a moment of the window.
LEMMA ContributingSpeaks ==
    ASSUME NEW stream, StreamTyped(stream), Increasing(stream), NEW window, WindowTyped(window),
           NEW i \in Later(stream)
    PROVE  /\ \A t \in Moments(window) :
                 SpeaksFor(stream, i, t)
                    <=> i \in Contributing(stream, window) /\ t \in MomentsOf(stream, window, i)
           /\ i \in Touching(stream, window) <=> MomentsOf(stream, window, i) # {}
           /\ i \in Touching(stream, window) \ Broken(stream, window)
                 <=> i \in Touching(stream, window) /\ stream[i].interval # None
                     /\ stream[i].interval = Delta(stream, i)
           /\ i \in Contributing(stream, window) =>
                 Overlap(stream, i, window) > 0 /\ stream[i].value \in Fraction
<1>1. i \in 1..Len(stream) /\ i - 1 \in 1..Len(stream)
  BY DEF StreamTyped, Later
<1>2. Delta(stream, i) \in Int /\ Delta(stream, i) > 0
  BY <1>1 DEF Delta, StreamTyped, Increasing
<1>3. Tiles(stream, i) <=> stream[i].interval # None /\ stream[i].interval = Delta(stream, i)
  BY <1>2 DEF Tiles
<1>4. /\ i \in Touching(stream, window) <=> Overlap(stream, i, window) > 0
      /\ i \in Touching(stream, window) \ Broken(stream, window)
            <=> i \in Touching(stream, window) /\ Tiles(stream, i)
  BY DEF Touching, Broken
<1>5. i \in Touching(stream, window) <=> MomentsOf(stream, window, i) # {}
  <2> DEFINE M == MomentsOf(stream, window, i)
             o == Overlap(stream, i, window)
  <2>1. IsFiniteSet(M) /\ Cardinality(M) = o /\ o \in Nat
    BY MomentsCount
  <2>2. i \in Touching(stream, window) <=> o > 0
    BY <1>4
  <2> HIDE DEF M, o
  <2>3. o = 0 <=> M = {}
    BY <2>1, FS_EmptySet
  <2> QED
    BY <2>1, <2>2, <2>3 DEF M
<1>6. i \in Contributing(stream, window)
         <=> i \in Touching(stream, window) \ Broken(stream, window) /\ stream[i].available
  BY DEF Contributing
<1>7. \A t \in Moments(window) :
         t \in MomentsOf(stream, window, i) <=> stream[i - 1].ts <= t /\ t < stream[i].ts
  BY DEF MomentsOf
<1>8. ASSUME NEW t \in Moments(window)
      PROVE  SpeaksFor(stream, i, t)
                <=> i \in Contributing(stream, window) /\ t \in MomentsOf(stream, window, i)
  <2>1. SpeaksFor(stream, i, t)
           <=> Tiles(stream, i) /\ t \in MomentsOf(stream, window, i) /\ stream[i].available
    BY <1>3, <1>7 DEF SpeaksFor
  <2> QED
    BY <1>4, <1>5, <1>6, <2>1
<1>9. stream[i].available => stream[i].value \in Fraction
  BY <1>1 DEF StreamTyped
<1> QED
  BY <1>3, <1>4, <1>5, <1>6, <1>8, <1>9

\* A later contributing sample has its part of the window later.
LEMMA PartsInOrder ==
    ASSUME NEW stream, StreamTyped(stream), Increasing(stream), NEW window, WindowTyped(window),
           NEW i \in Contributing(stream, window), NEW j \in Contributing(stream, window), i < j
    PROVE  PartOf(stream, window, i)[2] <= PartOf(stream, window, j)[1]
<1>1. i \in Later(stream) /\ j \in Later(stream)
  BY DEF Contributing, Touching
<1>2. /\ i \in 1..Len(stream) /\ i - 1 \in 1..Len(stream) /\ i \in Int
      /\ j \in 1..Len(stream) /\ j - 1 \in 1..Len(stream) /\ j \in Int
  BY <1>1 DEF StreamTyped, Later
<1>3. Overlap(stream, i, window) > 0 /\ Overlap(stream, j, window) > 0
  BY <1>1, ContributingSpeaks
<1>4. /\ PartOf(stream, window, i)[2] \in Int /\ PartOf(stream, window, i)[2] <= stream[i].ts
      /\ PartOf(stream, window, j)[1] \in Int /\ stream[j - 1].ts <= PartOf(stream, window, j)[1]
  BY <1>1, <1>3, MomentsCount
<1>5. i <= j - 1
  BY <1>2
<1>6. stream[i].ts <= stream[j - 1].ts /\ stream[i].ts \in Int /\ stream[j - 1].ts \in Int
  BY <1>2, <1>5, LaterIsLater DEF StreamTyped
<1> QED
  BY <1>4, <1>6

\* What a metric covers of a window: the overlaps of its contributing samples, which never
\* overlap one another.
LEMMA CoveredIs ==
    ASSUME NEW stream, StreamTyped(stream), Increasing(stream), NEW window, WindowTyped(window)
    PROVE  LET C == Contributing(stream, window)
               w == [i \in C |-> Overlap(stream, i, window)]
           IN  /\ IsFiniteSet(C) /\ w \in [C -> Nat \ {0}]
               /\ Covered(stream, window) = Sigma(w, C) /\ ~SegmentsOverlap(stream, window)
<1> DEFINE C == Contributing(stream, window)
           w == [i \in C |-> Overlap(stream, i, window)]
           p(i) == PartOf(stream, window, i)
           parts == {p(i) : i \in C}
           first == [part \in parts |-> part[1]]
           s == Segments(stream, window)
           m == Cardinality(parts)
<1>1. C \subseteq Later(stream) /\ C \subseteq Int /\ IsFiniteSet(C)
  <2>1. IsFiniteSet(Later(stream)) /\ Later(stream) \subseteq Int
    <3>1. 2 \in Int /\ Len(stream) \in Int
      BY DEF StreamTyped
    <3> QED
      BY <3>1, FS_Interval DEF Later
  <2>2. C \subseteq Later(stream)
    BY DEF Contributing, Touching
  <2> HIDE DEF C
  <2> QED
    BY <2>1, <2>2, FS_Subset
<1>2. \A i \in C : /\ Overlap(stream, i, window) \in Nat \ {0}
                   /\ p(i)[1] \in Int /\ p(i)[2] \in Int
                   /\ p(i)[2] - p(i)[1] = Overlap(stream, i, window)
  <2> TAKE i \in C
  <2>1. i \in Later(stream)
    BY <1>1
  <2>2. Overlap(stream, i, window) > 0
    BY <2>1, ContributingSpeaks
  <2> QED
    BY <2>1, <2>2, MomentsCount
<1>3. \A i, j \in C : i < j => p(i)[2] <= p(j)[1]
  BY PartsInOrder
<1> HIDE DEF C, p
<1>4. \A i, j \in C : i # j => p(i)[1] # p(j)[1]
  <2> TAKE i, j \in C
  <2> HAVE i # j
  <2>1. CASE i < j
    BY <1>2, <1>3, <2>1
  <2>2. CASE j < i
    BY <1>2, <1>3, <2>2
  <2> QED
    BY <1>1, <2>1, <2>2
<1>5. s = InOrderOf(parts, first)
  BY DEF Segments, C, p, PartOf
<1>6. IsFiniteSet(parts) /\ \A part \in parts : first[part] \in Int
  <2>1. IsFiniteSet(parts)
    <3> DEFINE f == [i \in C |-> p(i)]
    <3>1. IsFiniteSet({f[i] : i \in C})
      <4> HIDE DEF f
      <4> QED
        BY <1>1, ValuesAreFinite
    <3>2. {f[i] : i \in C} = parts
      OBVIOUS
    <3> QED
      BY <3>1, <3>2
  <2> QED
    BY <1>2, <2>1
<1>7. \A x, y \in parts : first[x] = first[y] => x = y
  BY <1>4
<1>8. \A x \in parts : first[x] = x[1]
  OBVIOUS
<1> HIDE DEF first
<1>9. /\ m \in Nat /\ s \in Seq(parts) /\ Len(s) = m /\ DOMAIN s = 1..m
      /\ \A i, j \in 1..m : i < j => first[s[i]] < first[s[j]]
      /\ \A x \in parts : \E i \in 1..m : s[i] = x
  <2> HIDE DEF parts
  <2> DEFINE o == InOrderOf(parts, first)
  <2>1. /\ m \in Nat /\ o \in Seq(parts) /\ Len(o) = m /\ DOMAIN o = 1..m
        /\ \A i, j \in 1..m : i < j => first[o[i]] < first[o[j]]
        /\ \A x \in parts : \E i \in 1..m : o[i] = x
    BY <1>6, <1>7, InOrderIs
  <2>2. s = o
    BY <1>5
  <2> HIDE DEF o, s
  <2> QED
    BY <2>1, <2>2
<1>10. \A k \in 1..m : s[k] \in parts
  BY <1>9
<1> HIDE DEF s, m
<1> DEFINE of == [k \in 1..m |-> CHOOSE i \in C : p(i) = s[k]]
<1>11. \A k \in 1..m : of[k] \in C /\ p(of[k]) = s[k]
  <2> TAKE k \in 1..m
  <2>1. \E i \in C : p(i) = s[k]
    BY <1>10
  <2> QED
    BY <2>1
<1> HIDE DEF of
<1>12. \A k \in 1..m : k + 1 <= m => s[k][2] <= s[k + 1][1]
  <2> TAKE k \in 1..m
  <2> HAVE k + 1 <= m
  <2>1. k + 1 \in 1..m /\ k < k + 1
    BY <1>9
  <2> DEFINE i == of[k]
             j == of[k + 1]
  <2>2. i \in C /\ j \in C /\ p(i) = s[k] /\ p(j) = s[k + 1]
    BY <1>11, <2>1
  <2>3. s[k][1] < s[k + 1][1]
    BY <1>8, <1>9, <1>10, <2>1
  <2> HIDE DEF i, j
  <2>4. p(i)[1] < p(j)[1]
    BY <2>2, <2>3
  <2>5. ~(j < i)
    <3> SUFFICES ASSUME j < i PROVE FALSE
      OBVIOUS
    <3>1. p(j)[2] <= p(i)[1]
      BY <1>3, <2>2
    <3>2. p(j)[1] \in Int /\ p(j)[2] \in Int /\ p(i)[1] \in Int /\ p(j)[2] - p(j)[1] \in Nat \ {0}
      BY <1>2, <2>2
    <3> QED
      BY <2>4, <3>1, <3>2
  <2>6. i # j
    <3>1. p(i)[1] \in Int
      BY <1>2, <2>2
    <3> QED
      BY <2>4, <3>1
  <2>7. i < j
    BY <1>1, <2>2, <2>5, <2>6
  <2> QED
    BY <1>3, <2>2, <2>7
<1>13. \A k \in 1..m : /\ s[k][1] \in Int /\ s[k][2] \in Int /\ s[k][1] < s[k][2]
                       /\ s[k][2] - s[k][1] = Overlap(stream, of[k], window)
  BY <1>2, <1>11
<1> DEFINE length == [k \in 1..m |-> s[k][2] - s[k][1]]
<1>14. w \in [C -> Nat \ {0}]
  BY <1>2
<1>15. Sigma(length, 1..m) = Sigma(w, C)
  <2>1. IsFiniteSet(1..m)
    <3>1. 1 \in Int /\ m \in Int
      BY <1>9
    <3> QED
      BY <3>1, FS_Interval
  <2>2. Summable(length, 1..m)
    BY <1>13, <2>1 DEF Summable
  <2>3. of \in [1..m -> C]
    <3>1. DOMAIN of = 1..m /\ of = [k \in 1..m |-> of[k]]
      BY DEF of
    <3> QED
      BY <1>11, <3>1
  <2>4. ASSUME NEW c \in C
        PROVE  \E x \in 1..m : {y \in 1..m : of[y] = c} = {x} /\ w[c] = length[x]
    <3>1. p(c) \in parts
      OBVIOUS
    <3>2. PICK x \in 1..m : s[x] = p(c)
      BY <1>9, <3>1
    <3>3. of[x] = c
      <4>1. of[x] \in C /\ p(of[x]) = p(c)
        BY <1>11, <3>2
      <4>2. p(of[x])[1] = p(c)[1]
        BY <4>1
      <4> QED
        BY <1>4, <4>1, <4>2
    <3>4. \A y \in 1..m : of[y] = c => y = x
      <4> TAKE y \in 1..m
      <4> HAVE of[y] = c
      <4>1. s[y] = s[x]
        BY <1>11, <3>2
      <4>2. ~(y < x) /\ ~(x < y)
        <5>1. first[s[x]] \in Int
          BY <1>6, <1>10
        <5> QED
          BY <1>9, <4>1, <5>1
      <4> QED
        BY <1>9, <4>2
    <3>5. {y \in 1..m : of[y] = c} = {x}
      BY <3>3, <3>4
    <3>6. w[c] = length[x]
      BY <1>13, <3>3
    <3> QED
      BY <3>5, <3>6
  <2> DEFINE S == 1..m
  <2>5. \A c \in C : \E x \in S : {y \in S : of[y] = c} = {x} /\ w[c] = length[x]
    BY <2>4
  <2>6. Summable(length, S) /\ of \in [S -> C] /\ IsFiniteSet(C)
    BY <1>1, <2>2, <2>3
  <2> HIDE DEF length, w, S
  <2>7. Sigma(length, S) = Sigma(w, C)
    BY <2>5, <2>6, SigmaKeyed
  <2> QED
    BY <2>7 DEF S
<1>16. CASE m = 0
  <2>1. s = <<>>
    BY <1>9, <1>16
  <2>2. C = {}
    <3>1. parts = {}
      BY <1>6, <1>16, FS_EmptySet DEF m
    <3> QED
      BY <3>1
  <2>3. Covered(stream, window) = 0
    BY <2>1 DEF Covered, UnionDuration, s
  <2>4. Sigma(w, C) = 0
    BY <2>2, SigmaEmpty
  <2>5. ~SegmentsOverlap(stream, window)
    BY <2>2 DEF SegmentsOverlap, C
  <2> QED
    BY <1>1, <1>14, <2>3, <2>4, <2>5 DEF C
<1>17. CASE m # 0
  <2>1. m \in Nat \ {0} /\ Len(s) = m
    BY <1>9, <1>17
  <2>2. ~Swept(s).overlapped /\ Swept(s).total + Swept(s).end - Swept(s).start = Sigma(length, 1..m)
    BY <1>12, <1>13, <2>1, WalkAddsUp
  <2>3. s # <<>>
    BY <2>1
  <2>4. Covered(stream, window) = Sigma(length, 1..m)
    BY <2>2, <2>3 DEF Covered, UnionDuration, s
  <2>5. ~SegmentsOverlap(stream, window)
    BY <2>2 DEF SegmentsOverlap, s
  <2> QED
    BY <1>1, <1>14, <1>15, <2>4, <2>5 DEF C
<1> QED
  BY <1>16, <1>17

\* So is what speaks against a summary of a resource.
LEMMA SummaryReasons ==
    /\ None # "partial" /\ None # "no overlap" /\ None # "one timestamp" /\ None # "not increasing"
    /\ None # "not tiled" /\ None # "endpoint unavailable" /\ None # "no common clock"
    /\ None # "no valid canonical stage window" /\ None # "not the same host"
BY NoneAssumption DEF Reasons

\* The sample that speaks for a moment of a window.
Speaker(stream, t) == CHOOSE i \in Later(stream) : SpeaksFor(stream, i, t)

\* What a sum over the moments of a window is, told sample by sample: a sum over the
\* contributing samples, each as often as it has moments of the window.
LEMMA MomentsAddUp ==
    ASSUME NEW stream, StreamTyped(stream), Increasing(stream), NEW window, WindowTyped(window),
           NEW A, \A i \in Contributing(stream, window) : A[i] \in Int
    PROVE  LET C == Contributing(stream, window)
               spoken == {t \in Moments(window) : \E i \in Later(stream) : SpeaksFor(stream, i, t)}
               at == [t \in spoken |-> A[Speaker(stream, t)]]
               part == [i \in C |-> A[i] * Overlap(stream, i, window)]
           IN  /\ \A t \in spoken : Speaker(stream, t) \in C
               /\ Summable(at, spoken) /\ Sigma(at, spoken) = Sigma(part, C)
<1> DEFINE C == Contributing(stream, window)
           spoken == {t \in Moments(window) : \E i \in Later(stream) : SpeaksFor(stream, i, t)}
           at == [t \in spoken |-> A[Speaker(stream, t)]]
           part == [i \in C |-> A[i] * Overlap(stream, i, window)]
           who == [t \in spoken |-> Speaker(stream, t)]
           M(i) == MomentsOf(stream, window, i)
<1>1. IsFiniteSet(C) /\ C \subseteq Later(stream)
  <2>1. C \subseteq Later(stream)
    BY DEF Contributing, Touching
  <2> QED
    BY <2>1, CoveredIs
<1>2. \A t \in spoken : who[t] \in C /\ t \in M(who[t])
  <2> TAKE t \in spoken
  <2>1. t \in Moments(window) /\ \E i \in Later(stream) : SpeaksFor(stream, i, t)
    OBVIOUS
  <2>2. who[t] \in Later(stream) /\ SpeaksFor(stream, who[t], t)
    BY <2>1 DEF Speaker
  <2> QED
    BY <2>1, <2>2, ContributingSpeaks
<1>3. \A i \in C : \A t \in M(i) : t \in spoken /\ who[t] = i
  <2> TAKE i \in C
  <2> TAKE t \in M(i)
  <2>1. t \in Moments(window) /\ i \in Later(stream)
    BY <1>1 DEF MomentsOf
  <2>2. SpeaksFor(stream, i, t)
    BY <2>1, ContributingSpeaks
  <2>3. t \in spoken
    BY <2>1, <2>2
  <2>4. who[t] \in C /\ t \in M(who[t]) /\ who[t] \in Later(stream)
    BY <1>1, <1>2, <2>3
  <2> HIDE DEF who
  <2> QED
    BY <2>1, <2>3, <2>4, MomentsApart
<1>4. \A i \in C : IsFiniteSet(M(i)) /\ Cardinality(M(i)) = Overlap(stream, i, window)
  BY <1>1, MomentsCount
<1>5. IsFiniteSet(spoken)
  <2>1. IsFiniteSet(Moments(window))
    <3>1. window.start \in Int /\ window.end - 1 \in Int
      BY DEF WindowTyped
    <3> QED
      BY <3>1, FS_Interval DEF Moments
  <2>2. spoken \subseteq Moments(window)
    OBVIOUS
  <2> HIDE DEF spoken
  <2> QED
    BY <2>1, <2>2, FS_Subset
<1>6. who \in [spoken -> C] /\ \A t \in spoken : at[t] = A[who[t]]
  BY <1>2
<1>7. \A i \in C : M(i) = {t \in spoken : who[t] = i}
  <2> TAKE i \in C
  <2> HIDE DEF who, spoken, M
  <2>1. \A t \in M(i) : t \in spoken /\ who[t] = i
    BY <1>3
  <2>2. \A t \in spoken : who[t] = i => t \in M(i)
    BY <1>2
  <2> QED
    BY <2>1, <2>2
<1>8. DOMAIN part = C /\ \A i \in C : part[i] = A[i] * Overlap(stream, i, window)
  OBVIOUS
<1>9. \A t \in spoken : Speaker(stream, t) \in C
  BY <1>2
<1> HIDE DEF who, M, at, part, C, spoken
<1>10. Summable(at, spoken)
  BY <1>2, <1>5, <1>6 DEF Summable, C
<1> DEFINE f == [i \in C |-> Sigma(at, {t \in spoken : who[t] = i})]
<1>11. Sigma(at, spoken) = Sigma(f, C)
  BY <1>1, <1>6, <1>10, SigmaFibers
<1>12. \A i \in C : f[i] = part[i] /\ f[i] \in Int
  <2> TAKE i \in C
  <2>1. f[i] = Sigma(at, M(i)) /\ \A t \in M(i) : at[t] = A[i]
    BY <1>3, <1>6, <1>7
  <2>2. A[i] \in Int /\ Cardinality(M(i)) \in Nat /\ IsFiniteSet(M(i))
    BY <1>4, FS_CardinalityType DEF C
  <2> HIDE DEF f
  <2>3. Sigma(at, M(i)) = Cardinality(M(i)) * A[i]
    BY <2>1, <2>2, SigmaConst
  <2> DEFINE o == Cardinality(M(i))
             a == A[i]
  <2>4. o \in Int /\ a \in Int /\ f[i] = o * a /\ part[i] = a * o
    BY <1>4, <1>8, <2>1, <2>2, <2>3
  <2> HIDE DEF o, a
  <2> QED
    BY <2>4
<1>13. Sigma(f, C) = Sigma(part, C)
  <2>1. Summable(f, C)
    BY <1>1, <1>12 DEF Summable
  <2> HIDE DEF f
  <2> QED
    BY <1>12, <2>1, SigmaSame
<1> QED
  BY <1>9, <1>10, <1>11, <1>13 DEF at, part, C, spoken

\* What is covered counts the moments some sample speaks for; all of them are known when
\* it is as long as the window.
LEMMA CoveredKnown ==
    ASSUME NEW stream, StreamTyped(stream), Increasing(stream), NEW window, WindowTyped(window)
    PROVE  Covered(stream, window) = window.end - window.start <=> Known(stream, window)
<1> DEFINE C == Contributing(stream, window)
           spoken == {t \in Moments(window) : \E i \in Later(stream) : SpeaksFor(stream, i, t)}
           one == [i \in C |-> 1]
           at == [t \in spoken |-> one[Speaker(stream, t)]]
           part == [i \in C |-> one[i] * Overlap(stream, i, window)]
           w == [i \in C |-> Overlap(stream, i, window)]
<1>1. IsFiniteSet(C) /\ w \in [C -> Nat \ {0}] /\ Covered(stream, window) = Sigma(w, C)
  BY CoveredIs
<1>2. \A i \in C : one[i] \in Int
  OBVIOUS
<1>3. /\ \A t \in spoken : Speaker(stream, t) \in C
      /\ Summable(at, spoken) /\ Sigma(at, spoken) = Sigma(part, C)
  <2> HIDE DEF one
  <2> QED
    BY <1>2, MomentsAddUp
<1>4. Sigma(part, C) = Sigma(w, C)
  <2>1. \A i \in C : part[i] = w[i] /\ w[i] \in Int
    BY <1>1
  <2>2. Summable(w, C)
    BY <1>1, <2>1 DEF Summable
  <2> HIDE DEF part, w
  <2> QED
    BY <2>1, <2>2, SigmaSame
<1>5. Sigma(at, spoken) = Cardinality(spoken)
  <2>1. IsFiniteSet(spoken) /\ \A t \in spoken : at[t] = 1
    BY <1>3 DEF Summable
  <2> HIDE DEF at, spoken
  <2>2. Sigma(at, spoken) = Cardinality(spoken) * 1 /\ Cardinality(spoken) \in Nat
    BY <2>1, SigmaConst, FS_CardinalityType
  <2> QED
    BY <2>2
<1> DEFINE all == Moments(window)
<1>6. IsFiniteSet(all) /\ Cardinality(all) = window.end - window.start
  <2> DEFINE a == window.start
             b == window.end - 1
  <2>1. a \in Int /\ b \in Int /\ a <= b /\ b - a + 1 = window.end - window.start
    BY DEF WindowTyped
  <2>2. all = a..b
    BY DEF Moments
  <2> HIDE DEF all, a, b
  <2> QED
    BY <2>1, <2>2, FS_Interval
<1>7. spoken \subseteq all /\ (Known(stream, window) <=> spoken = all)
  BY DEF Known, Moments
<1> HIDE DEF spoken, all, at, part, w
<1>8. Cardinality(spoken) = Cardinality(all) <=> spoken = all
  BY <1>6, <1>7, FS_Subset
<1> QED
  BY <1>1, <1>3, <1>4, <1>5, <1>6, <1>7, <1>8

\* There is no reason against a mean of an interval metric exactly when every moment of the
\* window is known.
LEMMA IntervalKnown ==
    ASSUME NEW stream, StreamTyped(stream), Increasing(stream), NEW window, WindowTyped(window)
    PROVE  IntervalReason(stream, window) = None <=> Known(stream, window)
<1>1. ~SegmentsOverlap(stream, window)
  BY CoveredIs
<1>2. "partial" # None /\ "no overlap" # None
  BY SummaryReasons
<1>3. IntervalReason(stream, window) = None
         <=> /\ Broken(stream, window) = {} /\ Touching(stream, window) # {}
             /\ Covered(stream, window) = window.end - window.start
  BY <1>1, <1>2 DEF IntervalReason
<1>4. ASSUME Known(stream, window)
      PROVE  Broken(stream, window) = {} /\ Touching(stream, window) # {}
  <2>1. ASSUME NEW i \in Broken(stream, window) PROVE FALSE
    <3>1. i \in Touching(stream, window) /\ i \in Later(stream)
      BY DEF Broken, Touching
    <3>2. PICK t \in MomentsOf(stream, window, i) : TRUE
      BY <3>1, ContributingSpeaks
    <3>3. t \in Moments(window)
      BY DEF MomentsOf
    <3>4. PICK j \in Later(stream) : SpeaksFor(stream, j, t)
      BY <1>4, <3>3 DEF Known, Moments
    <3>5. j \in Contributing(stream, window) /\ t \in MomentsOf(stream, window, j)
      BY <3>3, <3>4, ContributingSpeaks
    <3>6. i = j
      BY <3>1, <3>3, <3>5, MomentsApart
    <3> QED
      BY <3>5, <3>6 DEF Contributing
  <2>2. Touching(stream, window) # {}
    <3>1. window.start \in Moments(window)
      BY DEF Moments, WindowTyped
    <3>2. PICK j \in Later(stream) : SpeaksFor(stream, j, window.start)
      BY <1>4, <3>1 DEF Known, Moments
    <3>3. j \in Contributing(stream, window)
      BY <3>1, <3>2, ContributingSpeaks
    <3> QED
      BY <3>3 DEF Contributing
  <2> QED
    BY <2>1, <2>2
<1> QED
  BY <1>3, <1>4, CoveredKnown

\* A part of a sum is in lowest terms.
LEMMA PartLowest ==
    ASSUME NEW t \in Fraction, NEW k \in Nat \ {0}
    PROVE  Lowest(Part(t, k))
<1> DEFINE n == t.n
           d == t.d
           x == d * k
<1>1. n \in Int /\ d \in Nat \ {0}
  BY DEF Fraction
<1>2. Part(t, k) = Over(n, x)
  BY DEF Part
<1> HIDE DEF n, d
<1>3. x \in Nat \ {0}
  BY <1>1
<1> HIDE DEF x
<1> QED
  BY <1>1, <1>2, <1>3, OverLowest

\* The weighted mean over a window is the mean over its moments.
LEMMA IntervalMean ==
    ASSUME NEW stream, StreamTyped(stream), Increasing(stream), NEW window, WindowTyped(window),
           Known(stream, window)
    PROVE  OverlapWeighted(stream, window) = MeanOverInstants(stream, window)
<1> DEFINE C == Contributing(stream, window)
           w == [i \in C |-> Overlap(stream, i, window)]
           all == Moments(window)
           spoken == {t \in Moments(window) : \E i \in Later(stream) : SpeaksFor(stream, i, t)}
           values == [i \in C |-> stream[i].value]
           over == [t \in all |-> ValueAt(stream, t)]
           left == OverlapWeighted(stream, window)
           right == MeanOverInstants(stream, window)
<1>1. /\ IsFiniteSet(C) /\ w \in [C -> Nat \ {0}] /\ C \subseteq Later(stream)
      /\ Covered(stream, window) = Sigma(w, C)
  BY CoveredIs DEF Contributing, Touching
<1>2. Sigma(w, C) = window.end - window.start /\ spoken = all
  <2>1. Covered(stream, window) = window.end - window.start
    BY CoveredKnown
  <2>2. spoken = all
    BY DEF Known, Moments
  <2> QED
    BY <1>1, <2>1, <2>2
<1>3. values \in [C -> Fraction] /\ \A i \in C : values[i] = stream[i].value
  BY <1>1, ContributingSpeaks
<1>4. /\ IsFiniteSet(all) /\ Cardinality(all) = window.end - window.start
      /\ Cardinality(all) \in Nat \ {0} /\ all # {}
  <2> DEFINE a == window.start
             b == window.end - 1
  <2>1. a \in Int /\ b \in Int /\ a <= b /\ b - a + 1 = window.end - window.start
    BY DEF WindowTyped
  <2>2. all = a..b
    BY DEF Moments
  <2> HIDE DEF all, a, b
  <2>5. a \in all
    BY <2>1, <2>2
  <2>3. IsFiniteSet(all) /\ Cardinality(all) = window.end - window.start
    BY <2>1, <2>2, FS_Interval
  <2>4. Cardinality(all) \in Nat \ {0}
    BY <2>3, <2>5, FS_CardinalityType, FS_EmptySet
  <2> QED
    BY <2>3, <2>4, <2>5
<1>5. left = Weighted(stream, w) /\ right = Mean(over)
  BY DEF OverlapWeighted, MeanOverInstants, Moments
<1>6. \A t \in all : over[t] = stream[Speaker(stream, t)].value
  BY DEF ValueAt, Speaker
<1>7. DOMAIN over = all
  OBVIOUS
<1> HIDE DEF values, over, left, right
<1>8. PICK D \in Nat \ {0} : \E A \in [C -> Int] : \A i \in C : Denotes(values[i], A[i], D)
  BY <1>1, <1>3, CommonDenominator
<1>9. PICK A \in [C -> Int] : \A i \in C : Denotes(values[i], A[i], D)
  BY <1>8
<1> DEFINE at == [t \in spoken |-> A[Speaker(stream, t)]]
           part == [i \in C |-> A[i] * Overlap(stream, i, window)]
           g == [i \in C |-> A[i] * w[i]]
<1>10. /\ \A t \in spoken : Speaker(stream, t) \in C
       /\ Summable(at, spoken) /\ Sigma(at, spoken) = Sigma(part, C)
  BY MomentsAddUp
<1>11. part = g
  OBVIOUS
<1>12. \A t \in all : /\ over[t] \in Fraction /\ at[t] \in Int /\ Denotes(over[t], at[t], D)
  <2> TAKE t \in all
  <2>1. t \in spoken
    BY <1>2
  <2>2. Speaker(stream, t) \in C /\ at[t] = A[Speaker(stream, t)]
    BY <1>10, <2>1
  <2>3. over[t] = values[Speaker(stream, t)]
    BY <1>3, <1>6, <2>2
  <2> QED
    BY <1>3, <1>9, <2>2, <2>3
<1> DEFINE size == window.end - window.start
           sum == Sigma(part, C)
<1>13. C # {}
  BY <1>2, <1>4, <1>10
<1>14. left \in Fraction /\ sum \in Int /\ size \in Nat \ {0} /\ Denotes(left, sum, D * size)
  <2>1. \A i \in C : stream[i].value \in Fraction /\ A[i] \in Int /\ Denotes(stream[i].value, A[i], D)
    BY <1>3, <1>9
  <2>2. /\ Weighted(stream, w) \in Fraction /\ Summable(g, C)
        /\ Denotes(Weighted(stream, w), Sigma(g, C), D * Sigma(w, C))
    <3>1. IsFiniteSet(C) /\ C # {} /\ w \in [C -> Nat \ {0}]
      BY <1>1, <1>13
    <3>2. \A i \in C : g[i] = A[i] * w[i]
      OBVIOUS
    <3> HIDE DEF w, C, g
    <3> QED
      BY <2>1, <3>1, <3>2, WeightedDenotes
  <2>3. Sigma(g, C) \in Int
    BY <2>2, SigmaInt
  <2> HIDE DEF part, g, w
  <2> QED
    BY <1>2, <1>4, <1>5, <1>11, <2>2, <2>3
<1>15. right \in Fraction /\ Denotes(right, sum, D * size)
  <2>1. over \in [all -> Fraction] /\ at \in [all -> Int] /\ \A t \in all : Denotes(over[t], at[t], D)
    <3> HIDE DEF all
    <3>1. over = [t \in all |-> over[t]]
      BY <1>7 DEF over
    <3>2. DOMAIN at = all /\ at = [t \in all |-> at[t]]
      BY <1>2
    <3> HIDE DEF at
    <3> QED
      BY <1>12, <3>1, <3>2
  <2> HIDE DEF at, part, all, spoken
  <2>2. Mean(over) \in Fraction /\ Denotes(Mean(over), Sigma(at, all), D * Cardinality(all))
    BY <1>4, <2>1, MeanDenotes
  <2>3. Sigma(at, all) = sum
    BY <1>2, <1>10
  <2> QED
    BY <1>4, <1>5, <2>2, <2>3
<1>16. Lowest(left)
  <2> DEFINE each == [i \in C |-> Over(stream[i].value.n * w[i], stream[i].value.d)]
  <2>1. left = Part(Total(each), SumFunction(w))
    BY <1>5 DEF Weighted
  <2>2. SumFunction(w) = Sigma(w, C)
    <3>1. DOMAIN w = C /\ Summable(w, C)
      BY <1>1 DEF Summable
    <3> HIDE DEF w
    <3> QED
      BY <3>1, SumIs
  <2>3. each \in [C -> Fraction]
    <3>1. ASSUME NEW i \in C PROVE Over(stream[i].value.n * w[i], stream[i].value.d) \in Fraction
      <4> DEFINE n == stream[i].value.n
                 d == stream[i].value.d
                 v == w[i]
                 x == n * v
      <4>1. n \in Int /\ d \in Nat \ {0} /\ v \in Nat
        BY <1>1, <1>3 DEF Fraction
      <4> HIDE DEF n, d, v
      <4>2. x \in Int
        BY <4>1
      <4> HIDE DEF x
      <4>3. Over(x, d) \in Fraction
        BY <4>1, <4>2, OverIs
      <4> QED
        BY <4>3 DEF x, n, d, v
    <3> QED
      BY <3>1
  <2> HIDE DEF each, w
  <2>4. Total(each) \in Fraction
    BY <1>1, <2>3, TotalIs
  <2>5. SumFunction(w) \in Nat \ {0}
    BY <1>2, <1>4, <2>2
  <2> QED
    BY <2>1, <2>4, <2>5, PartLowest
<1>17. Lowest(right)
  <2>1. over \in [all -> Fraction]
    <3> HIDE DEF all
    <3>1. over = [t \in all |-> over[t]]
      BY <1>7 DEF over
    <3> QED
      BY <1>12, <3>1
  <2> HIDE DEF all
  <2>2. Total(over) \in Fraction /\ right = Part(Total(over), Cardinality(all))
    <3>1. Total(over) \in Fraction
      BY <1>4, <2>1, TotalIs
    <3> QED
      BY <1>5, <1>7, <3>1 DEF Mean
  <2> QED
    BY <1>4, <2>2, PartLowest
<1> HIDE DEF sum, size
<1>18. D * size \in Nat \ {0}
  BY <1>14
<1>19. left = right
  BY <1>14, <1>15, <1>16, <1>17, <1>18, LowestSame
<1> QED
  BY <1>19 DEF left, right

------------------------------------------------------------------------------
(* The summaries.                                                              *)

\* The samples of a stream of a run whose resources are not refused.
LEMMA SamplesTyped ==
    ASSUME NEW run, RunTyped(run), ~ResourcesRefused(run), NEW key \in StreamKeys(run)
    PROVE  LET S == StreamOf(run, key)
           IN  /\ IsFiniteSet(S) /\ S # {}
               /\ \A m \in S : /\ m.ts \in Int /\ m.place \in Int /\ m.available \in BOOLEAN
                               /\ m.available => m.value \in Fraction
               /\ \A m, n \in S : m.place = n.place => m = n
               /\ \A m, n \in S : m.ts = n.ts => m = n
<1> DEFINE S == StreamOf(run, key)
<1>1. /\ S \subseteq Sampled(run) /\ Sampled(run) \subseteq run.metrics /\ IsFiniteSet(run.metrics)
      /\ \A m \in S : StreamKey(m) = key
  BY DEF StreamOf, Sampled, RunTyped
<1>2. IsFiniteSet(S)
  BY <1>1, FS_Subset
<1>3. S # {}
  BY DEF StreamKeys, StreamOf
<1>4. ASSUME NEW m \in S
      PROVE  /\ m.ts \in Int /\ m.place \in Int /\ m.available \in BOOLEAN
             /\ m.available => m.value \in Fraction
  <2>1. m \in run.metrics /\ m \in Sampled(run)
    BY <1>1
  <2>2. m.value \in Fraction \cup {None} /\ m.ts \in Int /\ m.place \in Int
    BY <2>1 DEF RunTyped
  <2>3. ~SampleRefused(m)
    BY <2>1 DEF ResourcesRefused
  <2>4. m.available = (m.value # None)
    BY <2>3 DEF SampleRefused
  <2> QED
    BY <2>2, <2>4
<1>5. \A m, n \in S : m.place = n.place => m = n
  BY <1>1 DEF RunTyped
<1>6. \A m, n \in S : m.ts = n.ts => m = n
  <2> DEFINE f == [m \in S |-> m.ts]
             T == {m.ts : m \in S}
  <2>1. Cardinality(T) = Cardinality(S)
    BY DEF ResourcesRefused, DuplicateInstants
  <2>2. f \in Surjection(S, T)
    BY DEF Surjection
  <2> HIDE DEF T, f, S
  <2>3. f \in Injection(S, T)
    BY <1>2, <2>1, <2>2, FS_Surjection
  <2>4. \A m, n \in S : f[m] = f[n] => m = n
    BY <2>3 DEF Injection, IsInjective
  <2> QED
    BY <2>4 DEF f
<1> QED
  BY <1>2, <1>3, <1>4, <1>5, <1>6

\* Read in the order of the file, or of their instants, they are a stream.
LEMMA StreamsAre ==
    ASSUME NEW run, RunTyped(run), ~ResourcesRefused(run), NEW key \in StreamKeys(run)
    PROVE  /\ StreamTyped(InFileOrder(StreamOf(run, key)))
           /\ StreamTyped(ByTime(StreamOf(run, key)))
<1> DEFINE S == StreamOf(run, key)
<1>1. /\ IsFiniteSet(S)
      /\ \A m \in S : /\ m.ts \in Int /\ m.place \in Int /\ m.available \in BOOLEAN
                      /\ m.available => m.value \in Fraction
      /\ \A m, n \in S : m.place = n.place => m = n
      /\ \A m, n \in S : m.ts = n.ts => m = n
  BY SamplesTyped
<1> HIDE DEF S
<1>2. ASSUME NEW number, \A x \in S : number[x] \in Int,
             \A x, y \in S : number[x] = number[y] => x = y
      PROVE  StreamTyped(InOrderOf(S, number))
  <2> DEFINE s == InOrderOf(S, number)
             n == Cardinality(S)
  <2>1. n \in Nat /\ s \in Seq(S) /\ Len(s) = n /\ DOMAIN s = 1..n
    BY <1>1, <1>2, InOrderIs
  <2> HIDE DEF s, n
  <2>2. \A i \in 1..n : s[i] \in S
    BY <2>1
  <2> QED
    BY <1>1, <2>1, <2>2 DEF StreamTyped, s
<1>3. StreamTyped(InOrderOf(S, [m \in S |-> m.place]))
  <2> DEFINE f == [m \in S |-> m.place]
  <2>1. /\ \A x \in S : f[x] \in Int
        /\ \A x, y \in S : f[x] = f[y] => x = y
    BY <1>1
  <2> HIDE DEF f
  <2>2. StreamTyped(InOrderOf(S, f))
    BY <1>2, <2>1
  <2> QED
    BY <2>2 DEF f
<1>4. StreamTyped(InOrderOf(S, [m \in S |-> m.ts]))
  <2> DEFINE f == [m \in S |-> m.ts]
  <2>1. /\ \A x \in S : f[x] \in Int
        /\ \A x, y \in S : f[x] = f[y] => x = y
    BY <1>1
  <2> HIDE DEF f
  <2>2. StreamTyped(InOrderOf(S, f))
    BY <1>2, <2>1
  <2> QED
    BY <2>2 DEF f
<1> QED
  BY <1>3, <1>4 DEF InFileOrder, ByTime, S

\* Statistics of values: in order, their mean between their bounds, and so a weighted mean
\* of some of them.
LEMMA StatisticsHold ==
    ASSUME NEW values, IsFiniteSet(DOMAIN values), DOMAIN values # {},
           values \in [DOMAIN values -> Fraction], NEW mean, NEW weighted
    PROVE  LET s == Statistics(values, mean, weighted)
           IN  /\ InOrder(s) /\ s.mean = mean /\ s.weighted = weighted
               /\ Between(None, s) /\ Between(MeanOf(values), s)
               /\ \A S \in (SUBSET DOMAIN values) \ {{}} : \A w \in [S -> Nat \ {0}] : \A stream :
                     (\A i \in S : stream[i].value = values[i])
                        => Between(Weighted(stream, w), s)
<1> DEFINE P == DOMAIN values
           s == Statistics(values, mean, weighted)
<1>1. values \in [P -> Fraction] /\ IsFiniteSet(P)
  OBVIOUS
<1>2. PICK D \in Nat \ {0} : \E A \in [P -> Int] : \A x \in P : Denotes(values[x], A[x], D)
  <2> HIDE DEF P
  <2> QED
    BY <1>1, CommonDenominator
<1>3. PICK A \in [P -> Int] : \A x \in P : Denotes(values[x], A[x], D)
  BY <1>2
<1>4. /\ s.min \in Fraction /\ s.max \in Fraction /\ s.mean = mean /\ s.weighted = weighted
      /\ InOrder(s)
      /\ \E low \in Int, high \in Int :
            /\ Denotes(s.min, low, D) /\ Denotes(s.max, high, D)
            /\ \A i \in P : low <= A[i] /\ A[i] <= high
  BY <1>3, StatisticsIs
<1> HIDE DEF s
<1>5. PICK low \in Int, high \in Int :
            /\ Denotes(s.min, low, D) /\ Denotes(s.max, high, D)
            /\ \A i \in P : low <= A[i] /\ A[i] <= high
  BY <1>4
<1>6. Between(None, s)
  BY DEF Between
<1>7. Between(MeanOf(values), s)
  <2>1. P # {}
    OBVIOUS
  <2> HIDE DEF P
  <2>2. AtMost(s.min, Mean(values)) /\ AtMost(Mean(values), s.max)
    BY <1>1, <1>3, <1>4, <1>5, <2>1, MeanBetween
  <2> QED
    BY <2>2 DEF Between, MeanOf
<1>8. ASSUME NEW S \in (SUBSET P) \ {{}}, NEW w \in [S -> Nat \ {0}], NEW stream,
             \A i \in S : stream[i].value = values[i]
      PROVE  Between(Weighted(stream, w), s)
  <2>1. IsFiniteSet(S) /\ S # {} /\ S \subseteq P
    BY <1>1, FS_Subset
  <2>2. \A i \in S : /\ stream[i].value \in Fraction /\ A[i] \in Int
                     /\ Denotes(stream[i].value, A[i], D)
    BY <1>1, <1>3, <1>8
  <2>3. \A i \in S : low <= A[i] /\ A[i] <= high
    BY <1>5, <2>1
  <2> HIDE DEF P
  <2>4. AtMost(s.min, Weighted(stream, w)) /\ AtMost(Weighted(stream, w), s.max)
    BY <1>4, <1>5, <2>1, <2>2, <2>3, WeightedBetween
  <2> QED
    BY <2>4 DEF Between
<1>9. \A S \in (SUBSET P) \ {{}} : \A w \in [S -> Nat \ {0}] : \A stream :
         (\A i \in S : stream[i].value = values[i]) => Between(Weighted(stream, w), s)
  <2> TAKE S \in (SUBSET P) \ {{}}
  <2> TAKE w \in [S -> Nat \ {0}]
  <2> TAKE stream
  <2> QED
    BY <1>8
<1> QED
  BY <1>4, <1>6, <1>7, <1>9 DEF s

\* What a summary of a resource is to be, of which run and over which windows.
Exact(run, places, s) ==
    /\ s.statistics.min # None =>
          /\ InOrder(s.statistics) /\ Between(s.statistics.mean, s.statistics)
          /\ Between(s.statistics.weighted, s.statistics)
    /\ s.stage # None /\ s.key[1] \in IntervalNames =>
          LET stream == InFileOrder(StreamOf(run, s.key))
              window == CHOOSE w \in places : w.stage = s.stage
          IN  IF ~MayDescribe(s, stream, window) THEN s.statistics.mean = None
              ELSE /\ (s.statistics.mean # None) <=> Known(stream, window)
                   /\ s.statistics.mean # None =>
                         s.statistics.mean = MeanOverInstants(stream, window)

\* The available ones of some samples of a stream, and their values.
LEMMA KeptValues ==
    ASSUME NEW stream, StreamTyped(stream), NEW places \in SUBSET (1..Len(stream))
    PROVE  LET kept == Kept(stream, places)
               values == ValuesOf(WithValue(kept))
               P == {i \in places : stream[i].available}
           IN  /\ DOMAIN values = P /\ DOMAIN WithValue(kept) = P /\ IsFiniteSet(P)
               /\ values \in [P -> Fraction]
               /\ Count(WithValue(kept)) = Cardinality(P) /\ Count(kept) = Cardinality(places)
               /\ IsFiniteSet(places)
               /\ \A i \in P : values[i] = stream[i].value /\ values[i] \in Fraction
<1> DEFINE kept == Kept(stream, places)
           some == WithValue(kept)
           values == ValuesOf(some)
           P == {i \in places : stream[i].available}
<1>1. DOMAIN kept = places /\ \A i \in places : kept[i] = stream[i]
  BY DEF Kept
<1> HIDE DEF kept
<1>2. DOMAIN some = P /\ \A i \in P : some[i] = stream[i]
  BY <1>1 DEF WithValue, Kept
<1> HIDE DEF some
<1>3. values = [i \in P |-> stream[i].value]
  BY <1>2 DEF ValuesOf
<1>4. \A i \in P : stream[i].value \in Fraction
  BY DEF StreamTyped
<1>5. IsFiniteSet(P) /\ IsFiniteSet(places)
  <2>1. IsFiniteSet(1..Len(stream))
    <3>1. 1 \in Int /\ Len(stream) \in Int
      BY DEF StreamTyped
    <3> QED
      BY <3>1, FS_Interval
  <2> QED
    BY <2>1, FS_Subset
<1> QED
  BY <1>1, <1>2, <1>3, <1>4, <1>5 DEF Count, kept, some

\* The summary of a stream over the whole capture is what it is to be.
LEMMA CaptureHolds ==
    ASSUME NEW run, RunTyped(run), ~ResourcesRefused(run), NEW key \in StreamKeys(run), NEW places
    PROVE  Exact(run, places, CaptureSummary(run, key))
<1> DEFINE stream == ByTime(StreamOf(run, key))
           some == WithValue(stream)
           weighted == TimeWeightedMean(stream)
           values == ValuesOf(some)
           n == Len(stream)
           P == {i \in 1..n : stream[i].available}
           statistics == IF Count(some) = 0 THEN [NoStatistics EXCEPT !.weighted = weighted]
                         ELSE Statistics(values, MeanOf(values), weighted)
           s == CaptureSummary(run, key)
<1>1. StreamTyped(stream)
  BY StreamsAre
<1>2. s.stage = None /\ s.statistics = statistics
  BY DEF CaptureSummary, Summary
<1> HIDE DEF stream, s
<1>3. /\ DOMAIN some = P /\ \A i \in P : some[i] = stream[i]
      /\ \A i \in P : stream[i].value \in Fraction
      /\ DOMAIN stream = 1..n
  <2>1. DOMAIN stream = 1..n
    BY <1>1 DEF StreamTyped
  <2> QED
    BY <1>1, <2>1 DEF WithValue, Kept, StreamTyped
<1> HIDE DEF some
<1>4. values = [i \in P |-> stream[i].value]
  BY <1>3 DEF ValuesOf
<1>5. IsFiniteSet(P)
  <2>1. IsFiniteSet(1..n)
    <3>1. 1 \in Int /\ n \in Int
      BY <1>1 DEF StreamTyped
    <3> QED
      BY <3>1, FS_Interval
  <2>2. P \subseteq 1..n
    OBVIOUS
  <2> HIDE DEF P
  <2> QED
    BY <2>1, <2>2, FS_Subset
<1>6. weighted = None \/
        /\ Later(stream) \in (SUBSET P) \ {{}}
        /\ \E w \in [Later(stream) -> Nat \ {0}] : weighted = Weighted(stream, w)
  <2> SUFFICES ASSUME weighted # None
               PROVE  /\ Later(stream) \in (SUBSET P) \ {{}}
                      /\ \E w \in [Later(stream) -> Nat \ {0}] : weighted = Weighted(stream, w)
    OBVIOUS
  <2>1. WeightedReason(stream) = None
    BY DEF TimeWeightedMean
  <2>2. /\ n \in Nat /\ n >= 2
        /\ \A i \in Later(stream) : Tiles(stream, i) /\ stream[i].available
    <3>1. n \in Nat
      BY <1>1 DEF StreamTyped
    <3>2. ~(Len(stream) < 2)
      BY <2>1, SummaryReasons DEF WeightedReason
    <3>3. ~(\E i \in Later(stream) : ~Tiles(stream, i))
      BY <2>1, SummaryReasons DEF WeightedReason
    <3>4. ~(\E i \in Later(stream) : ~stream[i].available)
      BY <2>1, SummaryReasons DEF WeightedReason
    <3> QED
      BY <3>1, <3>2, <3>3, <3>4
  <2>3. 2 \in Later(stream) /\ Later(stream) \subseteq P
    BY <2>2 DEF Later
  <2> DEFINE w == [i \in Later(stream) |-> stream[i].interval]
  <2>4. weighted = Weighted(stream, w)
    BY <2>1 DEF TimeWeightedMean
  <2>5. \A i \in Later(stream) : stream[i].interval \in Nat \ {0}
    <3> TAKE i \in Later(stream)
    <3>1. i \in 1..n /\ i - 1 \in 1..n
      BY <2>2 DEF Later
    <3>2. Delta(stream, i) \in Int
      BY <1>1, <3>1 DEF Delta, StreamTyped
    <3>3. stream[i].interval > 0 /\ stream[i].interval = Delta(stream, i)
      BY <2>2 DEF Tiles
    <3> QED
      BY <3>2, <3>3
  <2>6. w \in [Later(stream) -> Nat \ {0}]
    BY <2>5
  <2> HIDE DEF w, P, weighted
  <2>7. Later(stream) # {}
    BY <2>3
  <2> QED
    BY <2>3, <2>4, <2>6, <2>7
<1> HIDE DEF weighted, values
<1>7. ASSUME Count(some) = 0 PROVE Exact(run, places, s)
  <2>1. statistics.min = None
    BY <1>7 DEF NoStatistics
  <2> HIDE DEF statistics
  <2> QED
    BY <1>2, <2>1 DEF Exact
<1>8. ASSUME Count(some) # 0 PROVE Exact(run, places, s)
  <2>1. P # {}
    BY <1>3, <1>8, FS_EmptySet DEF Count
  <2>2. DOMAIN values = P /\ values \in [DOMAIN values -> Fraction]
    BY <1>3, <1>4
  <2>3. statistics = Statistics(values, MeanOf(values), weighted)
    BY <1>8
  <2> HIDE DEF P, statistics
  <2>4. /\ InOrder(statistics) /\ statistics.mean = MeanOf(values) /\ statistics.weighted = weighted
        /\ Between(None, statistics) /\ Between(MeanOf(values), statistics)
        /\ \A S \in (SUBSET P) \ {{}} : \A w \in [S -> Nat \ {0}] : \A flow :
              (\A i \in S : flow[i].value = values[i]) => Between(Weighted(flow, w), statistics)
    BY <1>5, <2>1, <2>2, <2>3, StatisticsHold
  <2>5. Between(weighted, statistics)
    <3>1. CASE weighted = None
      BY <2>4, <3>1
    <3>2. CASE weighted # None
      <4>1. Later(stream) \in (SUBSET P) \ {{}}
        BY <1>6, <3>2
      <4>2. PICK w \in [Later(stream) -> Nat \ {0}] : weighted = Weighted(stream, w)
        BY <1>6, <3>2
      <4>3. \A i \in Later(stream) : stream[i].value = values[i]
        BY <1>4, <4>1
      <4>4. Between(Weighted(stream, w), statistics)
        BY <2>4, <4>1, <4>2, <4>3
      <4> QED
        BY <4>2, <4>4
    <3> QED
      BY <3>1, <3>2
  <2> QED
    BY <1>2, <2>4, <2>5 DEF Exact
<1> QED
  BY <1>7, <1>8 DEF s

\* A window a stage has when it is valid: whole moments on the canonical clock.
WindowOn(run, window) == window.valid => WindowTyped(window) /\ window.clock = run.canonical

\* Nothing speaks against the summary of an interval metric but what the samples do not say.
LEMMA StageReasonIs ==
    ASSUME NEW run, RunTyped(run), ~ResourcesRefused(run), NEW key \in StreamKeys(run),
           NEW window, WindowOn(run, window)
    PROVE  LET stream == InFileOrder(StreamOf(run, key))
               clock == ClockOf(run, StreamOf(run, key))
               reason == StageReason(stream, window, clock, key[1])
               may == /\ window.valid /\ clock.aligned /\ stream[1].host \in window.hosts
                      /\ Increasing(stream)
           IN  /\ reason = None => may
               /\ may => /\ WindowTyped(window) /\ StreamTyped(stream)
                         /\ reason = IF key[1] \in IntervalNames THEN IntervalReason(stream, window)
                                     ELSE PointReason(stream, window)
<1> DEFINE S == StreamOf(run, key)
           stream == InFileOrder(S)
           clock == ClockOf(run, S)
           reason == StageReason(stream, window, clock, key[1])
           may == /\ window.valid /\ clock.aligned /\ stream[1].host \in window.hosts
                  /\ Increasing(stream)
<1>1. StreamTyped(stream)
  BY StreamsAre
<1>2. clock.aligned => clock.domains = {run.canonical}
  BY DEF ClockOf
<1> HIDE DEF stream, clock
<1>3. reason = None => may
  BY SummaryReasons DEF StageReason
<1>4. ASSUME may
      PROVE  /\ WindowTyped(window)
             /\ reason = IF key[1] \in IntervalNames THEN IntervalReason(stream, window)
                         ELSE PointReason(stream, window)
  <2>1. WindowTyped(window) /\ window.clock = run.canonical
    BY <1>4 DEF WindowOn
  <2>2. window.clock \in clock.domains
    BY <1>2, <1>4, <2>1
  <2> QED
    BY <1>4, <2>1, <2>2 DEF StageReason
<1> QED
  BY <1>1, <1>3, <1>4 DEF stream, clock

\* The summary of a stream over a stage is what it is to be.
LEMMA StageHolds ==
    ASSUME NEW run, RunTyped(run), ~ResourcesRefused(run), NEW key \in StreamKeys(run),
           NEW places, NEW window \in places, WindowOn(run, window),
           \A u, v \in places : u.stage = v.stage => u = v
    PROVE  Exact(run, places, StageSummary(run, key, window))
<1> DEFINE S == StreamOf(run, key)
           stream == InFileOrder(S)
           clock == ClockOf(run, S)
           reason == StageReason(stream, window, clock, key[1])
           interval == key[1] \in IntervalNames
           may == /\ window.valid /\ clock.aligned /\ stream[1].host \in window.hosts
                  /\ Increasing(stream)
           unread == {"no valid canonical stage window", "no common clock", "not the same host"}
           held == Touching(stream, window) \ Broken(stream, window)
           inside == {i \in DOMAIN stream : window.start <= stream[i].ts /\ stream[i].ts <= window.end}
           chosen == IF reason \in unread \/ ~Increasing(stream) THEN Kept(stream, {})
                     ELSE IF interval THEN Kept(stream, held) ELSE Inside(stream, window)
           mean == IF reason # None THEN None
                   ELSE IF interval THEN OverlapWeighted(stream, window)
                   ELSE MeanOf(ValuesOf(WithValue(chosen)))
           values == ValuesOf(WithValue(chosen))
           statistics == IF reason # None THEN NoStatistics
                         ELSE Statistics(values, mean, IF interval THEN mean ELSE None)
           s == StageSummary(run, key, window)
<1>1. /\ s.key = key /\ s.stage = window.stage /\ s.statistics = statistics /\ s.clock = clock
  BY DEF StageSummary, Summary
<1>2. /\ reason = None => may
      /\ may => /\ WindowTyped(window) /\ StreamTyped(stream)
                /\ reason = IF interval THEN IntervalReason(stream, window)
                            ELSE PointReason(stream, window)
  BY StageReasonIs
<1>3. window = CHOOSE w \in places : w.stage = window.stage
  OBVIOUS
<1>4. MayDescribe(s, stream, window) <=> may
  <2> HIDE DEF s, stream, clock
  <2> QED
    BY <1>1 DEF MayDescribe
<1>5. Exact(run, places, s) <=>
         /\ statistics.min # None =>
               /\ InOrder(statistics) /\ Between(statistics.mean, statistics)
               /\ Between(statistics.weighted, statistics)
         /\ window.stage # None /\ interval =>
               IF ~may THEN statistics.mean = None
               ELSE /\ (statistics.mean # None) <=> Known(stream, window)
                    /\ statistics.mean # None =>
                          statistics.mean = MeanOverInstants(stream, window)
  <2>1. stream = InFileOrder(StreamOf(run, s.key)) /\ window = CHOOSE w \in places : w.stage = s.stage
    <3> HIDE DEF s
    <3> QED
      BY <1>1, <1>3
  <2> HIDE DEF s, stream, statistics, may
  <2> QED
    BY <1>1, <1>4, <2>1 DEF Exact
<1> HIDE DEF s, stream, clock, may, reason
<1>6. ASSUME reason # None PROVE Exact(run, places, s)
  <2>1. statistics.min = None /\ statistics.mean = None
    BY <1>6 DEF NoStatistics
  <2>2. ASSUME may, interval PROVE ~Known(stream, window)
    <3>1. IntervalReason(stream, window) # None /\ Increasing(stream)
      BY <1>2, <1>6, <2>2 DEF may
    <3> QED
      BY <1>2, <2>2, <3>1, IntervalKnown
  <2> HIDE DEF statistics
  <2> QED
    BY <1>5, <2>1, <2>2
<1>7. ASSUME reason = None PROVE Exact(run, places, s)
  <2>1. may /\ WindowTyped(window) /\ StreamTyped(stream) /\ Increasing(stream)
    BY <1>2, <1>7 DEF may
  <2>2. reason \notin unread
    BY <1>7, SummaryReasons
  <2>3. DOMAIN stream = 1..Len(stream) /\ Len(stream) \in Nat
    BY <2>1 DEF StreamTyped
  <2>4. CASE interval
    <3> DEFINE P == {i \in held : stream[i].available}
               C == Contributing(stream, window)
               w == [i \in C |-> Overlap(stream, i, window)]
    <3>1. P = C /\ held \in SUBSET (1..Len(stream))
      BY <2>3 DEF Contributing, Touching, Later
    <3>2. chosen = Kept(stream, held)
      BY <2>1, <2>2, <2>4
    <3>3. Known(stream, window)
      BY <1>2, <1>7, <2>1, <2>4, IntervalKnown
    <3>4. mean = OverlapWeighted(stream, window) /\ mean = MeanOverInstants(stream, window)
      BY <1>7, <2>1, <2>4, <3>3, IntervalMean
    <3>5. mean = Weighted(stream, w)
      BY <3>4 DEF OverlapWeighted
    <3>6. w \in [C -> Nat \ {0}]
      BY <2>1, CoveredIs
    <3>7. C # {}
      <4>1. window.start \in Moments(window)
        BY <2>1 DEF Moments, WindowTyped
      <4>2. PICK j \in Later(stream) : SpeaksFor(stream, j, window.start)
        BY <3>3, <4>1 DEF Known, Moments
      <4> QED
        BY <2>1, <4>1, <4>2, ContributingSpeaks
    <3> HIDE DEF held, mean, C, P, chosen
    <3>8. /\ DOMAIN values = C /\ IsFiniteSet(C) /\ values \in [C -> Fraction]
          /\ \A i \in C : values[i] = stream[i].value
      BY <2>1, <3>1, <3>2, KeptValues DEF P
    <3>9. statistics = Statistics(values, mean, mean)
      BY <1>7, <2>4
    <3> HIDE DEF values, statistics, w
    <3>10. /\ InOrder(statistics) /\ statistics.mean = mean /\ statistics.weighted = mean
           /\ Between(Weighted(stream, w), statistics)
      BY <3>6, <3>7, <3>8, <3>9, StatisticsHold
    <3>11. mean # None
      <4>1. Weighted(stream, w) \in Fraction
        <5>1. PICK D \in Nat \ {0} : \E A \in [C -> Int] : \A i \in C : Denotes(values[i], A[i], D)
          BY <3>8, CommonDenominator
        <5>2. PICK A \in [C -> Int] : \A i \in C : Denotes(values[i], A[i], D)
          BY <5>1
        <5>3. \A i \in C : /\ stream[i].value \in Fraction /\ A[i] \in Int
                           /\ Denotes(stream[i].value, A[i], D)
          BY <3>8, <5>2
        <5> DEFINE g == [i \in C |-> A[i] * w[i]]
        <5>4. \A i \in C : g[i] = A[i] * w[i]
          OBVIOUS
        <5> HIDE DEF g
        <5> QED
          BY <3>6, <3>7, <3>8, <5>1, <5>3, <5>4, WeightedDenotes
      <4> QED
        BY <3>5, <4>1, NoneAssumption
    <3> QED
      BY <1>5, <2>1, <3>3, <3>4, <3>5, <3>10, <3>11
  <2>5. CASE ~interval
    <3> DEFINE P == {i \in inside : stream[i].available}
    <3>1. chosen = Kept(stream, inside)
      BY <2>1, <2>2, <2>5 DEF Inside
    <3>2. PointReason(stream, window) = None
      BY <1>2, <1>7, <2>1, <2>5
    <3>3. DOMAIN Kept(stream, inside) = inside /\ \A i \in inside : Kept(stream, inside)[i] = stream[i]
      BY DEF Kept
    <3>4. Inside(stream, window) = Kept(stream, inside)
      BY DEF Inside
    <3>5. inside \in SUBSET (1..Len(stream))
      BY <2>3
    <3> HIDE DEF inside
    <3>6. inside # {} /\ \A i \in inside : stream[i].available
      <4>1. Count(Kept(stream, inside)) # 0 /\ \A i \in inside : stream[i].available
        BY <3>2, <3>3, <3>4, SummaryReasons DEF PointReason
      <4>2. inside # {}
        BY <3>3, <4>1, FS_EmptySet DEF Count
      <4> QED
        BY <4>1, <4>2
    <3>7. P = inside
      BY <3>6
    <3> HIDE DEF chosen, P
    <3>8. DOMAIN values = inside /\ IsFiniteSet(inside) /\ values \in [inside -> Fraction]
      BY <2>1, <3>1, <3>5, <3>7, KeptValues DEF P
    <3>9. statistics = Statistics(values, MeanOf(values), None)
      BY <1>7, <2>5
    <3> HIDE DEF values, statistics
    <3>10. /\ InOrder(statistics) /\ statistics.mean = MeanOf(values) /\ statistics.weighted = None
           /\ Between(None, statistics) /\ Between(MeanOf(values), statistics)
      BY <3>6, <3>8, <3>9, StatisticsHold
    <3> QED
      BY <1>5, <2>5, <3>10
  <2> QED
    BY <2>4, <2>5
<1> QED
  BY <1>6, <1>7 DEF s

------------------------------------------------------------------------------
(* The steps that make the windows and the summaries.                          *)

\* The windows of a run: what is valid is on the canonical clock, and no stage has two.
WindowsGood(run, places) ==
    /\ \A w \in places : WindowOn(run, w)
    /\ \A u, v \in places : u.stage = v.stage => u = v

LEMMA WindowsAre ==
    ASSUME NEW run, RunTyped(run), NEW pipeline
    PROVE  WindowsGood(run, CanonicalStageWindows(run, pipeline, CanonicalPairs(run)))
<1> DEFINE found == CanonicalPairs(run)
           events == Markers(run)
           window(spec) == StageWindow(run, spec, pipeline, found)
           places == CanonicalStageWindows(run, pipeline, found)
<1>1. IsFiniteSet(events) /\ None \notin events /\ \A e \in events : e.ts \in Int
  <2>1. events \subseteq run.events
    BY DEF Markers
  <2>2. IsFiniteSet(run.events)
    BY EventsFinite
  <2> QED
    BY <2>1, <2>2, FS_Subset DEF RunTyped
<1>2. \A stem \in DOMAIN found : found[stem].start.ts \in Int /\ found[stem].end.ts \in Int
  <2> TAKE stem \in DOMAIN found
  <2>1. found[stem] = Pair(events, stem) /\ Pair(events, stem).reason = None
    BY DEF CanonicalPairs
  <2> HIDE DEF found, events
  <2>2. /\ {e \in events : e.name = FirstMarker(stem)} = {Pair(events, stem).start}
        /\ {e \in events : e.name = LastMarker(stem)} = {Pair(events, stem).end}
    BY <1>1, <2>1, PairFound
  <2>3. Pair(events, stem).start \in events /\ Pair(events, stem).end \in events
    BY <2>2
  <2> QED
    BY <1>1, <2>1, <2>3
<1>3. places = {window(spec) : spec \in WindowSpecs}
  BY DEF CanonicalStageWindows
<1> HIDE DEF found
<1>4. ASSUME NEW spec \in WindowSpecs
      PROVE  WindowOn(run, window(spec)) /\ window(spec).stage = spec.stage
  <2>1. ASSUME WindowProven(run, spec, pipeline, found)
        PROVE  /\ WindowTyped(window(spec))
               /\ window(spec).clock = run.canonical
    <3> DEFINE first == found[spec.from].start
               last == found[spec.to].end
    <3>1. /\ spec.from \in DOMAIN found /\ spec.to \in DOMAIN found
          /\ first.ts < last.ts /\ first.clock = last.clock
          /\ ClockOf(run, {first, last}).aligned
      BY <2>1 DEF WindowProven
    <3>2. /\ window(spec).start = first.ts /\ window(spec).end = last.ts
          /\ window(spec).clock = first.clock
      BY <2>1, <3>1 DEF StageWindow
    <3>3. first.ts \in Int /\ last.ts \in Int
      BY <1>2, <3>1
    <3> HIDE DEF first, last, window
    <3>4. {r.clock : r \in {first, last}} = {run.canonical}
      BY <3>1 DEF ClockOf
    <3>5. first.clock = run.canonical
      BY <3>4
    <3> QED
      BY <3>1, <3>2, <3>3, <3>5 DEF WindowTyped
  <2>2. window(spec).valid = WindowProven(run, spec, pipeline, found)
           /\ window(spec).stage = spec.stage
    BY DEF StageWindow
  <2> HIDE DEF window
  <2> QED
    BY <2>1, <2>2 DEF WindowOn
<1>5. \A a, b \in WindowSpecs : a.stage = b.stage => a = b
  BY DEF WindowSpecs
<1> HIDE DEF window, places
<1>6. \A w \in places : WindowOn(run, w)
  BY <1>3, <1>4
<1>7. \A u, v \in places : u.stage = v.stage => u = v
  BY <1>3, <1>4, <1>5
<1> QED
  BY <1>6, <1>7 DEF WindowsGood, places, found

\* What the steps keep of the windows and of what the resources did in them: the windows
\* come from the markers, the summaries from the windows and the samples, once.
NotYetSampled == Before \cup {"windows"}
ResourcesInv ==
    /\ input \in Inputs
    /\ stage = "windows" => pairs = CanonicalPairs(loaded)
    /\ WindowsGood(loaded, windows)
    /\ resources # {} =>
          ~ResourcesRefused(loaded) /\ resources = SummarizeResources(loaded, windows)
    /\ stage \in NotYetSampled => resources = {}

LEMMA ResourcesInvHolds == Spec => []ResourcesInv
<1>1. Init => ResourcesInv
  BY DEF Init, ResourcesInv, WindowsGood
<1>2. ResourcesInv /\ [Next]_vars => ResourcesInv'
  <2> SUFFICES ASSUME ResourcesInv, [Next]_vars PROVE ResourcesInv'
    OBVIOUS
  <2> USE DEF ResourcesInv, loaded, Before, NotYetSampled
  <2>1. ASSUME input' = input, windows' = windows, resources' = resources,
               stage' \in NotYetSampled => stage \in NotYetSampled,
               stage' = "windows" => stage = "windows" /\ pairs' = pairs
        PROVE  ResourcesInv'
    BY <2>1
  <2>2. CASE UNCHANGED vars
    BY <2>1, <2>2 DEF vars
  <2>3. ASSUME NEW outcome, Refuse(outcome), outcome \notin NotYetSampled
        PROVE  ResourcesInv'
    BY <2>1, <2>3 DEF Refuse
  <2>4. CASE Load
    <3>1. \/ Refuse("refused_load")
          \/ stage = "load" /\ stage' = "trace" /\ UNCHANGED <<input, windows, resources>>
      BY <2>4 DEF Load
    <3> QED
      BY <2>1, <2>3, <3>1
  <2>5. CASE Trace
    <3>1. \/ Refuse("refused_trace")
          \/ stage = "trace" /\ stage' = "client" /\ UNCHANGED <<input, windows, resources>>
      BY <2>5 DEF Trace
    <3> QED
      BY <2>1, <2>3, <3>1
  <2>6. CASE RequestFacingLatency
    <3>1. \/ Refuse("refused_client")
          \/ stage = "client" /\ stage' = "pipeline" /\ UNCHANGED <<input, windows, resources>>
      BY <2>6 DEF RequestFacingLatency
    <3> QED
      BY <2>1, <2>3, <3>1
  <2>7. CASE PipelineLatency
    <3>1. CASE Refuse("refused_pipeline")
      BY <2>3, <3>1
    <3>2. CASE ~Refuse("refused_pipeline")
      <4>1. /\ stage = "pipeline" /\ stage' = "windows" /\ UNCHANGED <<input, windows, resources>>
            /\ pairs' = CanonicalPairs(loaded)
        BY <2>7, <3>2 DEF PipelineLatency
      <4> QED
        BY <4>1
    <3> QED
      BY <3>1, <3>2
  <2>8. CASE StageWindows
    <3>1. /\ stage = "windows" /\ stage' = "throughput" /\ UNCHANGED <<input, resources>>
          /\ windows' = CanonicalStageWindows(loaded, kpis.pipeline, pairs)
      BY <2>8 DEF StageWindows
    <3>2. RunTyped(loaded) /\ pairs = CanonicalPairs(loaded) /\ resources = {}
      BY <3>1, InputsAssumption
    <3>3. WindowsGood(loaded, windows')
      <4> HIDE DEF loaded
      <4> QED
        BY <3>1, <3>2, WindowsAre
    <3>4. loaded' = loaded
      BY <3>1
    <3> QED
      BY <3>1, <3>2, <3>3, <3>4
  <2>9. CASE Throughput
    <3>1. \/ Refuse("refused_throughput")
          \/ stage' = "transfer" /\ UNCHANGED <<input, windows, resources>>
      BY <2>9 DEF Throughput
    <3> QED
      BY <2>1, <2>3, <3>1
  <2>10. CASE Transfer
    <3>1. \/ Refuse("refused_transfer")
          \/ stage' = "resources" /\ UNCHANGED <<input, windows, resources>>
      BY <2>10 DEF Transfer
    <3> QED
      BY <2>1, <2>3, <3>1
  <2>11. CASE Resources
    <3>1. CASE Refuse("refused_resources")
      BY <2>3, <3>1
    <3>2. CASE ~Refuse("refused_resources")
      <4>1. /\ stage' = "report" /\ UNCHANGED <<input, windows>>
            /\ ~ResourcesRefused(loaded)
            /\ resources' = SummarizeResources(loaded, windows)
        BY <2>11, <3>2 DEF Resources
      <4> QED
        BY <4>1
    <3> QED
      BY <3>1, <3>2
  <2>12. CASE Report
    <3>1. \/ Refuse("refused_report")
          \/ stage' = "validate" /\ UNCHANGED <<input, windows, resources>>
      BY <2>12 DEF Report
    <3> QED
      BY <2>1, <2>3, <3>1
  <2>13. CASE Validate
    <3>1. stage' \in {"validated", "refused_validate"} /\ UNCHANGED <<input, windows, resources>>
      BY <2>13 DEF Validate
    <3> QED
      BY <2>1, <3>1
  <2> QED
    BY <2>2, <2>4, <2>5, <2>6, <2>7, <2>8, <2>9, <2>10, <2>11, <2>12, <2>13 DEF Next
<1> QED
  BY <1>1, <1>2, PTL DEF Spec

\* The mean of a utilization or a power over a stage is the mean over every moment of that
\* stage, there exactly when each was sampled; its order statistics are in order, and the
\* mean between them.
THEOREM StageMeansHold == Spec => []StageMeansAreExact
<1>1. ResourcesInv => StageMeansAreExact
  <2> SUFFICES ASSUME ResourcesInv PROVE StageMeansAreExact
    OBVIOUS
  <2>1. RunTyped(loaded) /\ WindowsGood(loaded, windows)
    BY InputsAssumption DEF ResourcesInv, loaded
  <2>2. \A s \in resources : Exact(loaded, windows, s)
    <3> TAKE s \in resources
    <3>1. ~ResourcesRefused(loaded) /\ s \in SummarizeResources(loaded, windows)
      BY DEF ResourcesInv
    <3> HIDE DEF loaded
    <3>2. CASE s \in {CaptureSummary(loaded, key) : key \in StreamKeys(loaded)}
      BY <2>1, <3>1, <3>2, CaptureHolds
    <3>3. CASE s \notin {CaptureSummary(loaded, key) : key \in StreamKeys(loaded)}
      <4>1. PICK key \in StreamKeys(loaded), window \in windows :
               s = StageSummary(loaded, key, window)
        BY <3>1, <3>3 DEF SummarizeResources
      <4>2. WindowOn(loaded, window) /\ \A u, v \in windows : u.stage = v.stage => u = v
        BY <2>1, <4>1 DEF WindowsGood
      <4> QED
        BY <2>1, <3>1, <4>1, <4>2, StageHolds
    <3> QED
      BY <3>2, <3>3
  <2> QED
    BY <2>2 DEF StageMeansAreExact, Exact
<1> QED
  BY <1>1, ResourcesInvHolds, PTL
=============================================================================
