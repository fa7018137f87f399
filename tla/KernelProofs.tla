--------------------------- MODULE KernelProofs ----------------------------
(* Proofs about RuntimeKernel, for any blockers and any length of history,  *)
(* about ContinuousControl, for any work, sessions and events, about        *)
(* GithubCircuit, for any number of calls, and about the worker router of   *)
(* ConnectorRuntime, for any workers, capacities and jobs.                  *)
EXTENDS RuntimeKernel, ContinuousControl, GithubCircuit, ConnectorRuntime,
        FiniteSetTheorems, WellFoundedInduction, TLAPS

-----------------------------------------------------------------------------
(* What a set of jobs costs: the fold that the router's property is stated  *)
(* with, one job at a time and in any order.                                *)
Chosen(S) == CHOOSE x \in S : TRUE

SumsOf(J, c, f) ==
    f = [s \in SUBSET J |-> IF s = {} THEN 0 ELSE c[Chosen(s)].cost + f[s \ {Chosen(s)}]]

Sums(J, c) == CHOOSE f : SumsOf(J, c, f)
CostOf(c, J) == MapThenSumSet(LAMBDA j : c[j].cost, J)

\* The fold of the library is a recursive function over the subsets.
LEMMA SumUnfolds ==
    ASSUME NEW J, NEW c
    PROVE  CostOf(c, J) = Sums(J, c)[J]
  BY DEF CostOf, Sums, MapThenSumSet, MapThenFoldSet, SumsOf, Chosen

\* A nonempty set of subsets of a finite set has a smallest member.
LEMMA SmallestSubset ==
    ASSUME NEW J, IsFiniteSet(J), NEW T \in SUBSET (SUBSET J), T # {}
    PROVE  \E s \in T : \A u \in SUBSET s : u # s => u \notin T
  <1>1. IsWellFoundedOn(StrictSubsetOrdering(J), SUBSET J)
    BY FS_StrictSubsetOrderingWellFounded, FS_FiniteSubsetsOfFinite
  <1>2. PICK s \in T : \A u \in T : <<u, s>> \notin StrictSubsetOrdering(J)
    BY <1>1, WFMin
  <1> QED  BY <1>2 DEF StrictSubsetOrdering

LEMMA ChosenIsIn == ASSUME NEW S, S # {} PROVE Chosen(S) \in S
  BY DEF Chosen

\* Where two recursions are given the same costs they agree.
LEMMA SumsAgree ==
    ASSUME NEW U, NEW V, NEW c, NEW d, NEW f, NEW g, SumsOf(U, c, f), SumsOf(V, d, g),
           NEW S \in SUBSET (U \cap V), IsFiniteSet(S), \A x \in S : c[x].cost = d[x].cost
    PROVE  f[S] = g[S]
  <1> DEFINE T == {s \in SUBSET S : f[s] # g[s]}
  <1>1. ASSUME T # {} PROVE FALSE
    <2>1. PICK s \in T : \A u \in SUBSET s : u # s => u \notin T
      <3>1. T \in SUBSET (SUBSET S)
        OBVIOUS
      <3> HIDE DEF T
      <3> QED  BY <1>1, <3>1, SmallestSubset
    <2>2. s \in SUBSET U /\ s \in SUBSET V /\ s \in SUBSET S
      OBVIOUS
    <2>3. /\ f[s] = IF s = {} THEN 0 ELSE c[Chosen(s)].cost + f[s \ {Chosen(s)}]
          /\ g[s] = IF s = {} THEN 0 ELSE d[Chosen(s)].cost + g[s \ {Chosen(s)}]
      BY <2>2 DEF SumsOf
    <2>4. s # {}
      BY <2>1, <2>3
    <2>5. Chosen(s) \in s
      BY <2>4, ChosenIsIn
    <2>6. c[Chosen(s)].cost = d[Chosen(s)].cost
      BY <2>2, <2>5
    <2>7. f[s \ {Chosen(s)}] = g[s \ {Chosen(s)}]
      BY <2>1, <2>2, <2>5
    <2> QED  BY <2>1, <2>3, <2>4, <2>6, <2>7
  <1>2. S \notin T
    BY <1>1
  <1> QED  BY <1>2

\* The recursion over the subsets of a finite set has a solution.
LEMMA SumsExist ==
    ASSUME NEW J, IsFiniteSet(J), NEW c
    PROVE  SumsOf(J, c, Sums(J, c))
  <1> DEFINE T == {s \in SUBSET J : ~SumsOf(s, c, Sums(s, c))}
  <1>1. ASSUME T # {} PROVE FALSE
    <2>1. PICK S \in T : \A u \in SUBSET S : u # S => u \notin T
      <3>1. T \in SUBSET (SUBSET J)
        OBVIOUS
      <3> HIDE DEF T
      <3> QED  BY <1>1, <3>1, SmallestSubset
    <2>2. \A u \in SUBSET S : u # S => SumsOf(u, c, Sums(u, c)) /\ IsFiniteSet(u)
      BY <2>1, FS_Subset
    <2> DEFINE sum(u) == IF u = {} THEN 0
                         ELSE c[Chosen(u)].cost + Sums(u \ {Chosen(u)}, c)[u \ {Chosen(u)}]
               f == [u \in SUBSET S |-> sum(u)]
    <2>3. ASSUME NEW u \in SUBSET S, u # S PROVE Sums(u, c)[u] = sum(u)
      <3>1. Sums(u, c)[u] = IF u = {} THEN 0 ELSE c[Chosen(u)].cost + Sums(u, c)[u \ {Chosen(u)}]
        BY <2>2, <2>3 DEF SumsOf
      <3>2. CASE u = {}
        BY <3>1, <3>2
      <3>3. CASE u # {}
        <4> DEFINE v == u \ {Chosen(u)}
        <4>1. Chosen(u) \in u
          BY <3>3, ChosenIsIn
        <4>2. v \in SUBSET S /\ v # S /\ v \in SUBSET (u \cap v)
          BY <4>1
        <4>3. SumsOf(v, c, Sums(v, c)) /\ SumsOf(u, c, Sums(u, c)) /\ IsFiniteSet(v)
          BY <4>2, <2>2, <2>3
        <4>4. Sums(u, c)[v] = Sums(v, c)[v]
          <5> HIDE DEF v
          <5> QED  BY <4>2, <4>3, SumsAgree
        <4> QED  BY <3>1, <3>3, <4>4
      <3> QED  BY <3>2, <3>3
    <2>4. ASSUME NEW u \in SUBSET S
          PROVE  f[u] = IF u = {} THEN 0 ELSE c[Chosen(u)].cost + f[u \ {Chosen(u)}]
      <3>1. CASE u = {}
        BY <3>1
      <3>2. CASE u # {}
        <4>1. Chosen(u) \in u
          BY <3>2, ChosenIsIn
        <4>2. u \ {Chosen(u)} \in SUBSET S /\ u \ {Chosen(u)} # S
          BY <4>1
        <4>3. Sums(u \ {Chosen(u)}, c)[u \ {Chosen(u)}] = sum(u \ {Chosen(u)})
          <5> HIDE DEF sum
          <5> QED  BY <4>2, <2>3
        <4>4. f[u \ {Chosen(u)}] = sum(u \ {Chosen(u)})
          BY <4>2
        <4>5. f[u] = c[Chosen(u)].cost + Sums(u \ {Chosen(u)}, c)[u \ {Chosen(u)}]
          BY <3>2
        <4> QED  BY <3>2, <4>3, <4>4, <4>5
      <3> QED  BY <3>1, <3>2
    <2>5. SumsOf(S, c, f)
      <3>1. f = [u \in SUBSET S |-> f[u]]
        OBVIOUS
      <3> HIDE DEF f
      <3> QED  BY <3>1, <2>4 DEF SumsOf
    <2>6. SumsOf(S, c, Sums(S, c))
      <3> HIDE DEF f
      <3> QED  BY <2>5 DEF Sums
    <2> QED  BY <2>1, <2>6
  <1> QED  BY <1>1

\* One job less, the chosen one: as the recursion goes.
LEMMA CostStep ==
    ASSUME NEW J, IsFiniteSet(J), NEW c
    PROVE  CostOf(c, J) = IF J = {} THEN 0 ELSE c[Chosen(J)].cost + CostOf(c, J \ {Chosen(J)})
  <1>1. SumsOf(J, c, Sums(J, c))
    BY SumsExist
  <1>2. CASE J = {}
    BY <1>1, <1>2, SumUnfolds DEF SumsOf
  <1>3. CASE J # {}
    <2> DEFINE K == J \ {Chosen(J)}
    <2>1. Sums(J, c)[J] = c[Chosen(J)].cost + Sums(J, c)[K]
      BY <1>1, <1>3 DEF SumsOf
    <2>2. IsFiniteSet(K) /\ K \in SUBSET (J \cap K)
      BY FS_Subset
    <2>3. SumsOf(K, c, Sums(K, c))
      BY <2>2, SumsExist
    <2>4. Sums(J, c)[K] = Sums(K, c)[K]
      <3> HIDE DEF K
      <3> QED  BY <1>1, <2>2, <2>3, SumsAgree
    <2>5. CostOf(c, J) = Sums(J, c)[J] /\ CostOf(c, K) = Sums(K, c)[K]
      BY SumUnfolds
    <2> QED  BY <1>3, <2>1, <2>4, <2>5
  <1> QED  BY <1>2, <1>3

\* A job's cost counts as it is: others that change do not matter.
LEMMA CostAgrees ==
    ASSUME NEW J, IsFiniteSet(J), NEW c, NEW d, \A x \in J : c[x].cost = d[x].cost
    PROVE  CostOf(c, J) = CostOf(d, J)
  BY SumsExist, SumUnfolds, SumsAgree

\* What natural costs come to is a natural number.
LEMMA CostIsNat ==
    ASSUME NEW J, IsFiniteSet(J), NEW c, \A x \in J : c[x].cost \in Nat
    PROVE  CostOf(c, J) \in Nat
  <1> DEFINE T == {s \in SUBSET J : CostOf(c, s) \notin Nat}
  <1>1. ASSUME T # {} PROVE FALSE
    <2>1. PICK s \in T : \A u \in SUBSET s : u # s => u \notin T
      <3>1. T \in SUBSET (SUBSET J)
        OBVIOUS
      <3> HIDE DEF T
      <3> QED  BY <1>1, <3>1, SmallestSubset
    <2>2. IsFiniteSet(s) /\ s \in SUBSET J
      BY FS_Subset
    <2>3. CostOf(c, s) = IF s = {} THEN 0 ELSE c[Chosen(s)].cost + CostOf(c, s \ {Chosen(s)})
      BY <2>2, CostStep
    <2>4. CASE s = {}
      BY <2>1, <2>3, <2>4
    <2>5. CASE s # {}
      <3>1. Chosen(s) \in s
        BY <2>5, ChosenIsIn
      <3>2. CostOf(c, s \ {Chosen(s)}) \in Nat /\ c[Chosen(s)].cost \in Nat
        BY <2>1, <2>2, <3>1
      <3> QED  BY <2>1, <2>3, <2>5, <3>2
    <2> QED  BY <2>4, <2>5
  <1> QED  BY <1>1

\* One job less, whichever.
LEMMA CostWithout ==
    ASSUME NEW J, IsFiniteSet(J), NEW c, \A x \in J : c[x].cost \in Nat, NEW j \in J
    PROVE  CostOf(c, J) = c[j].cost + CostOf(c, J \ {j})
  <1> DEFINE Apart(s) == \A x \in s : CostOf(c, s) = c[x].cost + CostOf(c, s \ {x})
             T == {s \in SUBSET J : ~Apart(s)}
  <1>1. ASSUME T # {} PROVE FALSE
    <2>1. PICK s \in T : \A u \in SUBSET s : u # s => u \notin T
      <3>1. T \in SUBSET (SUBSET J)
        OBVIOUS
      <3> HIDE DEF T
      <3> QED  BY <1>1, <3>1, SmallestSubset
    <2>2. IsFiniteSet(s) /\ s \in SUBSET J
      BY FS_Subset
    <2>3. PICK x \in s : CostOf(c, s) # c[x].cost + CostOf(c, s \ {x})
      BY <2>1
    <2> DEFINE y == Chosen(s)
    <2>4. y \in s /\ CostOf(c, s) = c[y].cost + CostOf(c, s \ {y})
      BY <2>2, <2>3, CostStep, ChosenIsIn
    <2>5. x # y
      BY <2>3, <2>4
    <2>6. /\ s \ {y} \in SUBSET s /\ s \ {y} # s /\ x \in s \ {y}
          /\ s \ {x} \in SUBSET s /\ s \ {x} # s /\ y \in s \ {x}
      BY <2>3, <2>4, <2>5
    <2>7. Apart(s \ {y}) /\ Apart(s \ {x})
      <3> HIDE DEF Apart, y
      <3> QED  BY <2>1, <2>2, <2>6
    <2>8. /\ CostOf(c, s \ {y}) = c[x].cost + CostOf(c, (s \ {y}) \ {x})
          /\ CostOf(c, s \ {x}) = c[y].cost + CostOf(c, (s \ {x}) \ {y})
      BY <2>6, <2>7
    <2>9. (s \ {y}) \ {x} = (s \ {x}) \ {y}
      OBVIOUS
    <2>10. c[x].cost \in Nat /\ c[y].cost \in Nat
      BY <2>2, <2>3, <2>4
    <2>11. CostOf(c, (s \ {y}) \ {x}) \in Nat
      <3>1. IsFiniteSet((s \ {y}) \ {x}) /\ \A z \in (s \ {y}) \ {x} : c[z].cost \in Nat
        BY <2>2, FS_Subset
      <3> QED  BY <3>1, CostIsNat
    <2> HIDE DEF y, Apart, T
    <2>12. \A a, b, k \in Nat : a + (b + k) = b + (a + k)
      OBVIOUS
    <2>13. c[y].cost + (c[x].cost + CostOf(c, (s \ {y}) \ {x})) = c[x].cost + (c[y].cost + CostOf(c, (s \ {y}) \ {x}))
      BY <2>10, <2>11, <2>12
    <2>14. CostOf(c, s) = c[y].cost + (c[x].cost + CostOf(c, (s \ {y}) \ {x}))
      BY <2>4, <2>8, Zenon
    <2>15. CostOf(c, s \ {x}) = c[y].cost + CostOf(c, (s \ {y}) \ {x})
      BY <2>8, <2>9, Zenon
    <2> QED  BY <2>3, <2>13, <2>14, <2>15, Zenon
  <1> QED  BY <1>1

-----------------------------------------------------------------------------
(* The worker router.                                                       *)
RouterTypeOK ==
    /\ worker \in [Workers -> [known : BOOLEAN, load : Nat, healthy : BOOLEAN]]
    /\ job \in [Jobs -> {NoJob} \cup [worker : Workers, cost : Costs]]

RouterInv == RouterTypeOK /\ NeverOvercommitted

LEMMA RouterBegins == RuntimeInit => RouterInv
  <1> SUFFICES ASSUME RuntimeInit PROVE RouterInv
    OBVIOUS
  <1>1. RouterTypeOK
    BY DEF RuntimeInit, RouterTypeOK, Unregistered
  <1>2. ASSUME NEW w \in Workers PROVE OnWorker(w) = {} /\ worker[w].load = 0
    BY RouterAssumption DEF RuntimeInit, OnWorker, NoJob, Unregistered
  <1>3. CostOf(job, {}) = 0
    BY CostStep, FS_EmptySet
  <1>4. ASSUME NEW w \in Workers PROVE worker[w].load = Held(w) /\ Held(w) <= Capacity[w]
    <2>1. Held(w) = CostOf(job, OnWorker(w))
      BY DEF Held, CostOf
    <2>2. Held(w) = 0 /\ Capacity[w] \in Nat
      BY <1>2, <1>3, <2>1, RouterAssumption
    <2> QED  BY <1>2, <2>2
  <1> QED  BY <1>1, <1>4 DEF RouterInv, NeverOvercommitted

\* What a worker holds, as the cost of the jobs on it.
LEMMA HeldIsCost ==
    ASSUME RouterTypeOK, NEW w \in Workers
    PROVE  /\ Held(w) = CostOf(job, OnWorker(w)) /\ IsFiniteSet(OnWorker(w)) /\ Held(w) \in Nat
           /\ \A j \in OnWorker(w) : j \in Jobs /\ job[j] # NoJob /\ job[j].cost \in Nat
  <1>1. Held(w) = CostOf(job, OnWorker(w))
    BY DEF Held, CostOf
  <1>2. IsFiniteSet(OnWorker(w))
    <2>1. OnWorker(w) \subseteq Jobs
      BY DEF OnWorker
    <2> QED  BY <2>1, RouterAssumption, FS_Subset
  <1>3. ASSUME NEW j \in OnWorker(w) PROVE j \in Jobs /\ job[j] # NoJob /\ job[j].cost \in Nat
    <2>1. j \in Jobs /\ job[j].worker = w
      BY DEF OnWorker
    <2>2. job[j] \in {NoJob} \cup [worker : Workers, cost : Costs]
      BY <2>1 DEF RouterTypeOK
    <2>3. job[j] # NoJob
      BY <2>1, RouterAssumption DEF NoJob
    <2> QED  BY <2>1, <2>2, <2>3, RouterAssumption
  <1>4. Held(w) \in Nat
    BY <1>1, <1>2, <1>3, CostIsNat
  <1> QED  BY <1>1, <1>2, <1>3, <1>4

LEMMA HeldAfterwards ==
    ASSUME RouterTypeOK', NEW w \in Workers
    PROVE  /\ Held(w)' = CostOf(job', OnWorker(w)') /\ IsFiniteSet(OnWorker(w)') /\ Held(w)' \in Nat
           /\ \A j \in OnWorker(w)' : job'[j].cost \in Nat
  <1>1. Held(w)' = CostOf(job', OnWorker(w)')
    BY DEF Held, CostOf, MapThenSumSet, MapThenFoldSet
  <1>2. OnWorker(w)' \subseteq Jobs /\ \A j \in OnWorker(w)' : job'[j].cost \in Nat
    <2>1. ASSUME NEW j \in OnWorker(w)' PROVE j \in Jobs /\ job'[j].worker = w
      BY <2>1 DEF OnWorker
    <2>2. ASSUME NEW j \in Jobs, job'[j].worker = w PROVE job'[j].cost \in Nat
      <3>1. job'[j] \in {NoJob} \cup [worker : Workers, cost : Costs]
        BY DEF RouterTypeOK
      <3>2. job'[j] # NoJob
        BY <2>2, RouterAssumption DEF NoJob
      <3> QED  BY <3>1, <3>2, RouterAssumption
    <2> QED  BY <2>1, <2>2
  <1>3. IsFiniteSet(OnWorker(w)')
    BY <1>2, RouterAssumption, FS_Subset
  <1>4. Held(w)' \in Nat
    BY <1>1, <1>2, <1>3, CostIsNat
  <1> QED  BY <1>1, <1>2, <1>3, <1>4

\* A worker that neither takes nor ends a job holds what it held.
LEMMA HeldStays ==
    ASSUME RouterTypeOK, RouterTypeOK', NEW w \in Workers, OnWorker(w)' = OnWorker(w),
           \A j \in OnWorker(w) : job'[j] = job[j]
    PROVE  Held(w)' = Held(w)
  <1>1. Held(w) = CostOf(job, OnWorker(w)) /\ IsFiniteSet(OnWorker(w))
    BY HeldIsCost
  <1>2. Held(w)' = CostOf(job', OnWorker(w)')
    BY DEF Held, CostOf, MapThenSumSet, MapThenFoldSet
  <1>3. CostOf(job', OnWorker(w)) = CostOf(job, OnWorker(w))
    BY <1>1, CostAgrees
  <1> QED  BY <1>1, <1>2, <1>3

\* A job moves between no worker and one.
LEMMA JobMoves ==
    ASSUME RouterTypeOK, RouterTypeOK', NEW j \in Jobs, NEW w \in Workers, NEW cost \in Costs,
           \A i \in Jobs \ {j} : job'[i] = job[i]
    PROVE  /\ \A v \in Workers \ {w} :
                job[j].worker # v /\ job'[j].worker # v => Held(v)' = Held(v)
           /\ job[j] = NoJob /\ job'[j] = [worker |-> w, cost |-> cost] => Held(w)' = cost + Held(w)
           /\ job'[j] = NoJob /\ job[j] = [worker |-> w, cost |-> cost] => Held(w) = cost + Held(w)'
  <1>1. ASSUME NEW v \in Workers, job[j].worker # v, job'[j].worker # v PROVE Held(v)' = Held(v)
    <2>1. OnWorker(v)' = OnWorker(v) /\ \A i \in OnWorker(v) : job'[i] = job[i]
      BY <1>1 DEF OnWorker
    <2> QED  BY <2>1, HeldStays
  <1>2. ASSUME job[j] = NoJob, job'[j] = [worker |-> w, cost |-> cost] PROVE Held(w)' = cost + Held(w)
    <2>1. /\ j \in OnWorker(w)' /\ OnWorker(w)' \ {j} = OnWorker(w)
          /\ \A i \in OnWorker(w) : job'[i] = job[i]
      BY <1>2, RouterAssumption DEF OnWorker, NoJob
    <2>2. /\ Held(w) = CostOf(job, OnWorker(w)) /\ IsFiniteSet(OnWorker(w))
      BY HeldIsCost
    <2>3. /\ Held(w)' = CostOf(job', OnWorker(w)') /\ IsFiniteSet(OnWorker(w)')
          /\ \A i \in OnWorker(w)' : job'[i].cost \in Nat
      BY HeldAfterwards
    <2>4. CostOf(job', OnWorker(w)') = job'[j].cost + CostOf(job', OnWorker(w)' \ {j})
      BY <2>1, <2>3, CostWithout
    <2>5. CostOf(job', OnWorker(w)) = CostOf(job, OnWorker(w))
      BY <2>1, <2>2, CostAgrees
    <2>6. CostOf(job', OnWorker(w)' \ {j}) = Held(w)
      BY <2>1, <2>2, <2>5
    <2> QED  BY <1>2, <2>3, <2>4, <2>6
  <1>3. ASSUME job'[j] = NoJob, job[j] = [worker |-> w, cost |-> cost] PROVE Held(w) = cost + Held(w)'
    <2>1. /\ j \in OnWorker(w) /\ OnWorker(w) \ {j} = OnWorker(w)'
          /\ \A i \in OnWorker(w)' : job'[i] = job[i]
      BY <1>3, RouterAssumption DEF OnWorker, NoJob
    <2>2. /\ Held(w) = CostOf(job, OnWorker(w)) /\ IsFiniteSet(OnWorker(w))
          /\ \A i \in OnWorker(w) : job[i].cost \in Nat
      BY HeldIsCost
    <2>3. Held(w)' = CostOf(job', OnWorker(w)')
      BY HeldAfterwards
    <2>4. CostOf(job, OnWorker(w)) = job[j].cost + CostOf(job, OnWorker(w) \ {j})
      BY <2>1, <2>2, CostWithout
    <2>5. IsFiniteSet(OnWorker(w)')
      BY <2>1, <2>2, FS_Subset
    <2>6. CostOf(job', OnWorker(w)') = CostOf(job, OnWorker(w)')
      BY <2>1, <2>5, CostAgrees
    <2> QED  BY <1>3, <2>1, <2>2, <2>3, <2>4, <2>6
  <1> QED  BY <1>1, <1>2, <1>3

LEMMA RouterStep ==
    ASSUME RouterInv, RouterNext
    PROVE  RouterInv'
  <1> USE DEF RouterInv
  <1>0. /\ \A w \in Workers : worker[w].load \in Nat /\ Held(w) \in Nat /\ Capacity[w] \in Nat
        /\ Costs \subseteq Nat
    BY HeldIsCost, RouterAssumption DEF RouterTypeOK
  <1>1. ASSUME NEW w \in Workers, Register(w) PROVE RouterInv'
    <2>1. RouterTypeOK'
      BY <1>1 DEF Register, RouterTypeOK
    <2>2. ASSUME NEW v \in Workers PROVE Held(v)' = Held(v)
      <3>1. OnWorker(v)' = OnWorker(v) /\ job' = job
        BY <1>1 DEF Register, OnWorker
      <3> QED  BY <2>1, <3>1, HeldStays
    <2>3. ASSUME NEW v \in Workers \ forgotten' PROVE worker'[v].load = Held(v)' /\ Held(v)' <= Capacity[v]
      <3>1. v \notin forgotten /\ (v = w => OnWorker(w) = {})
        BY <1>1 DEF Register
      <3>2. CASE v = w
        <4>1. worker'[v].load = 0
          BY <1>1, <3>2 DEF Register, RouterTypeOK
        <4>2. Held(v) = CostOf(job, {})
          BY <3>1, <3>2, HeldIsCost
        <4>3. CostOf(job, {}) = 0
          BY CostStep, FS_EmptySet
        <4> QED  BY <1>0, <2>2, <4>1, <4>2, <4>3
      <3>3. CASE v # w
        <4>1. worker'[v] = worker[v]
          BY <1>1, <3>3 DEF Register, RouterTypeOK
        <4> QED  BY <2>2, <3>1, <4>1 DEF NeverOvercommitted
      <3> QED  BY <3>2, <3>3
    <2> QED  BY <2>1, <2>3 DEF NeverOvercommitted
  <1>2. ASSUME NEW w \in Workers, NEW healthy \in BOOLEAN, Heartbeat(w, healthy) PROVE RouterInv'
    <2>1. RouterTypeOK' /\ UNCHANGED <<job, forgotten>> /\ \A v \in Workers : worker'[v].load = worker[v].load
      BY <1>2 DEF Heartbeat, RouterTypeOK
    <2>2. ASSUME NEW v \in Workers PROVE Held(v)' = Held(v)
      <3>1. OnWorker(v)' = OnWorker(v)
        BY <2>1 DEF OnWorker
      <3> QED  BY <2>1, <3>1, HeldStays
    <2> QED  BY <2>1, <2>2 DEF NeverOvercommitted
  <1>3. ASSUME NEW j \in Jobs, NEW cost \in Costs, NEW skill, Dispatch(j, cost, skill) PROVE RouterInv'
    <2>1. PICK w \in HasRoom(cost, skill) :
            /\ worker' = [worker EXCEPT ![w].load = worker[w].load + cost]
            /\ job' = [job EXCEPT ![j] = [worker |-> w, cost |-> cost]]
      BY <1>3 DEF Dispatch
    <2>2. w \in Workers /\ worker[w].load + cost <= Capacity[w] /\ job[j] = NoJob /\ forgotten' = forgotten
      BY <1>3 DEF HasRoom, Fits, Dispatch
    <2>3. cost \in Nat /\ worker[w].load + cost \in Nat
      BY <1>0, <2>2
    <2>4. /\ RouterTypeOK' /\ job'[j] = [worker |-> w, cost |-> cost] /\ \A i \in Jobs \ {j} : job'[i] = job[i]
          /\ worker'[w].load = worker[w].load + cost /\ \A v \in Workers \ {w} : worker'[v] = worker[v]
      BY <2>1, <2>2, <2>3 DEF RouterTypeOK
    <2>5. Held(w)' = cost + Held(w) /\ \A v \in Workers \ {w} : Held(v)' = Held(v)
      <3>1. \A v \in Workers \ {w} : job[j].worker # v /\ job'[j].worker # v
        BY <2>2, <2>4, RouterAssumption DEF NoJob
      <3> QED  BY <2>2, <2>4, <3>1, JobMoves
    <2> QED  BY <1>0, <2>2, <2>3, <2>4, <2>5 DEF NeverOvercommitted
  <1>4. ASSUME NEW j \in Jobs, Release(j) PROVE RouterInv'
    <2>0. PICK w \in Workers, cost \in Costs : job[j] = [worker |-> w, cost |-> cost]
      BY <1>4 DEF Release, RouterTypeOK
    <2>1. /\ job[j] = [worker |-> w, cost |-> cost] /\ forgotten' = forgotten
          /\ worker' = [worker EXCEPT ![w].load = IF cost > worker[w].load THEN 0 ELSE worker[w].load - cost]
          /\ job' = [job EXCEPT ![j] = NoJob]
      BY <1>4, <2>0 DEF Release, Lowered
    <2>2. (IF cost > worker[w].load THEN 0 ELSE worker[w].load - cost) \in Nat
      BY <1>0, <2>1
    <2>3. /\ RouterTypeOK' /\ job'[j] = NoJob /\ \A i \in Jobs \ {j} : job'[i] = job[i]
          /\ worker'[w].load = (IF cost > worker[w].load THEN 0 ELSE worker[w].load - cost)
          /\ \A v \in Workers \ {w} : worker'[v] = worker[v]
      BY <2>1, <2>2 DEF RouterTypeOK
    <2>4. Held(w) = cost + Held(w)' /\ \A v \in Workers \ {w} : Held(v)' = Held(v)
      <3>1. \A v \in Workers \ {w} : job[j].worker # v /\ job'[j].worker # v
        BY <2>1, <2>3, RouterAssumption DEF NoJob
      <3> QED  BY <2>1, <2>3, <3>1, JobMoves
    <2>5. Held(w)' \in Nat
      BY <2>1, <2>3, HeldAfterwards
    <2> QED  BY <1>0, <2>1, <2>3, <2>4, <2>5 DEF NeverOvercommitted
  <1>5. ASSUME NEW w \in Workers, NEW cost \in Costs, ReleaseAgain(w, cost) PROVE RouterInv'
    <2>1. /\ worker' = [worker EXCEPT ![w].load = IF cost > worker[w].load THEN 0 ELSE worker[w].load - cost]
          /\ forgotten' = forgotten \cup {w} /\ job' = job
      BY <1>5 DEF ReleaseAgain, Lowered
    <2>2. (IF cost > worker[w].load THEN 0 ELSE worker[w].load - cost) \in Nat
      BY <1>0
    <2>3. RouterTypeOK' /\ \A v \in Workers \ {w} : worker'[v] = worker[v]
      BY <2>1, <2>2 DEF RouterTypeOK
    <2>4. ASSUME NEW v \in Workers PROVE Held(v)' = Held(v)
      <3>1. OnWorker(v)' = OnWorker(v)
        BY <2>1 DEF OnWorker
      <3> QED  BY <2>1, <2>3, <3>1, HeldStays
    <2> QED  BY <2>1, <2>3, <2>4 DEF NeverOvercommitted
  <1> QED  BY <1>1, <1>2, <1>3, <1>4, <1>5 DEF RouterNext

\* No worker whose load the router still knows holds more than it can take,
\* and that load is what its jobs cost.
THEOREM LoadIsWhatIsHeld == RuntimeSpec => []NeverOvercommitted
  <1>1. RouterInv /\ [RouterNext \/ ConnectorNext]_runtimeVars => RouterInv'
    <2> SUFFICES ASSUME RouterInv, [RouterNext \/ ConnectorNext]_runtimeVars PROVE RouterInv'
      OBVIOUS
    <2>1. CASE UNCHANGED routerVars
      <3>1. RouterTypeOK' /\ UNCHANGED <<worker, job, forgotten>>
        BY <2>1 DEF RouterInv, RouterTypeOK, routerVars
      <3>2. ASSUME NEW v \in Workers PROVE Held(v)' = Held(v)
        <4>1. OnWorker(v)' = OnWorker(v)
          BY <3>1 DEF OnWorker
        <4> QED  BY <3>1, <4>1, HeldStays DEF RouterInv
      <3> QED  BY <3>1, <3>2 DEF RouterInv, NeverOvercommitted
    <2>2. ConnectorNext \/ UNCHANGED runtimeVars => UNCHANGED routerVars
      BY DEF ConnectorNext, Rest, BeginCall, AttemptSucceeds, AttemptFails, runtimeVars, routerVars
    <2> QED  BY <2>1, <2>2, RouterStep
  <1>2. RouterInv => NeverOvercommitted
    BY DEF RouterInv
  <1> QED  BY <1>1, <1>2, RouterBegins, PTL DEF RuntimeSpec

-----------------------------------------------------------------------------
(* The kernel.                                                              *)
USE KernelAssumption

\* The stages that are behind a task in a phase: they must be fresh there.
Tested == {"context_recovery", "execution", "test", "adversarial_test"}
Observed == {"context_recovery", "observation"}

Behind(t, p) ==
    IF t.mode = "observation" THEN
      CASE p \in {"ready", "observing"} -> {"context_recovery"}
        [] p \in {"verifying", "repairing"} -> Observed
        [] p = "readback" -> Observed \cup {"verification"}
        [] p = "complete" -> Observed \cup {"verification", "readback"}
        [] OTHER -> {}
    ELSE
      CASE p \in {"ready", "executing"} -> {"context_recovery"}
        [] p = "testing" -> {"context_recovery", "execution"}
        [] p = "repairing" -> {"context_recovery"} \cup (IF "outcome" \in t.reasons THEN {} ELSE {"execution"})
        [] p = "adversarial_testing" -> {"context_recovery", "execution", "test"}
        [] p = "verifying" -> Tested
        [] p \in {"verified", "persisting"} -> Tested \cup {"verification"}
        [] p = "readback" -> Tested \cup {"verification", "persistence"}
        [] p = "complete" -> StageKinds \ {"observation"}
        [] OTHER -> {}

\* The phases a bound task may be in.
Working(t) ==
    IF t.mode = "observation"
    THEN {"context_recovering", "ready", "observing", "repairing", "verifying", "readback"}
    ELSE Phases \ {"bootstrapped", "observing", "complete", "blocked"}

\* A blocked task stands where it was blocked.
Stand == IF phase = "blocked" THEN frozen ELSE phase

\* A task has in fresh what is behind the phase it is in or will go back to.
KernelInv ==
    /\ phase \in Phases /\ task \in Task \cup {NoTask} /\ archived \in 0..MaxTasks
    /\ fresh \subseteq StageKinds /\ frozen \in Phases \cup {"none"}
    /\ task = NoTask <=> phase = "bootstrapped"
    /\ task # NoTask =>
         /\ Stand \in Working(task) \cup {"complete"}
         /\ Behind(task, Stand) \subseteq fresh
    /\ phase = "blocked" =>
         task.blockers # {} /\ task.resume = frozen /\ frozen \in Working(task)
    /\ phase = "complete" => task.blockers = {}

-----------------------------------------------------------------------------
LEMMA Later ==
    /\ LaterThan("context_recovery") = StageKinds \ {"context_recovery"}
    /\ LaterThan("observation") = StageKinds \ Observed
    /\ LaterThan("execution") = StageKinds \ (Observed \cup {"execution"})
    /\ LaterThan("test") = {"adversarial_test", "verification", "persistence", "readback"}
    /\ LaterThan("adversarial_test") = {"verification", "persistence", "readback"}
    /\ LaterThan("verification") = {"persistence", "readback"}
    /\ LaterThan("persistence") = {"readback"}
    /\ LaterThan("readback") = {}
  <1>1. \A n \in 1..8 : n \in {1, 2, 3, 4, 5, 6, 7, 8}
    OBVIOUS
  <1>2. /\ Stages[1] = "context_recovery" /\ Stages[2] = "observation" /\ Stages[3] = "execution"
        /\ Stages[4] = "test" /\ Stages[5] = "adversarial_test" /\ Stages[6] = "verification"
        /\ Stages[7] = "persistence" /\ Stages[8] = "readback"
    BY DEF Stages
  <1>3. StageKinds = {"context_recovery", "observation", "execution", "test", "adversarial_test",
                      "verification", "persistence", "readback"}
    BY <1>1, <1>2 DEF StageKinds
  <1> QED  BY <1>1, <1>2, <1>3 DEF LaterThan, Observed

LEMMA KindFacts ==
    StageKinds = {"context_recovery", "observation", "execution", "test", "adversarial_test",
                  "verification", "persistence", "readback"}
  <1>1. \A n \in 1..8 : n \in {1, 2, 3, 4, 5, 6, 7, 8}
    OBVIOUS
  <1> QED  BY <1>1 DEF StageKinds, Stages

\* What the updates of a task leave of it.
LEMMA TaskUpdates ==
    ASSUME NEW t \in Task
    PROVE  t # NoTask /\ t.mode \in {"observation", "mutation"} /\ t.blockers \subseteq Blockers
  <1>1. t.mode \in Modes /\ t.blockers \subseteq Blockers
    BY DEF Task
  <1> QED  BY <1>1 DEF Modes, ReceiptRequirements, NoTask

LEMMA Recording ==
    ASSUME task \in Task, NEW k \in StageKinds, NEW ok \in BOOLEAN
    PROVE  /\ Recorded(k, ok) \in Task /\ Recorded(k, ok).mode = task.mode
           /\ Recorded(k, ok).reasons = task.reasons
  BY DEF Recorded, Task

LEMMA Repairing ==
    ASSUME NEW t \in Task, NEW r \in Reasons
    PROVE  LET u == [t EXCEPT !.reasons = @ \cup {r}]
           IN  u \in Task /\ u.mode = t.mode /\ r \in u.reasons
  BY DEF Task

LEMMA Gaining ==
    ASSUME NEW t \in Task, NEW gains \in BOOLEAN
    PROVE  LET u == [t EXCEPT !.gains = @ \/ gains] IN u \in Task /\ u.mode = t.mode
  <1>1. t.gains \in BOOLEAN
    BY DEF Task
  <1>2. (t.gains \/ gains) \in BOOLEAN
    OBVIOUS
  <1> QED  BY <1>1, <1>2 DEF Task

LEMMA TaskBlocks ==
    ASSUME task \in Task, NEW b \in Blockers, ResumePhase \in Phases \cup {"none"},
           task' = [task EXCEPT !.blockers = task.blockers \cup {b}, !.resume = ResumePhase]
    PROVE  /\ task' \in Task /\ task'.mode = task.mode /\ task'.reasons = task.reasons
           /\ task'.blockers = task.blockers \cup {b} /\ task'.resume = ResumePhase
  <1>1. task.blockers \cup {b} \in SUBSET Blockers
    BY TaskUpdates
  <1>2. PICK t \in Task : t = [task EXCEPT !.blockers = task.blockers \cup {b}]
    BY <1>1 DEF Task
  <1>3. /\ t.mode = task.mode /\ t.reasons = task.reasons /\ t.blockers = task.blockers \cup {b}
    BY <1>2 DEF Task
  <1>4. task' = [t EXCEPT !.resume = ResumePhase]
    BY <1>2
  <1>5. task' \in Task /\ task'.resume = ResumePhase /\ task'.mode = t.mode
        /\ task'.reasons = t.reasons /\ task'.blockers = t.blockers
    BY <1>4 DEF Task
  <1> QED  BY <1>3, <1>5

LEMMA TaskFreed ==
    ASSUME task \in Task, task' = [task EXCEPT !.blockers = {}, !.resume = "none"]
    PROVE  /\ task' \in Task /\ task'.mode = task.mode /\ task'.reasons = task.reasons
           /\ task'.blockers = {} /\ task'.resume = "none"
  BY DEF Task

LEMMA Unblocking ==
    ASSUME NEW t \in Task, NEW bs \in SUBSET Blockers, NEW u, u = [t EXCEPT !.blockers = bs]
    PROVE  /\ u \in Task /\ u.mode = t.mode /\ u.reasons = t.reasons
           /\ u.blockers = bs /\ u.resume = t.resume
  BY DEF Task

\* A task that is not blocked goes on to a phase whose past is fresh.
LEMMA TaskMoves ==
    ASSUME KernelInv, task \in Task, phase # "blocked",
           task' \in Task, task'.mode = task.mode,
           phase' \in Working(task) \cup {"complete"}, UNCHANGED <<archived, frozen>>,
           fresh' \subseteq StageKinds, Behind(task', phase') \subseteq fresh',
           phase' = "complete" => task'.blockers = {}
    PROVE  KernelInv'
  <1>1. task # NoTask /\ task' # NoTask
    BY TaskUpdates
  <1>2. phase' \in Phases \ {"bootstrapped", "blocked"}
    BY DEF Working, Phases
  <1>3. Stand' = phase' /\ Working(task)' = Working(task)
    BY <1>2 DEF Stand, Working
  <1>4. Behind(task, Stand)' = Behind(task', phase')
    BY <1>2 DEF Stand, Behind
  <1> QED  BY <1>1, <1>2, <1>3, <1>4 DEF KernelInv

LEMMA FreshTyped ==
    ASSUME KernelInv, NEW k \in StageKinds, NEW ok \in BOOLEAN, Freshly(k, ok)
    PROVE  fresh' \subseteq StageKinds
  BY DEF KernelInv, Freshly

LEMMA KernelBegins == KernelInit => KernelInv
  BY DEF KernelInit, KernelInv, Phases

LEMMA KernelSteps == KernelInv /\ [KernelNext]_kernelVars => KernelInv'
  <1> SUFFICES ASSUME KernelInv, [KernelNext]_kernelVars PROVE KernelInv'
    OBVIOUS
  <1> USE DEF KernelInv, Stand, Working, Behind, Phases, Tested, Observed
  <1>1. NoTask \notin Task /\ \A t \in Task : t.mode \in {"observation", "mutation"}
    BY DEF NoTask, Task, Modes, ReceiptRequirements
  <1>2. CASE UNCHANGED kernelVars
    BY <1>2 DEF kernelVars
  <1>3. CASE BindRefused
    BY <1>3 DEF BindRefused
  <1>4. ASSUME NEW mode \in Modes, BindTask(mode) PROVE KernelInv'
    <2>1. NewTask(mode) \in Task
      BY DEF NewTask, Task, Modes, ReceiptRequirements
    <2>2. task' = NewTask(mode) /\ phase' = "context_recovering" /\ fresh' = {} /\ frozen' = frozen
      BY <1>4 DEF BindTask, Proceed
    <2>3. archived' \in 0..MaxTasks
      BY <1>4 DEF BindTask
    <2>4. task' # NoTask
      BY <1>1, <2>1, <2>2
    <2> QED  BY <2>1, <2>2, <2>3, <2>4, TaskUpdates DEF NewTask
  <1>5. CASE RecordContextRecovery
    BY <1>5, <1>1, Later, KindFacts DEF RecordContextRecovery, InPhase, Proceed, Recorded, Freshly, Task
  <1>6. CASE Begin
    BY <1>6, <1>1 DEF Begin, InPhase, InMode, Proceed
  <1>7. CASE RecordObservation
    BY <1>7, <1>1, Later, KindFacts DEF RecordObservation, InPhase, InMode, Proceed, Recorded, Freshly, Task
  <1>8. CASE RecordExecution
    BY <1>8, <1>1, Later, KindFacts DEF RecordExecution, InPhase, InMode, Proceed, Recorded, Freshly, Task
  <1>9. ASSUME NEW passed \in BOOLEAN, RecordTest(passed) \/ RecordAdversarialTest(passed) PROVE KernelInv'
    <2>1. PICK kind \in {"test", "adversarial_test"} :
            /\ phase = IF kind = "test" THEN "testing" ELSE "adversarial_testing"
            /\ TestStage(kind, phase, IF kind = "test" THEN "adversarial_testing" ELSE "verifying", passed)
      BY <1>9 DEF RecordTest, RecordAdversarialTest, TestStage, InPhase
    <2>2. /\ task \in Task /\ task.mode = "mutation" /\ Freshly(kind, passed)
          /\ UNCHANGED <<archived, frozen>> /\ kind \in StageKinds
      BY <2>1, KindFacts DEF TestStage, InPhase, InMode
    <2> DEFINE t == Recorded(kind, passed)
    <2>3. t \in Task /\ t.mode = "mutation" /\ t.reasons = task.reasons
      BY <2>2, Recording
    <2>4. fresh' \subseteq StageKinds
      BY <2>2, FreshTyped
    <2>5. CASE passed
      <3>1. task' = t /\ phase' = IF kind = "test" THEN "adversarial_testing" ELSE "verifying"
        BY <2>1, <2>5 DEF TestStage, Proceed
      <3>2. Behind(t, phase') \subseteq fresh'
        BY <2>1, <2>2, <2>3, <2>5, <3>1, Later DEF Freshly
      <3> HIDE DEF t
      <3> QED  BY <2>1, <2>2, <2>3, <2>4, <3>1, <3>2, TaskMoves
    <2>6. CASE ~passed
      <3> DEFINE u == [t EXCEPT !.reasons = @ \cup {"test"}]
      <3>1. task' = u /\ phase' = "repairing"
        BY <2>1, <2>6 DEF TestStage, Repair
      <3>2. u \in Task /\ u.mode = "mutation"
        BY <2>3, Repairing DEF Reasons
      <3>3. {"context_recovery", "execution"} \subseteq fresh'
        BY <2>1, <2>2, <2>6, Later DEF Freshly
      <3> HIDE DEF t, u
      <3> QED  BY <2>1, <2>2, <2>4, <3>1, <3>2, <3>3, TaskMoves
    <2> QED  BY <2>5, <2>6
  <1>10. CASE RecordRepair
    BY <1>10, <1>1, Later, KindFacts DEF RecordRepair, RepairedTo, InPhase, InMode, Proceed, Task
  <1>11. ASSUME NEW passed \in BOOLEAN, NEW gains \in BOOLEAN, RecordVerification(passed, gains)
         PROVE KernelInv'
    <2>1. /\ task \in Task /\ phase = "verifying" /\ Freshly("verification", passed)
          /\ UNCHANGED <<archived, frozen>> /\ "verification" \in StageKinds
      BY <1>11, KindFacts DEF RecordVerification, InPhase
    <2> DEFINE t == Recorded("verification", passed)
    <2>2. t \in Task /\ t.mode = task.mode /\ t.reasons = task.reasons
      BY <2>1, Recording
    <2>3. fresh' \subseteq StageKinds
      BY <2>1, FreshTyped
    <2>4. CASE ~passed \/ (InMode("mutation") /\ ~gains)
      <3> DEFINE u == [t EXCEPT !.reasons = @ \cup {"outcome"}]
      <3>1. task' = u /\ phase' = "repairing"
        BY <1>11, <2>4 DEF RecordVerification, Repair
      <3>2. u \in Task /\ u.mode = task.mode /\ "outcome" \in u.reasons
        BY <2>2, Repairing DEF Reasons
      <3>3. Behind(u, "repairing") \subseteq fresh'
        BY <2>1, <3>2, Later, TaskUpdates DEF Freshly
      <3> HIDE DEF t, u
      <3> QED  BY <2>1, <2>3, <3>1, <3>2, <3>3, TaskMoves
    <2>5. CASE ~(~passed \/ (InMode("mutation") /\ ~gains))
      <3> DEFINE u == [t EXCEPT !.gains = @ \/ gains]
      <3>1. /\ task' = u /\ passed
            /\ phase' = IF task.mode = "observation" THEN "readback" ELSE "verified"
        BY <1>11, <2>5 DEF RecordVerification, Proceed, InMode
      <3>2. u \in Task /\ u.mode = task.mode
        BY <2>2, Gaining
      <3>3. Behind(u, phase') \subseteq fresh'
        BY <2>1, <3>1, <3>2, Later, TaskUpdates DEF Freshly
      <3> HIDE DEF t, u
      <3> QED  BY <2>1, <2>3, <3>1, <3>2, <3>3, TaskMoves
    <2> QED  BY <2>4, <2>5
  <1>12. CASE GainsRefused
    BY <1>12, <1>1, Later, KindFacts DEF GainsRefused, InPhase, Proceed, Recorded, Freshly, Task
  <1>13. CASE BeginPersistence
    BY <1>13, <1>1 DEF BeginPersistence, InPhase, InMode, Proceed
  <1>14. CASE RecordPersistence
    BY <1>14, <1>1, Later, KindFacts DEF RecordPersistence, InPhase, InMode, Proceed, Recorded, Freshly, Task
  <1>15. ASSUME NEW ok \in BOOLEAN, RecordReadback(ok) PROVE KernelInv'
    <2>1. /\ task \in Task /\ phase = "readback" /\ Freshly("readback", ok)
          /\ UNCHANGED <<archived, frozen>> /\ "readback" \in StageKinds
      BY <1>15, KindFacts DEF RecordReadback, InPhase
    <2> DEFINE t == Recorded("readback", ok)
    <2>2. t \in Task /\ t.mode = task.mode /\ t.reasons = task.reasons
      BY <2>1, Recording
    <2>3. fresh' \subseteq StageKinds
      BY <2>1, FreshTyped
    <2>4. CASE ok /\ NoCompletionGaps(t)
      <3>1. task' = t /\ phase' = "complete" /\ t.blockers = {}
        BY <1>15, <2>4 DEF RecordReadback, Proceed, NoCompletionGaps
      <3>2. Behind(t, "complete") \subseteq fresh'
        BY <2>1, <2>2, <2>4, Later, KindFacts, TaskUpdates DEF Freshly
      <3> HIDE DEF t
      <3> QED  BY <2>1, <2>2, <2>3, <3>1, <3>2, TaskMoves
    <2>5. CASE ~(ok /\ NoCompletionGaps(t))
      <3> DEFINE u == [t EXCEPT !.reasons = @ \cup {"outcome"}]
      <3>1. task' = u /\ phase' = "repairing"
        BY <1>15, <2>5 DEF RecordReadback, Repair
      <3>2. u \in Task /\ u.mode = task.mode /\ "outcome" \in u.reasons
        BY <2>2, Repairing DEF Reasons
      <3>3. Behind(u, "repairing") \subseteq fresh'
        BY <2>1, <3>2, Later, TaskUpdates DEF Freshly
      <3> HIDE DEF t, u
      <3> QED  BY <2>1, <2>3, <3>1, <3>2, <3>3, TaskMoves
    <2> QED  BY <2>4, <2>5
  <1>16. ASSUME NEW b \in Blockers, Block(b) PROVE KernelInv'
    <2>1. /\ task \in Task /\ phase # "complete" /\ UNCHANGED <<archived, fresh>>
          /\ task' = [task EXCEPT !.blockers = task.blockers \cup {b}, !.resume = ResumePhase]
      BY <1>16 DEF Block
    <2>2. ResumePhase \in Phases \cup {"none"}
      BY <2>1 DEF ResumePhase, Task
    <2>4. /\ task' \in Task /\ task'.mode = task.mode /\ task'.reasons = task.reasons
          /\ task'.blockers = task.blockers \cup {b} /\ task'.resume = ResumePhase
      BY <2>1, <2>2, TaskBlocks
    <2>5. CASE Continues
      <3>1. UNCHANGED <<phase, frozen>> /\ phase = "executing"
        BY <1>16, <2>5 DEF Block, Continues
      <3> QED  BY <1>1, <2>1, <2>4, <3>1
    <2>6. CASE ~Continues
      <3>1. phase' = "blocked" /\ frozen' = IF phase = "blocked" THEN frozen ELSE phase
        BY <1>16, <2>6 DEF Block
      <3>2. ResumePhase = IF phase = "blocked" THEN task.resume ELSE phase
        BY <2>6 DEF ResumePhase
      <3> QED  BY <1>1, <2>1, <2>4, <3>1, <3>2
    <2> QED  BY <2>5, <2>6
  <1>17. ASSUME NEW b \in Blockers, ResolveBlocker(b) PROVE KernelInv'
    <2>1. task \in Task /\ UNCHANGED <<archived, fresh>>
      BY <1>17 DEF ResolveBlocker
    <2>4. task.blockers \ {b} \in SUBSET Blockers
      BY <2>1, TaskUpdates
    <2>2. CASE task.blockers = {b} /\ phase = "blocked"
      <3>1. task' = [task EXCEPT !.blockers = {}, !.resume = "none"] /\ phase' = frozen /\ frozen' = "none"
        BY <1>17, <2>2 DEF ResolveBlocker, ResumeTo
      <3>2. task' \in Task /\ task'.mode = task.mode /\ task'.reasons = task.reasons /\ task'.blockers = {}
        BY <2>1, <3>1, TaskFreed
      <3> QED  BY <1>1, <2>1, <2>2, <3>1, <3>2
    <2>3. CASE ~(task.blockers = {b} /\ phase = "blocked")
      <3>1. task' = [task EXCEPT !.blockers = task.blockers \ {b}] /\ UNCHANGED <<phase, frozen>>
        BY <1>17, <2>3 DEF ResolveBlocker
      <3>2. /\ task' \in Task /\ task'.mode = task.mode /\ task'.reasons = task.reasons
            /\ task'.blockers = task.blockers \ {b} /\ task'.resume = task.resume
        BY <2>1, <2>4, <3>1, Unblocking
      <3> QED  BY <1>1, <1>17, <2>1, <2>3, <3>1, <3>2 DEF ResolveBlocker
    <2> QED  BY <2>2, <2>3
  <1> QED
    BY <1>2, <1>3, <1>4, <1>5, <1>6, <1>7, <1>8, <1>9, <1>10, <1>11, <1>12, <1>13, <1>14, <1>15,
       <1>16, <1>17 DEF KernelNext

LEMMA KernelHolds == KernelSpec => []KernelInv
  BY KernelBegins, KernelSteps, PTL DEF KernelSpec

\* A task completes only on a success of every stage of its mode that no later
\* attempt at an earlier stage and no repair has overtaken.
THEOREM FreshCompletion == KernelSpec => []CompletionIsFresh
  <1>1. KernelInv => CompletionIsFresh
    BY KindFacts DEF KernelInv, CompletionIsFresh, Stand, Behind, Observed, ReceiptRequirements, Task, Modes, NoTask
  <1> QED  BY <1>1, KernelHolds, PTL

\* A blocked task goes back to the phase in which it was first blocked, once
\* nothing blocks it.
THEOREM ReturnsFromBlock == KernelSpec => BlockReturns
  <1>1. KernelInv /\ [KernelNext]_kernelVars
          => [phase = "blocked" /\ phase' # "blocked"
                => phase' = frozen /\ task'.blockers = {}]_kernelVars
    <2> SUFFICES ASSUME KernelInv, KernelNext, phase = "blocked", phase' # "blocked"
                 PROVE  phase' = frozen /\ task'.blockers = {}
      OBVIOUS
    <2>1. PICK b \in Blockers : ResolveBlocker(b)
      BY DEF KernelNext, BindRefused, BindTask, RecordContextRecovery, Begin, RecordObservation,
         RecordExecution, RecordTest, RecordAdversarialTest, TestStage, RecordRepair,
         RecordVerification, GainsRefused, BeginPersistence, RecordPersistence, RecordReadback,
         InPhase, Block, Continues, InMode
    <2>2. task \in Task
      BY DEF KernelInv
    <2> QED  BY <2>1, <2>2 DEF KernelInv, ResolveBlocker, ResumeTo, Working, Phases, Task
  <1> QED  BY <1>1, KernelHolds, PTL DEF KernelSpec, BlockReturns

-----------------------------------------------------------------------------
(* The continuous control plane.                                           *)
Rows == [state : States \cup {"absent"}, owner : Sessions \cup {Nobody},
         lease : {"none", "live", "lapsed"}, wake : {"none", "later", "due"}, attempt : Nat]
Free == {"idle", "claim"}
Minds == [at : Free \cup {"begin", "run", "record", "settle", "doubt", "report",
                          "ready", "verify", "complete"},
          work : Work \cup {Nobody}, spent : BOOLEAN, kinds : SUBSET Kinds,
          good : BOOLEAN, left : SUBSET Kinds, seen : SUBSET Work]

StoreTypeOK ==
    /\ item \in [Work -> Rows]
    /\ past \in [open : SUBSET Work, replayed : SUBSET Work, lapsed : SUBSET Work,
                 swept : SUBSET Work]
    /\ recall # Forgotten => recall.of \in Work /\ recall.row \in Rows

SessionsTypeOK ==
    /\ session \in [Sessions -> Minds]
    /\ \A s \in Sessions : session[s].at \notin Free => session[s].work \in Work

\* A row that some session may change, and whose lease has not run out.
Live(i) == item[i].state \in Leased /\ item[i].lease = "live"

Disputed == past.lapsed \cup past.swept

\* A session that holds an item owns its row under a live lease, unless the
\* item's lease ran out or a sweep took it for another row's.
Owns(s) ==
    Holding(s) /\ session[s].work \notin Disputed =>
        Live(session[s].work) /\ item[session[s].work].owner = s

StoreInv == StoreTypeOK /\ SessionsTypeOK /\ \A s \in Sessions : Owns(s)

LEMMA StoreBegins == ControlInit => StoreInv
  BY ControlAssumption DEF ControlInit, StoreInv, StoreTypeOK, SessionsTypeOK, Owns, Holding,
     Rows, Minds, Free, NewItem, Resting, Forgotten

\* An action leaves an item to its owner, or puts it in dispute.
Spared(i) ==
    \/ item'[i].owner = item[i].owner /\ Live(i)'
    \/ i \in Disputed'

\* Sessions that an action does not move keep their items if it spares them.
LEMMA OwnersStay ==
    ASSUME StoreInv, Disputed \subseteq Disputed', NEW M \in SUBSET Sessions,
           \A s \in Sessions \ M : session'[s] = session[s],
           \A i \in Work : Live(i) /\ item[i].owner \notin M => Spared(i)
    PROVE  \A s \in Sessions \ M : Owns(s)'
  BY DEF StoreInv, SessionsTypeOK, Owns, Holding, Free, Spared, Live, Disputed

\* A transition keeps a row a row; the moves of sessions that hold nothing are
\* not those a leased row allows.
LEMMA TargetsAreStates ==
    ASSUME NEW from \in States, NEW to \in AllowedTransitions[from]
    PROVE  to \in States
  BY DEF AllowedTransitions, States, Leased, Claimable

LEMMA LeasedRefuse ==
    ASSUME NEW from \in Leased
    PROVE  AllowedTransitions[from] \cap {"CHANGESET_READY", "VERIFYING", "COMPLETE"} = {}
  BY DEF AllowedTransitions, Leased

LEMMA MovedIsRow ==
    ASSUME NEW r \in Rows, NEW to \in States, NEW wake \in {"none", "later", "due"}
    PROVE  /\ Moved(r, to, wake) \in Rows
           /\ Moved(r, to, wake).state = to
           /\ to \in Leased => /\ Moved(r, to, wake).owner = r.owner
                               /\ Moved(r, to, wake).lease = r.lease
  BY DEF Moved, Rows

\* Rows taken back or awakened by a claim are not those under a live lease.
LEMMA SweptRows ==
    ASSUME StoreInv
    PROVE  /\ Swept \in [Work -> Rows]
           /\ \A i \in Work : Live(i) => Swept[i] = item[i]
  <1>1. ASSUME NEW i \in Work PROVE Recovered(i) \in Rows /\ (Live(i) => Recovered(i) = item[i])
    <2>1. item[i] \in Rows
      BY DEF StoreInv, StoreTypeOK
    <2>2. /\ Moved(item[i], "RECEIVED", "none") \in Rows
          /\ Moved(item[i], "RECONCILING", "none") \in Rows
      BY <2>1, MovedIsRow DEF States, Claimable
    <2>3. [Moved(item[i], "RECEIVED", "none") EXCEPT !.wake = "none"] \in Rows
      BY <2>2 DEF Rows
    <2>4. Live(i) => Recovered(i) = item[i]
      BY DEF Recovered, Live, Leased
    <2> QED  BY <2>1, <2>2, <2>3, <2>4 DEF Recovered
  <1> QED  BY <1>1 DEF Swept

LEMMA SubmittedRows ==
    ASSUME StoreInv, NEW S
    PROVE  /\ Submitted(S) \in [Work -> Rows]
           /\ \A i \in Work : Live(i) => Submitted(S)[i] = item[i]
  <1>1. ASSUME NEW i \in Work PROVE [item[i] EXCEPT !.state = "RECEIVED"] \in Rows
    BY DEF StoreInv, StoreTypeOK, Rows, States, Claimable
  <1> QED  BY <1>1 DEF Submitted, StoreInv, StoreTypeOK, Live, Leased

\* The transition method, called for whoever: what becomes of the rows.
LEMMA TransitionRows ==
    ASSUME StoreInv, NEW i \in Work, NEW to, NEW wake \in {"none", "later", "due"},
           CanMove(i, to), item' = [item EXCEPT ![i] = Moved(@, to, wake)]
    PROVE  /\ item' \in [Work -> Rows]
           /\ \A k \in Work \ {i} : item'[k] = item[k]
           /\ item'[i] = Moved(item[i], to, wake)
           /\ to \in Leased => item'[i].owner = item[i].owner /\ item'[i].lease = item[i].lease
           /\ item'[i].state = to
           /\ to \in AllowedTransitions[item[i].state]
  <1>1. item[i] \in Rows /\ item[i].state \in States /\ to \in AllowedTransitions[item[i].state]
    BY DEF StoreInv, StoreTypeOK, Rows, CanMove
  <1>2. to \in States
    BY <1>1, TargetsAreStates
  <1>3. item \in [Work -> Rows]
    BY DEF StoreInv, StoreTypeOK
  <1> QED  BY <1>1, <1>2, <1>3, MovedIsRow

\* Steps of nobody in particular.
LEMMA EnvironmentSteps ==
    ASSUME StoreInv, session' = session, Disputed \subseteq Disputed', StoreTypeOK',
           \A i \in Work : Live(i) => Spared(i)
    PROVE  StoreInv'
  <1>1. \A s \in Sessions \ {} : Owns(s)'
    BY OwnersStay
  <1>2. SessionsTypeOK'
    BY DEF StoreInv, SessionsTypeOK
  <1> QED  BY <1>1, <1>2 DEF StoreInv

LEMMA EventSteps ==
    ASSUME StoreInv, NEW e \in Events,
           Ingest(e) \/ \E S \in SUBSET Routes[e], half \in SUBSET Files : IngestDies(e, S, half)
    PROVE  StoreInv'
  <1>1. PICK S : item' = Submitted(S) \/ item' = item
    BY DEF Ingest, IngestDies
  <1>2. UNCHANGED <<session, past, recall>>
    BY DEF Ingest, IngestDies
  <1>3. item' \in [Work -> Rows] /\ \A i \in Work : Live(i) => item'[i] = item[i]
    BY <1>1, SubmittedRows DEF StoreInv, StoreTypeOK
  <1>4. StoreTypeOK' /\ Disputed' = Disputed
    BY <1>2, <1>3 DEF StoreInv, StoreTypeOK, Disputed
  <1>5. \A i \in Work : Live(i) => Spared(i)
    BY <1>3 DEF Spared, Live
  <1> QED  BY <1>2, <1>4, <1>5, EnvironmentSteps

LEMMA ClockSteps ==
    ASSUME StoreInv, NEW i \in Work, LeaseLapses(i) \/ WakeIsDue(i)
    PROVE  StoreInv'
  <1>1. UNCHANGED <<session, recall>>
    BY DEF LeaseLapses, WakeIsDue
  <1>2. CASE LeaseLapses(i)
    <2>1. item' = [item EXCEPT ![i].lease = "lapsed"] /\ past' = [past EXCEPT !.lapsed = @ \cup {i}]
      BY <1>2 DEF LeaseLapses
    <2>2. StoreTypeOK' /\ Disputed' = Disputed \cup {i}
      BY <1>1, <2>1 DEF StoreInv, StoreTypeOK, Disputed, Rows
    <2>3. \A k \in Work : Live(k) => Spared(k)
      BY <2>1, <2>2 DEF StoreInv, StoreTypeOK, Spared, Live
    <2> QED  BY <1>1, <2>2, <2>3, EnvironmentSteps
  <1>3. CASE WakeIsDue(i)
    <2>1. item' = [item EXCEPT ![i].wake = "due"] /\ past' = past
      BY <1>3 DEF WakeIsDue
    <2>2. StoreTypeOK' /\ Disputed' = Disputed
      BY <1>1, <2>1 DEF StoreInv, StoreTypeOK, Disputed, Rows
    <2>3. \A k \in Work : Live(k) => Spared(k)
      BY <2>1, <2>2 DEF StoreInv, StoreTypeOK, Spared, Live, Rows
    <2> QED  BY <1>1, <2>2, <2>3, EnvironmentSteps
  <1> QED  BY <1>2, <1>3

LEMMA OperatorSteps ==
    ASSUME StoreInv, NEW i \in Work,
           Recall(i) \/ (\E to \in States : Operate(i, to)) \/ \E k \in Kinds : OperatorRecords(i, k)
    PROVE  StoreInv'
  <1>1. CASE \E to \in States : Operate(i, to)
    <2>1. PICK to \in States : Operate(i, to)
      BY <1>1
    <2>2. /\ CanMove(i, to) /\ item' = [item EXCEPT ![i] = Moved(@, to, "later")]
          /\ item[i].owner = Nobody /\ UNCHANGED <<session, recall>>
          /\ past' = past \/ past' = [past EXCEPT !.open = @ \ {i}]
      BY <2>1 DEF Operate, Transition
    <2>3. item' \in [Work -> Rows] /\ \A k \in Work \ {i} : item'[k] = item[k]
      BY <2>2, TransitionRows
    <2>4. StoreTypeOK' /\ Disputed' = Disputed
      BY <2>2, <2>3 DEF StoreInv, StoreTypeOK, Disputed
    <2>5. \A s \in Sessions : Owns(s)'
      BY <2>2, <2>3, <2>4, ControlAssumption
         DEF StoreInv, SessionsTypeOK, Owns, Holding, Free, Live
    <2>6. SessionsTypeOK'
      BY <2>2 DEF StoreInv, SessionsTypeOK
    <2> QED  BY <2>4, <2>5, <2>6 DEF StoreInv
  <1>2. CASE Recall(i) \/ \E k \in Kinds : OperatorRecords(i, k)
    <2>1. /\ UNCHANGED <<item, session, past>>
          /\ recall' = recall \/ recall' = [of |-> i, row |-> item[i]]
      BY <1>2 DEF Recall, OperatorRecords
    <2>2. StoreTypeOK' /\ Disputed' = Disputed
      BY <2>1 DEF StoreInv, StoreTypeOK, Disputed
    <2>3. \A k \in Work : Live(k) => Spared(k)
      BY <2>1 DEF Spared, Live
    <2> QED  BY <2>1, <2>2, <2>3, EnvironmentSteps
  <1> QED  BY <1>1, <1>2

LEMMA SweepSteps == ASSUME StoreInv, Sweep \/ Forget PROVE StoreInv'
  <1>1. recall' = Forgotten /\ session' = session /\ recall # Forgotten
    BY DEF Sweep, Forget
  <1> DEFINE i == recall.of
  <1>2. CASE UNCHANGED <<item, past>>
    <2>1. StoreTypeOK' /\ Disputed' = Disputed
      BY <1>1, <1>2 DEF StoreInv, StoreTypeOK, Disputed
    <2>2. \A k \in Work : Live(k) => Spared(k)
      BY <1>2 DEF Spared, Live
    <2> QED  BY <1>1, <2>1, <2>2, EnvironmentSteps
  <1>3. CASE /\ RememberedDue /\ CanMove(i, SweepTarget)
             /\ item' = [item EXCEPT ![i] = Moved(@, SweepTarget, "none")]
             /\ past' = [past EXCEPT
                  !.swept = IF item[i] # recall.row THEN @ \cup {i} ELSE @,
                  !.open = IF SweepTarget = "RECONCILING" THEN @ \ {i} ELSE @]
    <2>1. i \in Work /\ recall.row \in Rows
      BY <1>1 DEF StoreInv, StoreTypeOK
    <2>2. item' \in [Work -> Rows] /\ \A k \in Work \ {i} : item'[k] = item[k]
      BY <1>3, <2>1, TransitionRows
    <2>3. /\ past' \in [open : SUBSET Work, replayed : SUBSET Work, lapsed : SUBSET Work,
                         swept : SUBSET Work]
          /\ Disputed' = IF item[i] # recall.row THEN Disputed \cup {i} ELSE Disputed
      <3> HIDE DEF i
      <3> QED  BY <1>3, <2>1 DEF StoreInv, StoreTypeOK, Disputed, i
    <2>4. StoreTypeOK'
      BY <1>1, <2>2, <2>3 DEF StoreTypeOK
    <2>5. Live(i) => item[i] # recall.row
      BY <1>3, <2>1 DEF RememberedDue, Live, Leased, Rows
    <2>6. \A k \in Work : Live(k) => Spared(k)
      BY <2>1, <2>2, <2>3, <2>5 DEF Spared, Live
    <2> QED  BY <1>1, <2>3, <2>4, <2>6, EnvironmentSteps
  <1> QED  BY <1>2, <1>3 DEF Sweep, Forget

\* One session's step: the others keep what they hold if the step spares it,
\* and it is left to show that the session keeps what it holds itself.
LEMMA SessionSteps ==
    ASSUME StoreInv, NEW s \in Sessions, NEW mind \in Minds,
           session' = [session EXCEPT ![s] = mind],
           mind.at \notin Free => mind.work \in Work,
           StoreTypeOK', Disputed \subseteq Disputed',
           \A i \in Work : Live(i) /\ item[i].owner # s => Spared(i),
           Owns(s)'
    PROVE  StoreInv'
  <1>1. \A t \in Sessions \ {s} : session'[t] = session[t]
    BY DEF StoreInv, SessionsTypeOK
  <1>2. \A t \in Sessions \ {s} : Owns(t)'
    BY <1>1, OwnersStay
  <1>3. SessionsTypeOK'
    BY DEF StoreInv, SessionsTypeOK
  <1> QED  BY <1>2, <1>3 DEF StoreInv

\* What a step leaves when it moves neither rows nor history.
LEMMA RowsRest ==
    ASSUME StoreInv, UNCHANGED <<item, past, recall>>
    PROVE  StoreTypeOK' /\ Disputed' = Disputed /\ \A i \in Work : Live(i) => Spared(i)
  BY DEF StoreInv, StoreTypeOK, Disputed, Spared, Live

LEMMA SessionRests ==
    ASSUME StoreInv, NEW s \in Sessions, Rests(s),
           StoreTypeOK', Disputed \subseteq Disputed',
           \A i \in Work : Live(i) /\ item[i].owner # s => Spared(i)
    PROVE  StoreInv'
  <1>1. Resting \in Minds /\ Resting.at \in Free
    BY DEF Resting, Minds, Free
  <1>2. session'[s].at \in Free
    BY <1>1 DEF Rests, StoreInv, SessionsTypeOK
  <1>3. Owns(s)'
    BY <1>2 DEF Owns, Holding, Free
  <1> QED  BY <1>1, <1>3, SessionSteps DEF Rests

LEMMA ClaimedIsRow ==
    ASSUME NEW r \in Rows, NEW s \in Sessions
    PROVE  /\ Claimed(r, s) \in Rows
           /\ Claimed(r, s).owner = s /\ Claimed(r, s).state = "DISPATCHED"
           /\ Claimed(r, s).lease = "live"
  <1>1. (IF r.attempt < MaxAttempts THEN r.attempt + 1 ELSE r.attempt) \in Nat
    BY ControlAssumption DEF Rows
  <1> QED  BY <1>1 DEF Claimed, Rows, States, Leased

LEMMA ClaimSteps ==
    ASSUME StoreInv, NEW s \in Sessions, ClaimLocal(s) \/ ClaimExternal(s)
    PROVE  StoreInv'
  <1>1. PICK i \in Work, pool \in {External, Work \ External} : Claim(s, i, pool)
    BY ControlAssumption DEF ClaimLocal, ClaimExternal
  <1> DEFINE mine == Claimed(Swept[i], s)
             spent == item'[i].attempt >= MaxAttempts
             mind == [Resting EXCEPT !.at = "begin", !.work = i, !.seen = session[s].seen \cup {i},
                        !.spent = spent]
  <1>2. /\ Swept[i].state \in Claimable
        /\ item' = [Swept EXCEPT ![i] = mine]
        /\ session' = [session EXCEPT ![s] = mind]
        /\ past' = [past EXCEPT !.replayed = @ \cup ({i} \cap past.open)]
        /\ recall' = recall
    BY <1>1 DEF Claim, Candidates
  <1>3. mine \in Rows /\ mine.owner = s /\ mine.state = "DISPATCHED" /\ mine.lease = "live"
    BY SweptRows, ClaimedIsRow
  <1> HIDE DEF mine
  <1>4. item' \in [Work -> Rows] /\ item'[i] = mine
    BY <1>2, <1>3, SweptRows
  <1>5. mind \in Minds /\ mind.at = "begin" /\ mind.work = i
    <2>1. spent \in BOOLEAN
      OBVIOUS
    <2> HIDE DEF spent
    <2> QED  BY <2>1 DEF Minds, Resting, StoreInv, SessionsTypeOK
  <1> HIDE DEF mind
  <1>6. StoreTypeOK' /\ Disputed' = Disputed
    BY <1>2, <1>4 DEF StoreInv, StoreTypeOK, Disputed
  <1>7. \A k \in Work : Live(k) => k # i /\ item'[k] = item[k]
    BY <1>2, SweptRows DEF Live, Leased, Claimable
  <1>8. \A k \in Work : Live(k) => Spared(k)
    BY <1>7 DEF Spared, Live
  <1>9. session'[s] = mind
    BY <1>2 DEF StoreInv, SessionsTypeOK
  <1>10. Owns(s)'
    BY <1>3, <1>4, <1>5, <1>9 DEF Owns, Live, Leased
  <1> QED  BY <1>2, <1>5, <1>6, <1>8, <1>10, SessionSteps

LEMMA EmptyClaims == ASSUME StoreInv, NEW s \in Sessions, ClaimNothing(s) PROVE StoreInv'
  <1>1. item' = Swept /\ UNCHANGED <<past, recall>> /\ Rests(s)
    BY DEF ClaimNothing
  <1>2. StoreTypeOK' /\ Disputed' = Disputed
    BY <1>1, SweptRows DEF StoreInv, StoreTypeOK, Disputed
  <1>3. \A i \in Work : Live(i) => Spared(i)
    BY <1>1, SweptRows DEF Spared, Live
  <1> QED  BY <1>1, <1>2, <1>3, SessionRests

LEMMA DeathSteps ==
    ASSUME StoreInv, NEW s \in Sessions,
           Raise(s) \/ \E half \in SUBSET Files :
             Die(s, half) \/ \E S \in SUBSET Work : DieClaiming(s, S, half)
    PROVE  StoreInv'
  <1>1. CASE Raise(s) \/ \E half \in SUBSET Files : Die(s, half)
    <2>1. Rests(s) /\ UNCHANGED <<item, past, recall>>
      BY <1>1 DEF Raise, Die
    <2> QED  BY <2>1, RowsRest, SessionRests
  <1>2. CASE \E half \in SUBSET Files, S \in SUBSET Work : DieClaiming(s, S, half)
    <2>1. PICK S \in SUBSET Work : item' = [i \in Work |-> IF i \in S THEN Recovered(i) ELSE item[i]]
      BY <1>2 DEF DieClaiming
    <2>2. Rests(s) /\ UNCHANGED <<past, recall>>
      BY <1>2 DEF DieClaiming
    <2>3. item' \in [Work -> Rows] /\ \A i \in Work : Live(i) => item'[i] = item[i]
      BY <2>1, SweptRows DEF Swept, StoreInv, StoreTypeOK
    <2>4. StoreTypeOK' /\ Disputed' = Disputed
      BY <2>2, <2>3 DEF StoreInv, StoreTypeOK, Disputed
    <2>5. \A i \in Work : Live(i) => Spared(i)
      BY <2>3 DEF Spared, Live
    <2> QED  BY <2>2, <2>4, <2>5, SessionRests
  <1> QED  BY <1>1, <1>2

LEMMA RunSteps ==
    ASSUME StoreInv, NEW s \in Sessions, Run(s) \/ RecordReceipt(s)
    PROVE  StoreInv'
  <1>1. UNCHANGED <<item, past, recall>> /\ session[s] \in Minds /\ Holding(s)
    BY DEF Run, RecordReceipt, StoreInv, SessionsTypeOK, Holding
  <1>2. PICK mind \in Minds :
          /\ session' = [session EXCEPT ![s] = mind]
          /\ mind.at \in {"doubt", "record", "settle"} /\ mind.work = session[s].work
    <2>1. CASE Go(s, "doubt")
      <3>1. [session[s] EXCEPT !.at = "doubt"] \in Minds
        BY <1>1 DEF Minds
      <3> QED  BY <1>1, <2>1, <3>1 DEF Go, Minds
    <2>2. CASE \E K \in SUBSET Kinds, good \in BOOLEAN :
                 session' = [session EXCEPT ![s] =
                   [session[s] EXCEPT !.at = "record", !.kinds = K, !.good = good, !.left = K]]
      <3>1. PICK K \in SUBSET Kinds, good \in BOOLEAN :
              session' = [session EXCEPT ![s] =
                [session[s] EXCEPT !.at = "record", !.kinds = K, !.good = good, !.left = K]]
        BY <2>2
      <3>2. [session[s] EXCEPT !.at = "record", !.kinds = K, !.good = good, !.left = K] \in Minds
        BY <1>1 DEF Minds
      <3> QED  BY <1>1, <3>1, <3>2 DEF Minds
    <2>3. CASE RecordReceipt(s)
      <3>1. PICK k \in session[s].left, at \in {"settle", "record"} :
              session' = [session EXCEPT ![s] = 
                [session[s] EXCEPT !.left = session[s].left \ {k}, !.at = at]]
        BY <1>1, <2>3 DEF RecordReceipt, StoreInv, SessionsTypeOK
      <3>2. [session[s] EXCEPT !.left = session[s].left \ {k}, !.at = at] \in Minds
        BY <1>1, <3>1 DEF Minds
      <3> QED  BY <1>1, <3>1, <3>2 DEF Minds
    <2> QED  BY <2>1, <2>2, <2>3 DEF Run
  <1>3. StoreTypeOK' /\ Disputed' = Disputed /\ \A i \in Work : Live(i) => Spared(i)
    BY <1>1, RowsRest
  <1>4. mind.work \in Work
    BY <1>1, <1>2 DEF StoreInv, SessionsTypeOK, Holding, Free
  <1>5. session'[s] = mind
    BY <1>2 DEF StoreInv, SessionsTypeOK
  <1>6. Owns(s)'
    BY <1>1, <1>2, <1>3, <1>5 DEF StoreInv, Owns, Live
  <1> QED  BY <1>2, <1>3, <1>4, <1>6, SessionSteps

\* A move of a session that holds its item is of its own row; one that holds
\* nothing asks for states no leased row moves to.
LEMMA MoveSteps == ASSUME StoreInv, NEW s \in Sessions, Move(s) PROVE StoreInv'
  <1> DEFINE i == session[s].work
             to == Wanted(s).to
             next == Wanted(s).next
  <1>1. /\ CanMove(i, to) /\ item' = [item EXCEPT ![i] = Moved(@, to, "later")]
        /\ session[s].at \in Moving /\ Go(s, next) /\ recall' = recall
        /\ past' = past \/ past' = [past EXCEPT !.open = @ \cup {i}]
    BY DEF Move, Transition
  <1>2. session[s] \in Minds /\ i \in Work
    BY <1>1 DEF StoreInv, SessionsTypeOK, Moving, Free
  <1>3. /\ next \in {"run", "claim", "ready", "verify", "complete"}
        /\ next = "run" => session[s].at = "begin" /\ to = "EXECUTING"
        /\ ~Holding(s) => to \in {"CHANGESET_READY", "VERIFYING", "COMPLETE"}
    BY <1>1 DEF Wanted, Moving, Holding
  <1> HIDE DEF i, to, next
  <1>4. /\ item' \in [Work -> Rows] /\ \A k \in Work \ {i} : item'[k] = item[k]
        /\ to \in Leased => item'[i].owner = item[i].owner /\ item'[i].lease = item[i].lease
        /\ item'[i].state = to /\ to \in AllowedTransitions[item[i].state]
    BY <1>1, <1>2, TransitionRows
  <1>5. StoreTypeOK' /\ Disputed' = Disputed
    BY <1>1, <1>2, <1>4 DEF StoreInv, StoreTypeOK, Disputed
  <1>6. \A k \in Work : Live(k) /\ item[k].owner # s => Spared(k)
    <2>1. CASE Holding(s)
      BY <1>4, <1>5, <2>1 DEF Spared, Live, StoreInv, Owns, i
    <2>2. CASE ~Holding(s)
      BY <1>3, <1>4, <2>2, LeasedRefuse DEF Spared, Live
    <2> QED  BY <2>1, <2>2
  <1>7. PICK mind \in Minds :
          /\ session' = [session EXCEPT ![s] = mind] /\ mind.at = next
          /\ next # "claim" => mind.work = i
    <2>1. /\ [Resting EXCEPT !.at = "claim", !.seen = session[s].seen] \in Minds
          /\ [session[s] EXCEPT !.at = next] \in Minds
      BY <1>2, <1>3 DEF Resting, Minds, Free
    <2> QED  BY <1>1, <1>2, <2>1 DEF Go, Minds, Resting, i
  <1>8. session'[s] = mind
    BY <1>7 DEF StoreInv, SessionsTypeOK
  <1>9. Owns(s)'
    <2>1. CASE next = "run"
      <3>1. Holding(s) /\ to \in Leased
        BY <1>3, <2>1 DEF Holding, Leased
      <3> QED  BY <1>2, <1>4, <1>5, <1>7, <1>8, <2>1, <3>1 DEF StoreInv, Owns, Live, i
    <2>2. CASE next # "run"
      BY <1>3, <1>7, <1>8, <2>2 DEF Owns, Holding
    <2> QED  BY <2>1, <2>2
  <1> QED  BY <1>2, <1>3, <1>5, <1>6, <1>7, <1>9, SessionSteps DEF Free

LEMMA ReportSteps ==
    ASSUME StoreInv, NEW s \in Sessions, NEW to \in States, Report(s, to)
    PROVE  StoreInv'
  <1> DEFINE i == session[s].work
  <1>1. /\ Holding(s) /\ Rests(s) /\ recall' = recall /\ past' = [past EXCEPT !.open = @ \ {i}]
        /\ \/ CanMove(i, to) /\ item' = [item EXCEPT ![i] = Moved(@, to, "later")]
           \/ item' = item
    BY DEF Report, Transition, Holding
  <1>2. i \in Work
    BY <1>1 DEF StoreInv, SessionsTypeOK, Holding, Free
  <1>3. item' \in [Work -> Rows] /\ \A k \in Work \ {i} : item'[k] = item[k]
    BY <1>1, <1>2, TransitionRows DEF StoreInv, StoreTypeOK
  <1>4. StoreTypeOK' /\ Disputed' = Disputed
    BY <1>1, <1>3 DEF StoreInv, StoreTypeOK, Disputed
  <1>5. \A k \in Work : Live(k) /\ item[k].owner # s => Spared(k)
    BY <1>1, <1>3, <1>4 DEF Spared, Live, StoreInv, Owns
  <1> QED  BY <1>1, <1>4, <1>5, SessionRests

\* For any work, sessions and events, deaths, torn lines and sweeps: a session
\* that holds an item holds it alone, unless its lease ran out or a sweep
\* acted on a row that had changed.
THEOREM RunnersAreAlone == ControlSpec => []OneRunner
  <1>1. StoreInv => OneRunner
    BY DEF StoreInv, Owns, OneRunner, Disputed
  <1>2. StoreInv /\ [ControlNext]_controlVars => StoreInv'
    <2> SUFFICES ASSUME StoreInv, [ControlNext]_controlVars PROVE StoreInv'
      OBVIOUS
    <2>1. CASE UNCHANGED controlVars
      <3>1. UNCHANGED <<item, past, recall, session>>
        BY <2>1 DEF controlVars
      <3> QED  BY <3>1, RowsRest, EnvironmentSteps
    <2>2. ASSUME NEW s \in Sessions, SessionStep(s) PROVE StoreInv'
      BY <2>2, ClaimSteps, EmptyClaims, DeathSteps, RunSteps, MoveSteps, ReportSteps DEF SessionStep
    <2> QED  BY <2>1, <2>2, EventSteps, ClockSteps, OperatorSteps, SweepSteps DEF ControlNext
  <1> QED  BY <1>1, <1>2, StoreBegins, PTL DEF ControlSpec

-----------------------------------------------------------------------------
(* The circuit of one operation.                                           *)

Agrees(r) == r.opened # "never" <=> r.failures = Threshold

\* What calls have read agrees with itself as the row does: a stale row is a
\* row that once was.
CircuitInv == CircuitTypeOK /\ Agrees(row) /\ \A c \in Calls : Agrees(snapshot[c])

USE ThresholdAssumption

\* A row written from a consistent row is consistent, and time keeps it so.
LEMMA RowsAgree ==
  ASSUME NEW r \in {"success", "failure", "none"}, NEW seen \in Row, Agrees(seen)
  PROVE  /\ RowAfter(r, seen) \in Row /\ Agrees(RowAfter(r, seen))
         /\ Late(seen) \in Row /\ Agrees(Late(seen))
         /\ Closed \in Row /\ Agrees(Closed)
  <1>1. Up(seen.failures) \in Counts
    BY DEF Up, Row, Counts
  <1>2. RowAfter(r, seen) \in Row /\ Agrees(RowAfter(r, seen))
    <2>1. CASE r = "success"
      BY <2>1 DEF RowAfter, Row, Agrees, Counts, Closed
    <2>2. CASE r # "success" /\ Up(seen.failures) >= Threshold
      BY <1>1, <2>2 DEF RowAfter, Row, Agrees, Counts
    <2>3. CASE r # "success" /\ ~(Up(seen.failures) >= Threshold)
      <3>1. RowAfter(r, seen) = [failures |-> Up(seen.failures), opened |-> seen.opened]
        BY <2>3 DEF RowAfter
      <3>2. Up(seen.failures) # Threshold /\ seen.failures # Threshold
        BY <1>1, <2>3 DEF Row, Counts, Up
      <3>3. QED
        BY <1>1, <3>1, <3>2 DEF Row, Agrees
    <2>4. QED
      BY <2>1, <2>2, <2>3
  <1>3. Late(seen) \in Row /\ Agrees(Late(seen))
    BY DEF Late, Row, Agrees
  <1>4. Closed \in Row /\ Agrees(Closed)
    BY DEF Closed, Row, Agrees, Counts
  <1>5. QED
    BY <1>2, <1>3, <1>4

\* For any number of calls, whatever results are lost or come back, the count
\* and the opening time of the circuit agree.
THEOREM CircuitAgrees == CircuitSpec => [](CircuitTypeOK /\ OpenedAtThreshold)
  <1>1. CircuitInit => CircuitInv
    <2> SUFFICES ASSUME CircuitInit
                 PROVE  CircuitInv
      OBVIOUS
    <2>1. Closed \in Row /\ Agrees(Closed)
      BY DEF Closed, Row, Agrees, Counts
    <2>2. Agrees(row) /\ \A c \in Calls : Agrees(snapshot[c])
      BY <2>1 DEF CircuitInit
    <2>3. QED
      BY <2>1, <2>2 DEF CircuitInit, CircuitInv, CircuitTypeOK
  <1>2. CircuitInv /\ [CircuitNext]_circuitVars => CircuitInv'
    <2> SUFFICES ASSUME CircuitInv, [CircuitNext]_circuitVars
                 PROVE  CircuitInv'
      OBVIOUS
    <2> USE DEF CircuitInv
    <2>1. Closed \in Row /\ Agrees(Closed)
      BY RowsAgree DEF CircuitTypeOK
    <2>2. ASSUME NEW c \in Calls, Start(c) \/ Return(c)
          PROVE  CircuitInv'
      BY <2>2 DEF Start, Return, CircuitTypeOK
    <2>3. ASSUME NEW c \in Calls, ReadRow(c)
          PROVE  CircuitInv'
      BY <2>3 DEF ReadRow, CircuitTypeOK
    <2>4. ASSUME NEW c \in Calls, WriteRow(c)
          PROVE  CircuitInv'
      <3>1. RowAfter(outcome[c], snapshot[c]) \in Row /\ Agrees(RowAfter(outcome[c], snapshot[c]))
        BY RowsAgree DEF CircuitTypeOK
      <3>2. QED
        BY <2>1, <2>4, <3>1 DEF WriteRow, Ends, CircuitTypeOK
    <2>5. ASSUME NEW c \in Calls, RecordLost(c)
          PROVE  CircuitInv'
      <3>1. \A d \in Calls : snapshot'[d] \in {Closed, snapshot[d]}
        BY <2>5 DEF RecordLost, Ends, CircuitTypeOK
      <3>2. snapshot' \in [Calls -> Row] /\ \A d \in Calls : Agrees(snapshot'[d])
        BY <2>1, <2>5, <3>1 DEF RecordLost, Ends, CircuitTypeOK
      <3>3. row' = row /\ down' = down
        BY <2>5 DEF RecordLost
      <3>4. pc' \in [Calls -> {"idle", "sent", "read", "write"}]
            /\ outcome' \in [Calls -> {"none", "success", "failure"}]
        BY <2>5 DEF RecordLost, Ends, CircuitTypeOK
      <3>5. QED
        BY <3>2, <3>3, <3>4 DEF CircuitTypeOK, Agrees
    <2>6. CASE OpenElapses
      <3>1. Late(row) \in Row /\ Agrees(Late(row))
        BY RowsAgree DEF CircuitTypeOK
      <3>2. \A c \in Calls : Late(snapshot[c]) \in Row /\ Agrees(Late(snapshot[c]))
        BY RowsAgree DEF CircuitTypeOK
      <3>3. QED
        BY <2>6, <3>1, <3>2 DEF OpenElapses, CircuitTypeOK
    <2>7. CASE Outage
      BY <2>7 DEF Outage, CircuitTypeOK
    <2>8. CASE UNCHANGED circuitVars
      BY <2>8 DEF circuitVars, CircuitTypeOK
    <2>9. QED
      BY <2>2, <2>3, <2>4, <2>5, <2>6, <2>7, <2>8 DEF CircuitNext, CircuitCall
  <1>3. CircuitInv => CircuitTypeOK /\ OpenedAtThreshold
    BY DEF CircuitInv, Agrees, OpenedAtThreshold
  <1>4. QED
    BY <1>1, <1>2, <1>3, PTL DEF CircuitSpec
=============================================================================
