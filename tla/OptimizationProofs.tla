------------------------ MODULE OptimizationProofs ------------------------
(***************************************************************************)
(* The two optimizations: the genetic one of the backend, and the panel of *)
(* the web client.                                                         *)
(*                                                                         *)
(* Backend, for any range of settings, population, number of generations   *)
(* and of elites: settings stay in range, the result is the best           *)
(* individual ever evaluated, and elites survive.  The inductive invariant *)
(* says what each phase has recorded (Records), that the best so far is    *)
(* below every fitness until there is a record, and that the population    *)
(* being built, then evaluated, opens with the elites of the last record   *)
(* (Carries).                                                              *)
(*                                                                         *)
(* Client, for any settings, fitnesses, generations, length of the chart   *)
(* and number of runs: the panel shows the last run, and one refresh       *)
(* interval fires.  The inductive invariant ties the buttons to the flag   *)
(* and the flag to the last run: while it is set that run is the only one  *)
(* in delay() and as far as the fitness values seen (RunUnderWay); when it *)
(* is not, none is left (RunOver).  The chart is the end of what was seen, *)
(* which a generation extends (LatestGrows).                               *)
(***************************************************************************)
EXTENDS GeneticOptimizer, WebApp, FiniteSetTheorems, SequenceTheorems, TLAPS

USE OptimizerAssumption DEF OptimizerAssumption

Records ==
  /\ phase = "evaluate" => Len(generations_) = gen
  /\ phase \in {"record", "select", "breed"} =>
       Len(generations_) = gen + 1 /\ generations_[gen + 1] = population
  /\ Recorded = {} => best_individual = NoIndividual

Carries ==
  /\ phase = "breed" =>
       Len(new_population) >= EliteCount /\ OpenedByElites(new_population, population)
  /\ phase = "evaluate" /\ gen > 0 => OpenedByElites(population, generations_[gen])

IInv == TypeOK /\ Records /\ BestEver /\ Carries /\ ElitesSurvive

-----------------------------------------------------------------------------
(* The operators *)

\* A clamped mutation of a setting in range is in range (genetic_optimizer.cpp:124-138).
LEMMA MutateInRange ==
  ASSUME NEW speed \in Speeds, NEW result \in Mutate(speed)
  PROVE  result \in Speeds
BY DEF Mutate, Clamp, Shifts, Speeds

\* Both blends of two settings in range are in range (107-122).
LEMMA CrossoverInRange ==
  ASSUME NEW parent1 \in Speeds, NEW parent2 \in Speeds,
         NEW children \in Crossover(parent1, parent2)
  PROVE  children[1] \in Speeds /\ children[2] \in Speeds
BY DEF Crossover, Between, Speeds

\* Elites are individuals of the population, and open what starts with them (140-149).
LEMMA ElitesAre ==
  ASSUME NEW pop \in Populations, NEW elites \in Elites(pop)
  PROVE  /\ elites \in Seq(Individuals) /\ Len(elites) = EliteCount
         /\ OpenedByElites(elites, pop)
<1>1. PICK order \in Sortings(pop) : elites = [k \in 1..EliteCount |-> pop[order[k]]]
  BY DEF Elites
<1>2. /\ order \in [Indices -> Indices]
      /\ \A i, j \in Indices : order[i] = order[j] => i = j
      /\ \A i, j \in Indices : i < j => pop[order[i]].fitness >= pop[order[j]].fitness
  BY <1>1 DEF Sortings
<1>3. EliteCount \in Nat /\ 1..EliteCount \subseteq Indices
  BY DEF Indices
<1>4. \A k \in 1..EliteCount : order[k] \in Indices /\ pop[order[k]] \in Individuals
  BY <1>2, <1>3 DEF Populations
<1>5. elites \in Seq(Individuals) /\ Len(elites) = EliteCount
  BY <1>1, <1>3, <1>4
<1>6. OpenedByElites(elites, pop)
  <2> DEFINE elite == [k \in 1..EliteCount |-> order[k]]
  <2>1. elite \in [1..EliteCount -> Indices]
    BY <1>4
  <2>2. \A k, l \in 1..EliteCount : elite[k] = elite[l] => k = l
    BY <1>2, <1>3
  <2>3. \A k \in 1..EliteCount : elites[k].speed = pop[elite[k]].speed
    BY <1>1
  <2>4. ASSUME NEW i \in Indices, \A k \in 1..EliteCount : elite[k] # i,
               NEW k \in 1..EliteCount
        PROVE  pop[i].fitness <= pop[elite[k]].fitness
    <3>1. PICK j \in Indices : order[j] = i
      BY <1>1 DEF Sortings
    <3>2. j \notin 1..EliteCount
      BY <2>4, <3>1
    <3>3. k \in Indices /\ k < j
      BY <3>2, <1>3 DEF Indices
    <3>4. pop[order[k]].fitness >= pop[order[j]].fitness
      BY <1>2, <3>3
    <3>5. pop[i].fitness \in Nat /\ pop[order[k]].fitness \in Nat
      BY <1>4 DEF Populations, Individuals
    <3> QED BY <3>1, <3>4, <3>5
  <2> QED BY <2>1, <2>2, <2>3, <2>4 DEF OpenedByElites
<1> QED BY <1>5, <1>6

\* What follows the elites, and the fitness of anybody, do not matter to OpenedByElites.
LEMMA OpenedKept ==
  ASSUME NEW next, NEW other, NEW pop, OpenedByElites(next, pop),
         \A k \in 1..EliteCount : other[k].speed = next[k].speed
  PROVE  OpenedByElites(other, pop)
BY DEF OpenedByElites

-----------------------------------------------------------------------------
(* Types *)

LEMMA InitIInv == Init => IInv
<1> SUFFICES ASSUME Init PROVE IInv
  OBVIOUS
<1> USE DEF Init
<1>1. generations_ \in Seq(Populations) /\ new_population \in Seq(Individuals)
  BY EmptySeq
<1>2. population \in Populations
  BY DEF Populations, Individuals
<1>3. TypeOK
  BY <1>1, <1>2 DEF TypeOK
<1>4. Recorded = {} /\ Len(generations_) = 0 /\ phase \in {"evaluate", "done"}
  BY DEF Recorded
<1>5. Records /\ Carries
  BY <1>4 DEF Records, Carries
<1>6. BestEver
  BY <1>4 DEF BestEver
<1>7. ElitesSurvive
  BY <1>4 DEF ElitesSurvive
<1> QED BY <1>3, <1>5, <1>6, <1>7 DEF IInv

LEMMA EvaluateTypes ==
  ASSUME TypeOK, Evaluate
  PROVE  TypeOK' /\ \A i \in Indices : population'[i].speed = population[i].speed
<1>1. PICK f \in [Indices -> Fitnesses] :
        population' = [i \in Indices |-> [population[i] EXCEPT !.fitness = f[i]]]
  BY DEF Evaluate
<1>2. ASSUME NEW i \in Indices
      PROVE  /\ population'[i] \in Individuals
             /\ population'[i].speed = population[i].speed
  <2>1. population[i] \in Individuals /\ f[i] \in Fitnesses
    BY DEF TypeOK, Populations
  <2>2. population'[i] = [population[i] EXCEPT !.fitness = f[i]]
    BY <1>1
  <2> QED BY <2>1, <2>2 DEF Individuals
<1>3. population' \in Populations
  BY <1>1, <1>2 DEF Populations
<1>4. generations_' \in Seq(Populations)
  BY <1>3, AppendProperties DEF TypeOK, Evaluate
<1> QED BY <1>2, <1>3, <1>4 DEF TypeOK, Evaluate

LEMMA RecordTypes ==
  ASSUME TypeOK, RecordBest
  PROVE  TypeOK'
<1>1. /\ best_individual' \in Individuals \cup {NoIndividual}
      /\ best_generation' \in Nat
  BY DEF TypeOK, RecordBest, Populations
<1>2. phase' = "done" \/ phase' = "select"
  BY DEF RecordBest, AfterRecord
<1> QED BY <1>1, <1>2 DEF TypeOK, RecordBest

LEMMA SelectTypes ==
  ASSUME TypeOK, Select
  PROVE  /\ TypeOK' /\ OpenedByElites(new_population', population)
         /\ Len(new_population') = EliteCount
<1>1. /\ new_population' \in Seq(Individuals)
      /\ Len(new_population') = EliteCount
      /\ OpenedByElites(new_population', population)
  BY ElitesAre DEF Select, TypeOK
<1>2. mating_pool' \in Populations
  <2>1. PICK winner \in [Indices -> Indices] :
          mating_pool' = [i \in Indices |-> population[winner[i]]]
    BY DEF Select
  <2> QED BY <2>1 DEF TypeOK, Populations
<1> QED BY <1>1, <1>2 DEF TypeOK, Select

\* Breeding appends one or two individuals in range, and stays within the size.
LEMMA BreedTypes ==
  ASSUME TypeOK, Breed
  PROVE  /\ TypeOK' /\ Len(new_population') >= Len(new_population)
         /\ \A k \in 1..Len(new_population) : new_population'[k] = new_population[k]
<1>1. PICK p1 \in Indices, p2 \in Indices :
        \E children \in Crossover(mating_pool[p1].speed, mating_pool[p2].speed) :
          \E s1 \in Mutate(children[1]), s2 \in Mutate(children[2]) :
            LET c1 == [speed |-> s1, fitness |-> 0]
                c2 == [speed |-> s2, fitness |-> 0]
            IN  new_population' =
                  IF Len(new_population) + 1 < PopulationSize
                  THEN Append(Append(new_population, c1), c2)
                  ELSE Append(new_population, c1)
  BY DEF Breed
<1>2. mating_pool[p1].speed \in Speeds /\ mating_pool[p2].speed \in Speeds
  BY DEF Breed, TypeOK, Populations, Individuals
<1>3. PICK s1 \in Speeds, s2 \in Speeds :
        new_population' =
          IF Len(new_population) + 1 < PopulationSize
          THEN Append(Append(new_population, [speed |-> s1, fitness |-> 0]),
                      [speed |-> s2, fitness |-> 0])
          ELSE Append(new_population, [speed |-> s1, fitness |-> 0])
  BY <1>1, <1>2, CrossoverInRange, MutateInRange
<1> DEFINE c1 == [speed |-> s1, fitness |-> 0]
           c2 == [speed |-> s2, fitness |-> 0]
<1>4. c1 \in Individuals /\ c2 \in Individuals
  BY DEF Individuals
<1>5. new_population \in Seq(Individuals) /\ Len(new_population) < PopulationSize
  BY DEF TypeOK, Breed
<1> HIDE DEF c1, c2
<1>6. /\ new_population' \in Seq(Individuals)
      /\ Len(new_population') \in Len(new_population)..PopulationSize
      /\ \A k \in 1..Len(new_population) : new_population'[k] = new_population[k]
  <2>1. CASE Len(new_population) + 1 < PopulationSize
    <3>1. new_population' = Append(Append(new_population, c1), c2)
      BY <2>1, <1>3 DEF c1, c2
    <3> QED BY <3>1, <2>1, <1>4, <1>5, AppendProperties
  <2>2. CASE ~(Len(new_population) + 1 < PopulationSize)
    <3>1. new_population' = Append(new_population, c1)
      BY <2>2, <1>3 DEF c1
    <3> QED BY <3>1, <1>4, <1>5, AppendProperties
  <2> QED BY <2>1, <2>2
<1>7. TypeOK'
  <2>1. Len(new_population) \in Nat /\ Len(new_population') <= PopulationSize
    BY <1>5, <1>6
  <2>2. UNCHANGED <<phase, population, gen, generations_, mating_pool,
                    best_individual, best_generation>>
    BY DEF Breed
  <2> QED BY <1>6, <2>1, <2>2 DEF TypeOK
<1> QED BY <1>6, <1>7, <1>5

LEMMA NextGenerationTypes ==
  ASSUME TypeOK, NextGeneration
  PROVE  TypeOK'
<1>1. Len(new_population) = PopulationSize
  BY DEF TypeOK, NextGeneration
<1>2. new_population \in [1..Len(new_population) -> Individuals]
  BY LenProperties DEF TypeOK
<1>3. population' \in Populations
  BY <1>1, <1>2 DEF NextGeneration, Populations, Indices
<1>4. new_population' \in Seq(Individuals) /\ Len(new_population') = 0
  BY EmptySeq DEF NextGeneration
<1> QED BY <1>3, <1>4 DEF TypeOK, NextGeneration

-----------------------------------------------------------------------------
(* Each phase *)

LEMMA EvaluateKeeps ==
  ASSUME IInv, Evaluate
  PROVE  IInv'
<1> USE DEF IInv
<1>1. /\ generations_ \in Seq(Populations) /\ population' \in Populations
      /\ phase = "evaluate" /\ phase' = "record" /\ Len(generations_) = gen /\ gen \in Nat
      /\ generations_' = Append(generations_, population')
      /\ UNCHANGED <<gen, new_population, best_individual, best_generation>>
  BY EvaluateTypes DEF TypeOK, Evaluate, Records
<1>2. /\ Len(generations_') = gen + 1 /\ generations_'[gen + 1] = population'
      /\ \A g \in 1..gen : generations_'[g] = generations_[g]
  BY <1>1, AppendProperties
<1>3. Recorded' = Recorded /\ Recorded = 1..gen
  BY <1>1, <1>2 DEF Recorded
<1>4. Records'
  BY <1>1, <1>2, <1>3 DEF Records
<1>5. BestEver'
  <2>1. \A g \in 1..gen, i \in Indices :
          generations_'[g][i].fitness <= best_individual'.fitness
    BY <1>1, <1>2, <1>3 DEF BestEver
  <2>2. CASE gen = 0
    <3>1. Recorded' = {}
      BY <2>2, <1>3
    <3> QED BY <3>1 DEF BestEver
  <2>3. CASE gen # 0
    <3>1. Recorded # {} /\ best_generation \in Nat
      BY <2>3, <1>1, <1>3 DEF TypeOK
    <3>2. best_generation + 1 \in 1..gen
      BY <3>1, <1>3 DEF BestEver
    <3>3. \A g \in 1..best_generation : g \in 1..gen
      BY <3>1, <3>2, <1>1
    <3>4. \E i \in Indices : generations_'[best_generation + 1][i] = best_individual
      BY <3>1, <3>2, <1>2 DEF BestEver
    <3>5. \A g \in 1..best_generation, i \in Indices :
            generations_'[g][i].fitness < best_individual.fitness
      BY <3>1, <3>3, <1>2 DEF BestEver
    <3> QED BY <2>1, <3>2, <3>4, <3>5, <1>1, <1>3 DEF BestEver
  <2> QED BY <2>2, <2>3
<1>6. Carries'
  BY <1>1 DEF Carries
<1>7. ElitesSurvive'
  <2> SUFFICES ASSUME NEW g \in 1..gen
               PROVE  OpenedByElites(generations_'[g + 1], generations_'[g])
    BY <1>1, <1>2 DEF ElitesSurvive
  <2>1. CASE g = gen
    <3>1. OpenedByElites(population, generations_[gen])
      BY <2>1, <1>1 DEF Carries
    <3>2. \A k \in 1..EliteCount : population'[k].speed = population[k].speed
      BY EvaluateTypes DEF Indices
    <3> QED BY <2>1, <3>1, <3>2, <1>2, OpenedKept
  <2>2. CASE g # gen
    <3>1. g \in 1..(Len(generations_) - 1) /\ g + 1 \in 1..gen
      BY <2>2, <1>1
    <3> QED BY <3>1, <1>2 DEF ElitesSurvive
  <2> QED BY <2>1, <2>2
<1> QED BY <1>4, <1>5, <1>6, <1>7, EvaluateTypes

LEMMA RecordKeeps ==
  ASSUME IInv, RecordBest
  PROVE  IInv'
<1> USE DEF IInv
<1>1. /\ phase = "record" /\ phase' \in {"done", "select"} /\ gen \in Nat
      /\ Len(generations_) = gen + 1 /\ generations_[gen + 1] = population
      /\ UNCHANGED <<population, gen, generations_, mating_pool, new_population>>
  BY DEF RecordBest, AfterRecord, Records, TypeOK
<1>2. Recorded = 1..gen /\ Recorded' = 1..(gen + 1)
  BY <1>1 DEF Recorded
<1>3. Records' /\ Carries' /\ ElitesSurvive'
  BY <1>1, <1>2 DEF Records, Carries, ElitesSurvive
<1>4. PICK i \in Indices :
        /\ IsFirstBest(i, population)
        /\ IF population[i].fitness > best_individual.fitness
           THEN best_individual' = population[i] /\ best_generation' = gen
           ELSE UNCHANGED <<best_individual, best_generation>>
  BY DEF RecordBest
<1>5. \A j \in Indices : population[j].fitness <= population[i].fitness
                        /\ population[j].fitness \in Nat
  BY <1>4 DEF IsFirstBest, TypeOK, Populations, Individuals
<1>6. best_individual.fitness \in Int
  <2>1. CASE best_individual \in Individuals
    <3>1. best_individual.fitness \in Fitnesses
      BY <2>1 DEF Individuals
    <3>2. best_individual.fitness \in Nat
      BY <3>1
    <3> QED BY <3>2
  <2>2. CASE best_individual = NoIndividual
    BY <2>2 DEF NoIndividual
  <2> QED BY <2>1, <2>2 DEF TypeOK
<1>7. \A g \in 1..gen, j \in Indices :
        /\ generations_[g][j].fitness <= best_individual.fitness
        /\ generations_[g][j].fitness \in Nat
  <2>1. \A g \in 1..gen : generations_[g] \in Populations
    BY <1>1 DEF TypeOK
  <2> QED BY <2>1, <1>2 DEF BestEver, Populations, Individuals
<1>8. CASE population[i].fitness > best_individual.fitness
  <2>1. best_individual' = population[i] /\ best_generation' = gen
    BY <1>8, <1>4
  <2>2. \A g \in 1..gen, j \in Indices :
          generations_[g][j].fitness < population[i].fitness
    BY <1>5, <1>6, <1>7, <1>8
  <2>3. \A g \in 1..(gen + 1), j \in Indices :
          generations_[g][j].fitness <= population[i].fitness
    <3>1. ASSUME NEW g \in 1..(gen + 1), NEW j \in Indices
          PROVE  generations_[g][j].fitness <= population[i].fitness
      <4>1. CASE g = gen + 1
        BY <4>1, <1>1, <1>5
      <4>2. CASE g # gen + 1
        <5>1. g \in 1..gen
          BY <4>2, <1>1
        <5> QED BY <5>1, <2>2, <1>5, <1>7
      <4> QED BY <4>1, <4>2
    <3> QED BY <3>1
  <2>4. BestEver'
    BY <1>1, <1>2, <2>1, <2>2, <2>3 DEF BestEver
  <2> QED BY <2>4, <1>3, RecordTypes
<1>9. CASE ~(population[i].fitness > best_individual.fitness)
  <2>1. UNCHANGED <<best_individual, best_generation>>
    BY <1>9, <1>4
  <2>2. Recorded # {}
    <3>1. population[i].fitness \in Nat
      BY <1>5
    <3>2. best_individual.fitness >= 0
      BY <3>1, <1>9, <1>6
    <3>3. best_individual # NoIndividual
      BY <3>2 DEF NoIndividual
    <3> QED BY <3>3 DEF Records
  <2>3. ASSUME NEW g \in 1..(gen + 1), NEW j \in Indices
        PROVE  generations_[g][j].fitness <= best_individual.fitness
    <3>1. CASE g = gen + 1
      BY <3>1, <1>1, <1>5, <1>6, <1>9
    <3>2. CASE g # gen + 1
      <4>1. g \in 1..gen
        BY <3>2, <1>1
      <4> QED BY <4>1, <1>7
    <3> QED BY <3>1, <3>2
  <2>4. /\ best_generation + 1 \in 1..gen
        /\ \E j \in Indices : generations_[best_generation + 1][j] = best_individual
        /\ \A g \in 1..best_generation, j \in Indices :
             generations_[g][j].fitness < best_individual.fitness
    BY <2>2, <1>2 DEF BestEver
  <2>5. BestEver'
    BY <1>1, <1>2, <2>1, <2>3, <2>4 DEF BestEver
  <2> QED BY <2>5, <1>3, RecordTypes
<1> QED BY <1>8, <1>9

LEMMA SelectKeeps ==
  ASSUME IInv, Select
  PROVE  IInv'
<1> USE DEF IInv
<1>1. /\ phase = "select" /\ phase' = "breed"
      /\ UNCHANGED <<population, gen, generations_, best_individual, best_generation>>
  BY DEF Select
<1>2. Recorded' = Recorded
  BY <1>1 DEF Recorded
<1>3. Records' /\ BestEver' /\ ElitesSurvive'
  BY <1>1, <1>2 DEF Records, BestEver, ElitesSurvive
<1>4. Carries'
  BY <1>1, SelectTypes DEF Carries
<1> QED BY <1>3, <1>4, SelectTypes

LEMMA BreedKeeps ==
  ASSUME IInv, Breed
  PROVE  IInv'
<1> USE DEF IInv
<1>1. /\ phase = "breed" /\ phase' = "breed"
      /\ UNCHANGED <<population, gen, generations_, best_individual, best_generation>>
  BY DEF Breed
<1>2. Recorded' = Recorded
  BY <1>1 DEF Recorded
<1>3. Records' /\ BestEver' /\ ElitesSurvive'
  BY <1>1, <1>2 DEF Records, BestEver, ElitesSurvive
<1>4. Len(new_population) >= EliteCount /\ OpenedByElites(new_population, population)
  BY <1>1 DEF Carries
<1>5. Len(new_population) \in Nat /\ Len(new_population') \in Nat
  BY BreedTypes DEF TypeOK
<1>6. \A k \in 1..EliteCount : new_population'[k].speed = new_population[k].speed
  BY <1>4, <1>5, BreedTypes
<1>7. OpenedByElites(new_population', population)
  BY <1>4, <1>6, OpenedKept
<1>8. Carries'
  BY <1>1, <1>4, <1>5, <1>7, BreedTypes DEF Carries
<1> QED BY <1>3, <1>8, BreedTypes

LEMMA NextGenerationKeeps ==
  ASSUME IInv, NextGeneration
  PROVE  IInv'
<1> USE DEF IInv
<1>1. /\ phase = "breed" /\ phase' = "evaluate" /\ gen \in Nat /\ gen' = gen + 1
      /\ population' = new_population
      /\ Len(generations_) = gen + 1 /\ generations_[gen + 1] = population
      /\ UNCHANGED <<generations_, best_individual, best_generation>>
  BY DEF NextGeneration, TypeOK, Records
<1>2. Recorded' = Recorded
  BY <1>1 DEF Recorded
<1>3. Records' /\ BestEver' /\ ElitesSurvive'
  BY <1>1, <1>2 DEF Records, BestEver, ElitesSurvive
<1>4. Carries'
  BY <1>1 DEF Carries
<1> QED BY <1>3, <1>4, NextGenerationTypes

LEMMA NextIInv == IInv /\ [Next]_vars => IInv'
<1>1. IInv /\ UNCHANGED vars => IInv'
  BY DEF IInv, TypeOK, Records, BestEver, Carries, ElitesSurvive, Recorded, vars
<1> QED BY <1>1, EvaluateKeeps, RecordKeeps, SelectKeeps, BreedKeeps, NextGenerationKeeps
        DEF Next

-----------------------------------------------------------------------------

\* Settings stay in the range asked for, and the population keeps its size, for every
\* range, size and number of elites (genetic_optimizer.cpp:107-149, 224-245).
THEOREM TypeCorrect == Spec => []TypeOK
<1>1. IInv => TypeOK
  BY DEF IInv
<1> QED BY InitIInv, NextIInv, <1>1, PTL DEF Spec

\* The result is the best individual ever evaluated, and stands in the generation it is
\* reported for (genetic_optimizer.cpp:197-204, 251).
THEOREM BestCorrect == Spec => []BestEver
<1>1. IInv => BestEver
  BY DEF IInv
<1> QED BY InitIInv, NextIInv, <1>1, PTL DEF Spec

\* The fittest settings of each generation open the next (genetic_optimizer.cpp:140-149, 220-224).
THEOREM ElitesCorrect == Spec => []ElitesSurvive
<1>1. IInv => ElitesSurvive
  BY DEF IInv
<1> QED BY InitIInv, NextIInv, <1>1, PTL DEF Spec

-----------------------------------------------------------------------------
(* The web client: its types *)

Runs == [gen : Nat, maxGen : Nat, best : Nat, params : Settings]

AppTypeOK ==
  /\ optimizationRunning \in BOOLEAN /\ optimizationCancelled \in BOOLEAN
  /\ chains \in [DOMAIN chains -> Runs] /\ started \in Nat /\ cancelledAt \in Nat
  /\ chart \in Seq(Fitness) /\ seen \in Seq(Fitness)
  /\ asked \in [fitness : Nat, generations : Nat, params : Settings \cup {"none"}]

\* The buttons follow the flag, and the flag tells whether the last run is under way:
\* its chain is then the only one, it is as far as the fitness values seen, and after a
\* cancellation it goes no further.
RunUnderWay ==
  LET run == chains[started] IN
  /\ DOMAIN chains = {started}
  /\ run.gen = Len(seen) /\ Len(seen) >= 1
  /\ run.maxGen = asked.generations /\ run.params = asked.params
  /\ \E i \in 1..Len(seen) : seen[i] = run.best
  /\ \A i \in 1..Len(seen) : seen[i] <= run.best
  /\ shown = Nothing /\ toast # "done"
  /\ optimizationCancelled => cancelledAt = Len(seen)

RunOver ==
  /\ DOMAIN chains = {}
  /\ shown # Nothing <=> toast = "done"
  /\ shown # Nothing => /\ shown = [asked EXCEPT !.fitness = Max(Range(seen))]
                        /\ Len(seen) = shown.generations
  /\ started > 0 /\ shown = Nothing => cancelledAt = Len(seen)

\* The last ChartLength elements.
Latest(q) == SubSeq(q, Max({1, Len(q) - ChartLength + 1}), Len(q))

PanelInv ==
  /\ AppTypeOK
  /\ startEnabled = ~ optimizationRunning /\ cancelEnabled = optimizationRunning
  /\ IF optimizationRunning THEN RunUnderWay ELSE RunOver
  /\ chart = Latest(seen)

LEMMA MaxIs ==
  ASSUME NEW S \in SUBSET Int, NEW m \in S, \A y \in S : y <= m
  PROVE  Max(S) = m
<1>1. \A y \in S : m >= y
  OBVIOUS
<1>2. Max(S) \in S /\ \A y \in S : Max(S) >= y
  BY <1>1 DEF Max
<1>3. Max(S) >= m /\ m >= Max(S) /\ Max(S) \in Int
  BY <1>1, <1>2
<1> QED BY <1>3

LEMMA LatestIs ==
  ASSUME NEW q \in Seq(Fitness)
  PROVE  LET k == IF Len(q) <= ChartLength THEN Len(q) ELSE ChartLength IN
         /\ Latest(q) \in Seq(Fitness) /\ Len(Latest(q)) = k
         /\ \A i \in 1..k : Latest(q)[i] = q[(Len(q) - k) + i]
<1> DEFINE n == Len(q)
           first == Max({1, n - ChartLength + 1})
           k == IF n <= ChartLength THEN n ELSE ChartLength
<1>1. n \in Nat /\ ChartLength \in Nat /\ ChartLength >= 1
  BY LenProperties, WebAppAssumption DEF WebAppAssumption
<1>2. first = (n - k) + 1
  <2> DEFINE S == {1, n - ChartLength + 1}
  <2>1. S \in SUBSET Int /\ (n - k) + 1 \in S /\ \A y \in S : y <= (n - k) + 1
    <3> HIDE DEF n
    <3>1. CASE n <= ChartLength
      <4>1. (n - k) + 1 = 1 /\ n - ChartLength + 1 <= 1 /\ n - ChartLength + 1 \in Int
        BY <1>1, <3>1
      <4> HIDE DEF k
      <4> QED BY <4>1
    <3>2. CASE n > ChartLength
      <4>1. (n - k) + 1 = n - ChartLength + 1 /\ n - ChartLength + 1 >= 1
            /\ n - ChartLength + 1 \in Int
        BY <1>1, <3>2
      <4> HIDE DEF k
      <4> QED BY <4>1
    <3> QED BY <1>1, <3>1, <3>2
  <2> HIDE DEF S
  <2>2. Max(S) = (n - k) + 1
    BY <2>1, MaxIs
  <2> QED BY <2>2 DEF S
<1>3. first \in Int /\ first >= 1 /\ n \in Int
  BY <1>1, <1>2
<1> HIDE DEF first
<1>4. \A i \in first..n : q[i] \in Fitness
  BY <1>3, ElementOfSeq
<1>5. /\ SubSeq(q, first, n) \in Seq(Fitness)
      /\ Len(SubSeq(q, first, n)) = IF first <= n THEN n - first + 1 ELSE 0
      /\ \A i \in 1..n - first + 1 : SubSeq(q, first, n)[i] = q[first + i - 1]
  BY <1>3, <1>4, SubSeqProperties
<1>6. Latest(q) = SubSeq(q, first, n)
  BY DEF Latest, first
<1>7. /\ n - first + 1 = k /\ (IF first <= n THEN n - first + 1 ELSE 0) = k
      /\ \A i \in 1..k : first + i - 1 = (n - k) + i
  BY <1>1, <1>2
<1> HIDE DEF k, n
<1>8. /\ Len(Latest(q)) = k
      /\ \A i \in 1..k : Latest(q)[i] = q[(n - k) + i]
  BY <1>5, <1>6, <1>7
<1> QED BY <1>5, <1>6, <1>8 DEF k, n

\* The chart keeps showing the latest generations.
LEMMA LatestGrows ==
  ASSUME NEW q \in Seq(Fitness), NEW f \in Fitness
  PROVE  AddGeneration(Latest(q), f) = Latest(Append(q, f))
<1> DEFINE n == Len(q)
           k == IF n <= ChartLength THEN n ELSE ChartLength
           line == Latest(q)
           longer == Append(line, f)
           q2 == Append(q, f)
           k2 == IF n + 1 <= ChartLength THEN n + 1 ELSE ChartLength
<1>1. n \in Nat /\ ChartLength \in Nat /\ ChartLength >= 1
  BY LenProperties, WebAppAssumption DEF WebAppAssumption
<1>2. /\ line \in Seq(Fitness) /\ Len(line) = k
      /\ \A i \in 1..k : line[i] = q[(n - k) + i]
  BY LatestIs
<1> HIDE DEF line
<1>3. /\ longer \in Seq(Fitness) /\ longer # <<>> /\ Len(longer) = k + 1
      /\ \A i \in 1..k : longer[i] = line[i]
      /\ longer[k + 1] = f
  BY <1>2, AppendProperties
<1>4. /\ q2 \in Seq(Fitness) /\ Len(q2) = n + 1
      /\ \A i \in 1..n : q2[i] = q[i]
      /\ q2[n + 1] = f
  BY AppendProperties
<1> HIDE DEF longer, q2
<1>5. /\ Latest(q2) \in Seq(Fitness) /\ Len(Latest(q2)) = k2
      /\ \A i \in 1..k2 : Latest(q2)[i] = q2[((n + 1) - k2) + i]
  <2> DEFINE m == Len(q2)
             j == IF m <= ChartLength THEN m ELSE ChartLength
  <2>1. /\ Latest(q2) \in Seq(Fitness) /\ Len(Latest(q2)) = j
        /\ \A i \in 1..j : Latest(q2)[i] = q2[(m - j) + i]
    BY <1>4, LatestIs
  <2>2. m = n + 1 /\ j = k2
    BY <1>4
  <2> HIDE DEF m, j
  <2> QED BY <2>1, <2>2
<1>6. AddGeneration(line, f) = IF k + 1 > ChartLength THEN Tail(longer) ELSE longer
  BY <1>3 DEF AddGeneration, longer
<1> DEFINE added == AddGeneration(line, f)
<1>7. added \in Seq(Fitness) /\ Len(added) = k2 /\ \A i \in 1..k2 : added[i] = Latest(q2)[i]
  <2>1. CASE n < ChartLength
    <3>1. k = n /\ k2 = n + 1 /\ added = longer
      BY <1>1, <1>6, <2>1
    <3> HIDE DEF added, k, k2
    <3>2. ASSUME NEW i \in 1..n + 1 PROVE longer[i] = Latest(q2)[i]
      <4>1. Latest(q2)[i] = q2[i]
        BY <1>1, <1>5, <3>1
      <4>2. CASE i = n + 1
        BY <1>3, <1>4, <3>1, <4>1, <4>2
      <4>3. CASE i \in 1..n
        <5>1. longer[i] = line[i] /\ line[i] = q[(n - n) + i] /\ q2[i] = q[i]
          BY <1>2, <1>3, <1>4, <3>1, <4>3
        <5>2. (n - n) + i = i
          BY <1>1, <4>3
        <5> QED BY <4>1, <5>1, <5>2
      <4> QED BY <1>1, <4>2, <4>3
    <3> QED BY <1>3, <3>1, <3>2
  <2>2. CASE n >= ChartLength
    <3>1. k = ChartLength /\ k2 = k /\ added = Tail(longer) /\ k \in Nat /\ k >= 1 /\ k <= n
      BY <1>1, <1>6, <2>2
    <3> HIDE DEF added, k, k2
    <3>2. /\ Tail(longer) \in Seq(Fitness) /\ Len(Tail(longer)) = k
          /\ \A i \in 1..k : Tail(longer)[i] = longer[i + 1]
      <4>1. /\ Tail(longer) \in Seq(Fitness) /\ Len(Tail(longer)) = Len(longer) - 1
            /\ \A i \in 1..Len(Tail(longer)) : Tail(longer)[i] = longer[i + 1]
        BY <1>3, HeadTailProperties
      <4>2. Len(longer) - 1 = k
        BY <1>3, <3>1
      <4> QED BY <4>1, <4>2
    <3>3. ASSUME NEW i \in 1..k PROVE longer[i + 1] = Latest(q2)[i]
      <4>1. Latest(q2)[i] = q2[((n + 1) - k) + i]
        BY <1>5, <3>1
      <4>2. CASE i = k
        <5>1. ((n + 1) - k) + i = n + 1
          BY <1>1, <3>1, <4>2
        <5> QED BY <1>3, <1>4, <4>1, <4>2, <5>1
      <4>3. CASE i # k
        <5>1. i + 1 \in 1..k /\ ((n + 1) - k) + i = (n - k) + (i + 1) /\ (n - k) + (i + 1) \in 1..n
          BY <1>1, <3>1, <4>3
        <5>2. longer[i + 1] = q[(n - k) + (i + 1)] /\ q2[(n - k) + (i + 1)] = q[(n - k) + (i + 1)]
          BY <1>2, <1>3, <1>4, <5>1
        <5> QED BY <4>1, <5>1, <5>2
      <4> QED BY <4>2, <4>3
    <3> QED BY <3>1, <3>2, <3>3
  <2> QED BY <1>1, <2>1, <2>2
<1>8. added = Latest(q2)
  <2> HIDE DEF added, k2
  <2> QED BY <1>5, <1>7, SeqEqual
<1> QED BY <1>8 DEF line, q2

-----------------------------------------------------------------------------
(* The web client: each event *)

LEMMA FitnessPositive == \A f \in Fitness : f \in Nat /\ f > 0 /\ f \in Int
BY WebAppAssumption DEF WebAppAssumption

LEMMA InitPanel == AppInit => PanelInv
<1> SUFFICES ASSUME AppInit PROVE PanelInv
  OBVIOUS
<1> USE DEF AppInit
<1>1. seen = <<>> /\ chart = <<>> /\ seen \in Seq(Fitness) /\ Len(seen) = 0
  BY EmptySeq
<1>2. DOMAIN chains = {} /\ chains \in [DOMAIN chains -> Runs]
  OBVIOUS
<1>3. chart = Latest(seen)
  <2>1. Latest(seen) \in Seq(Fitness) /\ Len(Latest(seen)) = 0
    <3>1. Len(seen) <= ChartLength
      BY <1>1, WebAppAssumption DEF WebAppAssumption
    <3> QED BY <1>1, <3>1, LatestIs
  <2> QED BY <1>1, <2>1, EmptySeq
<1>4. AppTypeOK
  BY <1>1, <1>2 DEF AppTypeOK, Nothing
<1>5. RunOver
  BY <1>2 DEF RunOver
<1> QED BY <1>3, <1>4, <1>5 DEF PanelInv

LEMMA StartPanel ==
  ASSUME PanelInv, NEW s \in Settings, NEW n \in Generations, NEW f \in Fitness,
         StartOptimization(s, n, f)
  PROVE  PanelInv'
<1> USE DEF StartOptimization
<1>1. ~ optimizationRunning /\ DOMAIN chains = {} /\ started \in Nat
  BY DEF PanelInv, RunOver, AppTypeOK
<1>2. f \in Nat /\ f > 0 /\ n \in Nat
  BY FitnessPositive, WebAppAssumption DEF WebAppAssumption
<1> DEFINE run == [gen |-> 1, maxGen |-> n, best |-> f, params |-> s]
<1>3. run \in Runs /\ Better(0, f) = f
  BY <1>2 DEF Runs, Better
<1>4. DOMAIN chains' = {started'} /\ chains'[started'] = run
  BY <1>1, <1>3
<1> HIDE DEF run
<1>5. chains' \in [DOMAIN chains' -> Runs]
  <2>1. chains' = [c \in {started'} |-> chains'[c]]
    BY <1>1, <1>4
  <2> QED BY <1>3, <1>4, <2>1
<1>6. /\ seen' = <<f>> /\ seen' \in Seq(Fitness) /\ Len(seen') = 1 /\ seen'[1] = f
  OBVIOUS
<1>7. chart' = Latest(seen') /\ chart' \in Seq(Fitness)
  <2>1. <<>> \in Seq(Fitness) /\ Len(<<>>) = 0 /\ Append(<<>>, f) = <<f>>
    BY EmptySeq
  <2>2. Latest(<<>>) = <<>>
    <3> DEFINE none == <<>>
    <3>1. none \in Seq(Fitness) /\ Len(none) = 0 /\ Len(none) <= ChartLength
      BY <2>1, WebAppAssumption DEF WebAppAssumption
    <3> HIDE DEF none
    <3>2. Latest(none) \in Seq(Fitness) /\ Len(Latest(none)) = 0
      BY <3>1, LatestIs
    <3>3. Latest(none) = <<>>
      BY <3>2, EmptySeq
    <3> QED BY <3>3 DEF none
  <2>3. AddGeneration(Latest(<<>>), f) = Latest(Append(<<>>, f))
    BY <2>1, LatestGrows
  <2>4. chart' = Latest(<<f>>)
    BY <2>1, <2>2, <2>3
  <2> QED BY <1>6, <2>4, LatestIs
<1>8. AppTypeOK'
  <2>1. asked' = [fitness |-> 0, generations |-> n, params |-> s]
    OBVIOUS
  <2>2. asked' \in [fitness : Nat, generations : Nat, params : Settings \cup {"none"}]
    BY <1>2, <2>1
  <2>3. /\ optimizationRunning' \in BOOLEAN /\ optimizationCancelled' \in BOOLEAN
        /\ startEnabled' \in BOOLEAN /\ cancelEnabled' \in BOOLEAN
        /\ started' \in Nat /\ cancelledAt' \in Nat
    <3>1. /\ optimizationRunning' = TRUE /\ optimizationCancelled' = FALSE
          /\ startEnabled' = FALSE /\ cancelEnabled' = TRUE
          /\ started' = started + 1 /\ cancelledAt' = 0
      OBVIOUS
    <3> HIDE DEF StartOptimization
    <3>2. /\ optimizationRunning' \in BOOLEAN /\ optimizationCancelled' \in BOOLEAN
          /\ startEnabled' \in BOOLEAN /\ cancelEnabled' \in BOOLEAN
      BY <3>1, Zenon
    <3>3. started' \in Nat /\ cancelledAt' \in Nat
      BY <1>1, <3>1
    <3> QED BY <3>2, <3>3
  <2> QED BY <1>5, <1>6, <1>7, <2>2, <2>3 DEF AppTypeOK
<1>9. RunUnderWay'
  <2>1. run.gen = 1 /\ run.maxGen = n /\ run.params = s /\ run.best = f
    BY DEF run
  <2>2. asked'.generations = n /\ asked'.params = s /\ shown' = Nothing /\ toast' = "started"
    OBVIOUS
  <2>3. /\ \E i \in 1..Len(seen') : seen'[i] = run.best
        /\ \A i \in 1..Len(seen') : seen'[i] <= run.best
    BY <1>2, <1>6, <2>1
  <2>4. ~ optimizationCancelled'
    OBVIOUS
  <2> QED BY <1>4, <1>6, <2>1, <2>2, <2>3, <2>4 DEF RunUnderWay, Nothing
<1>10. startEnabled' = ~ optimizationRunning' /\ cancelEnabled' = optimizationRunning'
  OBVIOUS
<1> QED BY <1>7, <1>8, <1>9, <1>10 DEF PanelInv, Latest

\* The run that the panel may resume is the last one.
LEMMA ResumesLast ==
  ASSUME PanelInv, NEW c \in DOMAIN chains
  PROVE  optimizationRunning /\ RunUnderWay /\ c = started /\ chains[started] \in Runs
BY DEF PanelInv, RunOver, RunUnderWay, AppTypeOK

LEMMA GenerationPanel ==
  ASSUME PanelInv, NEW c \in DOMAIN chains, NEW f \in Fitness, RunGeneration(c, f)
  PROVE  PanelInv'
<1> USE DEF RunGeneration
<1>1. optimizationRunning /\ RunUnderWay /\ c = started /\ chains[c] \in Runs
  BY ResumesLast
<1>2. f \in Nat /\ seen \in Seq(Fitness) /\ Len(seen) \in Nat
  BY FitnessPositive, LenProperties DEF PanelInv, AppTypeOK
<1> DEFINE old == chains[c]
           run == [gen |-> old.gen + 1, maxGen |-> old.maxGen, best |-> Better(old.best, f),
                   params |-> old.params]
<1>3. /\ old.gen \in Nat /\ old.maxGen \in Nat /\ old.best \in Nat /\ old.params \in Settings
      /\ old = [gen |-> old.gen, maxGen |-> old.maxGen, best |-> old.best, params |-> old.params]
  BY <1>1 DEF Runs
<1>4. run \in Runs
  BY <1>2, <1>3 DEF Runs, Better
<1>5. chains' = [chains EXCEPT ![c] = run]
  <2>1. chains' = [chains EXCEPT ![c] = [old EXCEPT !.gen = old.gen + 1,
                                                    !.best = Better(old.best, f)]]
    OBVIOUS
  <2>2. [old EXCEPT !.gen = old.gen + 1, !.best = Better(old.best, f)] = run
    <3> DEFINE g == old.gen
               b == old.best
               m == old.maxGen
               p == old.params
               h == g + 1
               e == Better(b, f)
    <3>1. old = [gen |-> g, maxGen |-> m, best |-> b, params |-> p]
      BY <1>3
    <3> HIDE DEF old, g, b, m, p, h, e
    <3> DEFINE later == [old EXCEPT !.gen = h, !.best = e]
               fields == {"gen", "maxGen", "best", "params"}
    <3>2. old = [x \in fields |-> old[x]] /\ old.maxGen = m /\ old.params = p
      BY <3>1
    <3>3. DOMAIN later = fields /\ later = [x \in DOMAIN later |-> later[x]]
      BY <3>2
    <3>4. later.gen = h /\ later.best = e /\ later.maxGen = m /\ later.params = p
      BY <3>2
    <3> HIDE DEF later
    <3>5. later = [gen |-> h, maxGen |-> m, best |-> e, params |-> p]
      BY <3>3, <3>4
    <3>6. later = run
      BY <3>5 DEF h, e, g, b, m, p
    <3> QED BY <3>6 DEF later, h, g, e, b
  <2> QED BY <2>1, <2>2
<1> HIDE DEF run
<1>6. /\ DOMAIN chains' = {started'} /\ started' = started /\ chains'[started'] = run
      /\ chains' \in [DOMAIN chains' -> Runs]
  <2>1. DOMAIN chains = {started} /\ chains \in [DOMAIN chains -> Runs]
    BY <1>1 DEF RunUnderWay, PanelInv, AppTypeOK
  <2>2. started' = started
    OBVIOUS
  <2> HIDE DEF RunGeneration
  <2> QED BY <1>1, <1>4, <1>5, <2>1, <2>2
<1>7. /\ seen' = Append(seen, f) /\ seen' \in Seq(Fitness) /\ Len(seen') = Len(seen) + 1
      /\ \A i \in 1..Len(seen) : seen'[i] = seen[i]
      /\ seen'[Len(seen) + 1] = f
  <2>1. seen' = Append(seen, f)
    BY <1>1
  <2> QED BY <1>2, <2>1, AppendProperties
<1>8. chart' = Latest(seen') /\ chart' \in Seq(Fitness)
  <2>1. chart' = AddGeneration(Latest(seen), f)
    BY DEF PanelInv
  <2>2. chart' = Latest(Append(seen, f))
    BY <1>2, <2>1, LatestGrows
  <2> QED BY <1>7, <2>2, LatestIs
<1>9. AppTypeOK'
  BY <1>6, <1>7, <1>8 DEF AppTypeOK, PanelInv
<1>10. RunUnderWay'
  <2>1. /\ run.gen = old.gen + 1 /\ run.maxGen = old.maxGen /\ run.best = Better(old.best, f)
        /\ run.params = old.params
    BY DEF run
  <2>2. /\ old.gen = Len(seen) /\ Len(seen) >= 1 /\ old.maxGen = asked.generations
        /\ old.params = asked.params /\ shown = Nothing /\ toast # "done"
        /\ \A i \in 1..Len(seen) : seen[i] <= old.best
    BY <1>1 DEF RunUnderWay
  <2>3. PICK k \in 1..Len(seen) : seen[k] = old.best
    BY <1>1 DEF RunUnderWay
  <2>4. \A i \in 1..Len(seen') : seen'[i] \in Int /\ (i \in 1..Len(seen) \/ i = Len(seen) + 1)
    BY <1>2, <1>7, FitnessPositive, ElementOfSeq
  <2>5. \E i \in 1..Len(seen') : seen'[i] = run.best
    <3>1. CASE f > old.best
      <4>1. run.best = f /\ Len(seen) + 1 \in 1..Len(seen')
        BY <1>2, <1>7, <2>1, <3>1 DEF Better
      <4> QED BY <1>7, <4>1
    <3>2. CASE ~ (f > old.best)
      <4>1. run.best = seen'[k] /\ k \in 1..Len(seen')
        BY <1>2, <1>7, <2>1, <2>3, <3>2 DEF Better
      <4> QED BY <4>1
    <3> QED BY <3>1, <3>2
  <2>6. \A i \in 1..Len(seen') : seen'[i] <= run.best
    <3>1. old.best <= run.best /\ f <= run.best /\ run.best \in Int
      BY <1>2, <1>3, <2>1 DEF Better
    <3> QED BY <1>2, <1>3, <1>7, <2>2, <2>4, <3>1
  <2>7. ~ optimizationCancelled' /\ asked' = asked /\ shown' = shown /\ toast' = toast
    OBVIOUS
  <2> QED BY <1>6, <1>7, <1>2, <2>1, <2>2, <2>5, <2>6, <2>7 DEF RunUnderWay, Nothing
<1>11. /\ optimizationRunning' /\ startEnabled' = ~ optimizationRunning'
       /\ cancelEnabled' = optimizationRunning'
  BY <1>1 DEF PanelInv
<1> QED BY <1>8, <1>9, <1>10, <1>11 DEF PanelInv, Latest

LEMMA EndPanel ==
  ASSUME PanelInv, NEW c \in DOMAIN chains, EndOptimization(c)
  PROVE  PanelInv'
<1> USE DEF EndOptimization
<1>1. optimizationRunning /\ RunUnderWay /\ c = started /\ chains[c] \in Runs
  BY ResumesLast
<1>2. UNCHANGED <<optimizationCancelled, chart, asked, seen, cancelledAt, started>>
  OBVIOUS
<1>3. DOMAIN chains' = {} /\ chains' \in [DOMAIN chains' -> Runs]
  BY <1>1 DEF RunUnderWay, Forget, Restrict
<1>4. seen \in Seq(Fitness) /\ asked \in [fitness : Nat, generations : Nat, params : Settings \cup {"none"}]
  BY DEF PanelInv, AppTypeOK
<1> DEFINE run == chains[c]
<1>5. /\ run.gen = Len(seen) /\ Len(seen) >= 1 /\ run.maxGen = asked.generations
      /\ run.params = asked.params /\ shown = Nothing /\ toast # "done"
      /\ \E i \in 1..Len(seen) : seen[i] = run.best
      /\ \A i \in 1..Len(seen) : seen[i] <= run.best
      /\ optimizationCancelled => cancelledAt = Len(seen)
  BY <1>1 DEF RunUnderWay
<1> HIDE DEF run
<1>6. RunOver'
  <2>1. CASE optimizationCancelled
    <3>1. shown' = Nothing /\ toast' # "done"
      BY <1>5, <2>1
    <3> QED BY <1>2, <1>3, <1>5, <2>1, <3>1 DEF RunOver, Nothing
  <2>2. CASE ~ optimizationCancelled
    <3>1. /\ shown' = [fitness |-> run.best, generations |-> run.maxGen, params |-> run.params]
          /\ toast' = "done" /\ run.gen = run.maxGen
      BY <2>2 DEF run
    <3>2. Max(Range(seen)) = run.best
      <4>1. Range(seen) = {seen[i] : i \in 1..Len(seen)}
        BY <1>4, RangeEquality
      <4>2. Range(seen) \in SUBSET Int
        BY <1>4, RangeOfSeq, FitnessPositive
      <4>3. run.best \in Range(seen) /\ \A y \in Range(seen) : y <= run.best
        BY <1>5, <4>1
      <4> DEFINE S == Range(seen)
      <4> HIDE DEF S
      <4> QED BY <4>2, <4>3, MaxIs DEF S
    <3>3. run.best > 0 /\ run.best \in Int
      <4>1. PICK i \in 1..Len(seen) : seen[i] = run.best
        BY <1>5
      <4>2. seen[i] \in Fitness
        BY <1>4, ElementOfSeq
      <4> QED BY <4>1, <4>2, FitnessPositive
    <3>4. shown'.fitness = run.best /\ Nothing.fitness = 0
      BY <3>1 DEF Nothing
    <3>5. shown' # Nothing
      BY <3>3, <3>4
    <3> DEFINE top == Max(Range(seen))
    <3>6. top = run.best
      BY <3>2
    <3> HIDE DEF top
    <3>7. [asked EXCEPT !.fitness = top]
            = [fitness |-> top, generations |-> asked.generations, params |-> asked.params]
      BY <1>4
    <3>8. shown' = [asked EXCEPT !.fitness = top]
      BY <1>5, <3>1, <3>6, <3>7
    <3>9. shown' = [asked' EXCEPT !.fitness = Max(Range(seen'))]
      BY <1>2, <3>8 DEF top
    <3>10. Len(seen') = shown'.generations
      BY <1>2, <1>5, <3>1
    <3> QED BY <1>3, <3>1, <3>5, <3>9, <3>10 DEF RunOver, Nothing
  <2> QED BY <2>1, <2>2
<1>7. ~ optimizationRunning' /\ startEnabled' = TRUE /\ cancelEnabled' = FALSE
  OBVIOUS
<1>8. AppTypeOK'
  BY <1>2, <1>3, <1>7 DEF AppTypeOK, PanelInv
<1>9. chart' = Latest(seen')
  BY <1>2 DEF PanelInv
<1> QED BY <1>6, <1>7, <1>8, <1>9 DEF PanelInv, Latest

LEMMA CancelPanel ==
  ASSUME PanelInv, CancelOptimization
  PROVE  PanelInv'
<1> USE DEF CancelOptimization
<1>1. optimizationRunning /\ RunUnderWay
  BY DEF PanelInv
<1>2. UNCHANGED <<optimizationRunning, startEnabled, cancelEnabled, chains, chart, shown, toast,
                  asked, seen, started>>
  OBVIOUS
<1>3. cancelledAt' = Len(seen)
  BY <1>1 DEF RunUnderWay
<1>4. Len(seen) \in Nat
  BY LenProperties DEF PanelInv, AppTypeOK
<1>5. AppTypeOK'
  BY <1>2, <1>3, <1>4 DEF AppTypeOK, PanelInv
<1>6. RunUnderWay'
  BY <1>1, <1>2, <1>3 DEF RunUnderWay
<1>7. startEnabled' = ~ optimizationRunning' /\ cancelEnabled' = optimizationRunning'
  <2>1. startEnabled = ~ optimizationRunning /\ cancelEnabled = optimizationRunning
    BY DEF PanelInv
  <2> HIDE DEF CancelOptimization
  <2> QED BY <1>2, <2>1, Zenon
<1>8. chart' = Latest(seen')
  BY <1>2 DEF PanelInv, Latest
<1> QED BY <1>1, <1>2, <1>5, <1>6, <1>7, <1>8 DEF PanelInv, Latest

LEMMA NextPanel == PanelInv /\ [AppNext]_appVars => PanelInv'
<1> SUFFICES ASSUME PanelInv, [AppNext]_appVars PROVE PanelInv'
  OBVIOUS
<1>1. ASSUME UNCHANGED runVars PROVE PanelInv'
  BY <1>1 DEF runVars, PanelInv, AppTypeOK, RunUnderWay, RunOver, Latest
<1>2. ASSUME NEW c \in 1..MaxRuns, Resume(c) PROVE PanelInv'
  BY <1>2, EndPanel, GenerationPanel DEF Resume
<1> QED BY <1>1, <1>2, StartPanel, CancelPanel DEF AppNext, ToggleRefresh, ChooseInterval, appVars

\* Whatever is clicked between two generations, the panel shows the last run: its chart,
\* and its best fitness only if it came to its end (app.js:620-727).
THEOREM PanelCorrect == AppSpec => []PanelShowsLastRun
<1>1. PanelInv => PanelShowsLastRun
  <2> SUFFICES ASSUME PanelInv PROVE PanelShowsLastRun
    OBVIOUS
  <2>1. chart = SubSeq(seen, Max({1, Len(seen) - ChartLength + 1}), Len(seen))
    BY DEF PanelInv, Latest
  <2>2. CASE optimizationRunning
    BY <2>1, <2>2 DEF PanelInv, RunUnderWay, PanelShowsLastRun
  <2>3. CASE ~ optimizationRunning
    <3>1. RunOver /\ chains \in [DOMAIN chains -> Runs]
      BY <2>3 DEF PanelInv, AppTypeOK
    <3>2. chains = <<>>
      BY <3>1 DEF RunOver
    <3> QED BY <2>1, <2>3, <3>1, <3>2 DEF RunOver, PanelShowsLastRun
  <2> QED BY <2>2, <2>3
<1> QED BY <1>1, InitPanel, NextPanel, PTL DEF AppSpec

\* One interval fires with the chosen period, or none: the timer the client holds is
\* stopped before another is set (app.js:355-382, 425-443).
THEOREM RefreshCorrect == AppSpec => []RefreshAsSet
<1> DEFINE AsSet ==
      /\ autoRefresh \in BOOLEAN
      /\ live = [i \in DOMAIN live |-> live[i]]
      /\ IF autoRefresh THEN DOMAIN live = {refreshTimer} /\ live[refreshTimer] = refreshInterval
                        ELSE DOMAIN live = {}
<1>1. AppInit => AsSet
  BY DEF AppInit
<1>2. AsSet /\ [AppNext]_appVars => AsSet'
  <2> SUFFICES ASSUME AsSet, [AppNext]_appVars PROVE AsSet'
    OBVIOUS
  <2>1. ASSUME UNCHANGED refreshVars PROVE AsSet'
    BY <2>1 DEF refreshVars
  <2>2. ASSUME StopDataRefresh, autoRefresh, UNCHANGED refreshInterval, ~ autoRefresh',
               autoRefresh' \in BOOLEAN
        PROVE  AsSet'
    BY <2>2 DEF StopDataRefresh, Restrict
  <2>3. CASE ToggleRefresh
    <3>1. CASE autoRefresh
      BY <2>2, <2>3, <3>1 DEF ToggleRefresh
    <3>2. CASE ~ autoRefresh
      BY <2>3, <3>2 DEF ToggleRefresh, StartDataRefresh
    <3> QED BY <3>1, <3>2
  <2>4. ASSUME NEW period \in Intervals, ChooseInterval(period) PROVE AsSet'
    <3>1. CASE autoRefresh
      BY <2>4, <3>1 DEF ChooseInterval, StartDataRefresh
    <3>2. CASE ~ autoRefresh
      BY <2>4, <3>2 DEF ChooseInterval, StartDataRefresh, StopDataRefresh, Restrict
    <3> QED BY <3>1, <3>2
  <2>5. CASE \/ \E s \in Settings, n \in Generations, f \in Fitness : StartOptimization(s, n, f)
             \/ \E c \in 1..MaxRuns : Resume(c)
             \/ CancelOptimization
    BY <2>1, <2>5 DEF StartOptimization, Resume, EndOptimization, RunGeneration, CancelOptimization
  <2> QED BY <2>1, <2>3, <2>4, <2>5 DEF AppNext, appVars
<1>3. AsSet => RefreshAsSet
  BY DEF RefreshAsSet
<1> HIDE DEF AsSet
<1> QED BY <1>1, <1>2, <1>3, PTL DEF AppSpec
=============================================================================
