--------------------------- MODULE GeneticOptimizer ---------------------------
(***************************************************************************)
(* GeneticOptimizer::optimize: generations of individuals, the best one    *)
(* seen, the elites that pass on unchanged, and offspring of two parents.  *)
(*                                                                         *)
(* An individual is one setting (roller_gap is treated as roller_speed is) *)
(* and its fitness.  A fitness comes from a simulation with random         *)
(* breakage, so each evaluation may give any value, also of a setting that *)
(* was evaluated before.  Every random draw is a free choice over its      *)
(* range; the draws of whole numbers stand for those of reals.             *)
(***************************************************************************)
EXTENDS Integers, Sequences

CONSTANTS MinSpeed, MaxSpeed,
          Fitnesses,          \* what an evaluation may yield: never negative
          PopulationSize, MaxGenerations,
          EliteCount          \* population_size * elitism_rate, truncated; the rate is 0.1

\* With one individual the draw of a second parent (genetic_optimizer.cpp:230) never
\* ends; with none, max_element yields no element to print (215).
ASSUME OptimizerAssumption ==
  /\ MinSpeed \in Int /\ MaxSpeed \in Int /\ MinSpeed <= MaxSpeed
  /\ Fitnesses \subseteq Nat /\ Fitnesses # {} /\ 0 \in Fitnesses
  /\ PopulationSize \in Nat /\ PopulationSize >= 2
  /\ MaxGenerations \in Nat
  /\ EliteCount \in 0..PopulationSize

Indices == 1..PopulationSize
Speeds == MinSpeed..MaxSpeed
Individuals == [speed : Speeds, fitness : Fitnesses]
Populations == [Indices -> Individuals]

VARIABLES phase, population, gen,
          generations_,                       \* each population as it was evaluated
          mating_pool, new_population,
          best_individual, best_generation

vars == <<phase, population, gen, generations_, mating_pool, new_population,
          best_individual, best_generation>>

\* Individual best_individual{}; its fitness is set to -1.
NoIndividual == [speed |-> 0, fitness |-> -1]

-----------------------------------------------------------------------------
(* Operators *)

Between(x, a, b) == (a <= x /\ x <= b) \/ (b <= x /\ x <= a)

\* The two blends of crossover() lie between the parents and add up to them; without a
\* crossover the children are copies.
Crossover(parent1, parent2) ==
  {<<child, parent1 + parent2 - child>> :
     child \in {x \in Speeds : Between(x, parent1, parent2)}}

Shifts == (MinSpeed - MaxSpeed)..(MaxSpeed - MinSpeed)

\* Nothing happens, or a normal deviate is added and the sum is clamped.
Clamp(x) == IF x < MinSpeed THEN MinSpeed ELSE IF x > MaxSpeed THEN MaxSpeed ELSE x
Mutate(speed) == {speed} \cup {Clamp(speed + shift) : shift \in Shifts}

\* The orders that std::sort may leave a population in: operator< puts the fitter
\* individual first, and equal ones come in any order.
Sortings(pop) ==
  {order \in [Indices -> Indices] :
     /\ \A i, j \in Indices : order[i] = order[j] => i = j
     /\ \A i \in Indices : \E j \in Indices : order[j] = i
     /\ \A i, j \in Indices : i < j => pop[order[i]].fitness >= pop[order[j]].fitness}

Elites_Weakest(pop) ==   \* faulty: sorted the other way round
  {[k \in 1..EliteCount |-> pop[order[PopulationSize + 1 - k]]] : order \in Sortings(pop)}

Elites(pop) ==
  {[k \in 1..EliteCount |-> pop[order[k]]] : order \in Sortings(pop)}

\* std::max_element: the first of the fittest.
IsFirstBest(i, pop) ==
  /\ \A j \in Indices : pop[j].fitness <= pop[i].fitness
  /\ \A j \in Indices : j < i => pop[j].fitness < pop[i].fitness

-----------------------------------------------------------------------------

Init ==
  /\ population \in [Indices -> [speed : Speeds, fitness : {0}]]
  /\ gen = 0 /\ generations_ = <<>>
  /\ mating_pool = <<>> /\ new_population = <<>>
  /\ best_individual = NoIndividual /\ best_generation = 0
  /\ phase = IF MaxGenerations = 0 THEN "done" ELSE "evaluate"

\* evaluate_fitness of every individual, in place; the population is then recorded.
Evaluate ==
  /\ phase = "evaluate"
  /\ \E f \in [Indices -> Fitnesses] :
       population' = [i \in Indices |-> [population[i] EXCEPT !.fitness = f[i]]]
  /\ generations_' = Append(generations_, population')
  /\ phase' = "record"
  /\ UNCHANGED <<gen, mating_pool, new_population, best_individual, best_generation>>

AfterRecord == IF gen = MaxGenerations - 1 THEN "done" ELSE "select"

RecordBest_Tie ==   \* faulty: >= for >
  /\ phase = "record"
  /\ \E i \in Indices :
       /\ IsFirstBest(i, population)
       /\ IF population[i].fitness >= best_individual.fitness
          THEN best_individual' = population[i] /\ best_generation' = gen
          ELSE UNCHANGED <<best_individual, best_generation>>
  /\ phase' = AfterRecord
  /\ UNCHANGED <<population, gen, generations_, mating_pool, new_population>>

\* The best of the generation replaces the best so far only if it is better.
RecordBest ==
  /\ phase = "record"
  /\ \E i \in Indices :
       /\ IsFirstBest(i, population)
       /\ IF population[i].fitness > best_individual.fitness
          THEN best_individual' = population[i] /\ best_generation' = gen
          ELSE UNCHANGED <<best_individual, best_generation>>
  /\ phase' = AfterRecord
  /\ UNCHANGED <<population, gen, generations_, mating_pool, new_population>>

\* elitism() and tournament_selection().  Tournaments draw with replacement, so any
\* individual may win each of them, against itself.
Select ==
  /\ phase = "select"
  /\ \E elites \in Elites(population) : new_population' = elites
  /\ \E winner \in [Indices -> Indices] :
       mating_pool' = [i \in Indices |-> population[winner[i]]]
  /\ phase' = "breed"
  /\ UNCHANGED <<population, gen, generations_, best_individual, best_generation>>

Breed_Pairs ==   \* faulty: goes on only while there is room for two
  /\ phase = "breed"
  /\ Len(new_population) + 1 < PopulationSize
  /\ \E s1, s2 \in Speeds :
       new_population' = Append(Append(new_population, [speed |-> s1, fitness |-> 0]),
                                [speed |-> s2, fitness |-> 0])
  /\ UNCHANGED <<phase, population, gen, generations_, mating_pool,
                 best_individual, best_generation>>

\* Two different places of the pool are drawn; their children follow the elites, the
\* second one if there is room.
Breed ==
  /\ phase = "breed"
  /\ Len(new_population) < PopulationSize
  /\ \E p1, p2 \in Indices : p1 # p2 /\
       \E children \in Crossover(mating_pool[p1].speed, mating_pool[p2].speed) :
         \E s1 \in Mutate(children[1]), s2 \in Mutate(children[2]) :
           LET c1 == [speed |-> s1, fitness |-> 0]
               c2 == [speed |-> s2, fitness |-> 0]
           IN  new_population' =
                 IF Len(new_population) + 1 < PopulationSize
                 THEN Append(Append(new_population, c1), c2)
                 ELSE Append(new_population, c1)
  /\ UNCHANGED <<phase, population, gen, generations_, mating_pool,
                 best_individual, best_generation>>

\* The new population is moved into place.  The pool is cleared here, not at the start
\* of the next selection: nothing reads it in between.
NextGeneration ==
  /\ phase = "breed" /\ Len(new_population) >= PopulationSize
  /\ population' = new_population
  /\ gen' = gen + 1
  /\ new_population' = <<>> /\ mating_pool' = <<>>
  /\ phase' = "evaluate"
  /\ UNCHANGED <<generations_, best_individual, best_generation>>

Next == Evaluate \/ RecordBest \/ Select \/ Breed \/ NextGeneration

\* optimize() runs on one thread, which is scheduled.
Spec == Init /\ [][Next]_vars /\ WF_vars(Next)

-----------------------------------------------------------------------------
(* Properties *)

\* Settings stay in the range that was asked for, through crossover, mutation and
\* elitism, and the population keeps its size (genetic_optimizer.cpp:107-149, 224-245).
TypeOK ==
  /\ phase \in {"evaluate", "record", "select", "breed", "done"}
  /\ population \in Populations
  /\ gen \in Nat /\ best_generation \in Nat
  /\ generations_ \in Seq(Populations)
  /\ IF phase = "breed" THEN mating_pool \in Populations ELSE mating_pool = <<>>
  /\ new_population \in Seq(Individuals) /\ Len(new_population) <= PopulationSize
  /\ best_individual \in Individuals \cup {NoIndividual}

\* The generations whose best has been looked at.
Recorded == 1..(IF phase = "record" THEN Len(generations_) - 1 ELSE Len(generations_))

\* The result is the best individual of the whole search, not of the last population:
\* it stands in the generation it is reported for, nothing evaluated is better, and
\* nothing earlier is as good (genetic_optimizer.cpp:197-204, 251).
BestEver ==
  /\ \A g \in Recorded, i \in Indices :
       generations_[g][i].fitness <= best_individual.fitness
  /\ Recorded # {} =>
       /\ best_generation + 1 \in Recorded
       /\ \E i \in Indices : generations_[best_generation + 1][i] = best_individual
       /\ \A g \in 1..best_generation, i \in Indices :
            generations_[g][i].fitness < best_individual.fitness

\* A population opens with the settings of EliteCount individuals of another one, none
\* of which has a fitter one left behind.
OpenedByElites(next, pop) ==
  \E elite \in [1..EliteCount -> Indices] :
    /\ \A k, l \in 1..EliteCount : elite[k] = elite[l] => k = l
    /\ \A k \in 1..EliteCount : next[k].speed = pop[elite[k]].speed
    /\ \A i \in Indices :
         \/ \E k \in 1..EliteCount : elite[k] = i
         \/ \A k \in 1..EliteCount : pop[i].fitness <= pop[elite[k]].fitness

\* The fittest settings of a generation open the next one, however ties were sorted
\* (genetic_optimizer.cpp:140-149, 220-224).
ElitesSurvive ==
  \A g \in 1..(Len(generations_) - 1) :
    OpenedByElites(generations_[g + 1], generations_[g])

\* The search ends after its generations (genetic_optimizer.cpp:188, 218).
Finishes == <>(phase = "done" /\ Len(generations_) = MaxGenerations)
=============================================================================
