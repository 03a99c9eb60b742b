---------------------------- MODULE DEMModelProofs ----------------------------
(***************************************************************************)
(* For any scales, steps, fragment counts and numbers of particles: types, *)
(* that ids are unique, and that results are counted right.  Every list of particles that a function makes *)
(* is numbered from the counter on (Fresh), so the argument is one lemma   *)
(* about appending such a list to one whose ids lie below the counter.     *)
(* The inductive invariant adds that fragments and loads are pending only  *)
(* inside handle_breakage and until it decides (Pending).                  *)
(*                                                                         *)
(* For the counts, Counted says at every moment of a call what the result  *)
(* says at its end.  Coarse-graining and reconstruction map positions to   *)
(* positions: the broken grains of a result are, one to one, the pairs of  *)
(* a broken group and a place in it.                                       *)
(***************************************************************************)
EXTENDS DEMModel, FiniteSetTheorems, FunctionTheorems, SequenceTheorems, TLAPS

USE DEMAssumption DEF DEMAssumption

Below(list, limit) ==
  /\ \A i, j \in 1..Len(list) : list[i].id = list[j].id => i = j
  /\ \A i \in 1..Len(list) : list[i].id < limit

Fresh(list, start) ==
  list \in Seq(Particles) /\ \A k \in 1..Len(list) : list[k].id = start + k - 1

Pending ==
  /\ phase # "fragment" => new_particles = <<>> /\ to_break = {}
  /\ phase \notin {"integrate", "decide"} => load = <<>>

IInv == TypeOK /\ Pending /\ IdsUnique

-----------------------------------------------------------------------------
(* Numbering *)

\* Only ids matter.
LEMMA BelowSame ==
  ASSUME NEW list, NEW other, NEW limit, Below(list, limit), Len(other) = Len(list),
         \A i \in 1..Len(list) : other[i].id = list[i].id
  PROVE  Below(other, limit)
BY DEF Below

LEMMA FreshBelow ==
  ASSUME NEW start \in Nat, NEW list, Fresh(list, start)
  PROVE  Below(list, start + Len(list))
<1>1. Len(list) \in Nat
  BY LenProperties DEF Fresh
<1> QED BY <1>1 DEF Fresh, Below

\* Numbering what is appended from the counter on keeps ids unique and below the counter.
LEMMA AppendFresh ==
  ASSUME NEW start \in Nat, NEW list \in Seq(Particles), NEW new,
         Below(list, start), Fresh(new, start)
  PROVE  Below(list \o new, start + Len(new))
<1>1. /\ new \in Seq(Particles) /\ Len(new) \in Nat /\ Len(list) \in Nat
      /\ Len(list \o new) = Len(list) + Len(new)
  BY LenProperties, ConcatProperties DEF Fresh
<1> DEFINE both == list \o new
<1>2. ASSUME NEW i \in 1..Len(both)
      PROVE  \/ i \in 1..Len(list) /\ both[i] = list[i]
             \/ i - Len(list) \in 1..Len(new) /\ both[i] = new[i - Len(list)]
  BY <1>1, ConcatProperties
<1>3. ASSUME NEW i \in 1..Len(list)
      PROVE  list[i].id \in Nat /\ list[i].id < start
  <2>1. list[i] \in Particles
    BY <1>1, ElementOfSeq
  <2> QED BY <2>1 DEF Below, Particles
<1>4. ASSUME NEW k \in 1..Len(new)
      PROVE  new[k].id = start + k - 1
  BY DEF Fresh
<1> HIDE DEF both
<1>5. Len(both) = Len(list) + Len(new)
  BY <1>1 DEF both
<1>6. ASSUME NEW i \in 1..Len(both)
      PROVE  both[i].id < start + Len(new)
  <2>1. CASE i \in 1..Len(list) /\ both[i] = list[i]
    BY <2>1, <1>1, <1>3
  <2>2. CASE i - Len(list) \in 1..Len(new) /\ both[i] = new[i - Len(list)]
    BY <2>2, <1>1, <1>4
  <2> QED BY <2>1, <2>2, <1>2
<1>7. ASSUME NEW i \in 1..Len(both), NEW j \in 1..Len(both), both[i].id = both[j].id
      PROVE  i = j
  <2>1. CASE both[i] = list[i] /\ both[j] = list[j] /\ i \in 1..Len(list) /\ j \in 1..Len(list)
    BY <2>1, <1>7 DEF Below
  <2>2. CASE /\ i - Len(list) \in 1..Len(new) /\ both[i] = new[i - Len(list)]
             /\ j - Len(list) \in 1..Len(new) /\ both[j] = new[j - Len(list)]
    <3>1. both[i].id = start + (i - Len(list)) - 1 /\ both[j].id = start + (j - Len(list)) - 1
      BY <2>2, <1>4
    <3> QED BY <3>1, <1>1, <1>7
  <2>3. CASE /\ i \in 1..Len(list) /\ both[i] = list[i]
             /\ j - Len(list) \in 1..Len(new) /\ both[j] = new[j - Len(list)]
    <3>1. both[i].id \in Nat /\ both[i].id < start
      BY <2>3, <1>3
    <3>2. both[j].id = start + (j - Len(list)) - 1 /\ j - Len(list) >= 1
      BY <2>3, <1>1, <1>4
    <3> QED BY <3>1, <3>2, <1>1, <1>7
  <2>4. CASE /\ j \in 1..Len(list) /\ both[j] = list[j]
             /\ i - Len(list) \in 1..Len(new) /\ both[i] = new[i - Len(list)]
    <3>1. both[j].id \in Nat /\ both[j].id < start
      BY <2>4, <1>3
    <3>2. both[i].id = start + (i - Len(list)) - 1 /\ i - Len(list) >= 1
      BY <2>4, <1>1, <1>4
    <3> QED BY <3>1, <3>2, <1>1, <1>7
  <2> QED BY <2>1, <2>2, <2>3, <2>4, <1>2
<1> QED BY <1>6, <1>7 DEF Below, both

\* The position that a fine particle is reconstructed from exists.
LEMMA CoarseIndex ==
  ASSUME NEW scale \in Nat \ {0}, NEW n \in Nat, NEW k \in 1..(scale * n)
  PROVE  ((k - 1) \div scale) + 1 \in 1..n
<1> DEFINE q == (k - 1) \div scale
<1>1. k \in Nat /\ k >= 1 /\ k <= scale * n
  OBVIOUS
<1>2. q \in Int /\ scale * q <= k - 1 /\ k - 1 < scale * q + scale
  BY <1>1
<1> HIDE DEF q
<1>3. q < n
  <2>1. SUFFICES ASSUME q >= n PROVE FALSE
    BY <1>2
  <2>2. scale * q >= scale * n
    BY <2>1, <1>2
  <2> QED BY <2>2, <1>1, <1>2
<1>4. q >= 0
  <2>1. SUFFICES ASSUME q <= -1 PROVE FALSE
    BY <1>2
  <2>2. scale * q <= scale * (-1)
    BY <2>1, <1>2
  <2> QED BY <2>2, <1>1, <1>2
<1> QED BY <1>2, <1>3, <1>4 DEF q

-----------------------------------------------------------------------------
(* The lists that the functions make *)

LEMMA BrokenCounts ==
  ASSUME NEW list \in Seq(Particles)
  PROVE  Broken(list) \in Nat
<1>1. Len(list) \in Nat /\ DOMAIN list = 1..Len(list)
  BY LenProperties
<1>2. IsFiniteSet(1..Len(list))
  BY <1>1, FS_Interval
<1>3. IsFiniteSet({i \in DOMAIN list : list[i].broken})
  BY <1>1, <1>2, FS_Subset
<1> QED BY <1>3, FS_CardinalityType DEF Broken

LEMMA NumberedFresh ==
  ASSUME next_particle_id_ \in Nat, NEW n \in Nat, NEW list \in Numbered(n)
  PROVE  Fresh(list, next_particle_id_) /\ Len(list) = n
<1>1. PICK kind \in [1..n -> [strength : Strengths, broken : BOOLEAN]] :
        list = [g \in 1..n |-> [id |-> next_particle_id_ + g - 1,
                                strength |-> kind[g].strength, broken |-> kind[g].broken]]
  BY DEF Numbered
<1>2. ASSUME NEW g \in 1..n
      PROVE  /\ next_particle_id_ + g - 1 \in Nat
             /\ kind[g].strength \in Strengths /\ kind[g].broken \in BOOLEAN
  BY <1>1
<1>3. \A g \in 1..n : list[g] \in Particles /\ list[g].id = next_particle_id_ + g - 1
  BY <1>1, <1>2 DEF Particles
<1>4. list \in Seq(Particles) /\ Len(list) = n
  BY <1>1, <1>3
<1> QED BY <1>3, <1>4 DEF Fresh

LEMMA ReconstructFresh ==
  ASSUME next_particle_id_ \in Nat, coarse_scale \in Nat \ {0}, NEW list \in Seq(Particles)
  PROVE  /\ Fresh(Reconstruct(list), next_particle_id_)
         /\ Len(Reconstruct(list)) = coarse_scale * Len(list)
<1> DEFINE n == coarse_scale * Len(list)
           cp(k) == list[((k - 1) \div coarse_scale) + 1]
<1>1. Len(list) \in Nat /\ n \in Nat
  BY LenProperties
<1>2. ASSUME NEW k \in 1..n
      PROVE  cp(k) \in Particles /\ next_particle_id_ + k - 1 \in Nat
  <2>1. ((k - 1) \div coarse_scale) + 1 \in 1..Len(list)
    BY <1>1, CoarseIndex
  <2>2. cp(k) \in Particles
    BY <2>1, ElementOfSeq
  <2> QED BY <2>2, <1>1
<1>3. Reconstruct(list) =
        [k \in 1..n |-> [id |-> next_particle_id_ + k - 1, strength |-> cp(k).strength,
                         broken |-> cp(k).broken]]
  BY DEF Reconstruct
<1> HIDE DEF n, cp
<1>4. \A k \in 1..n : /\ Reconstruct(list)[k] \in Particles
                      /\ Reconstruct(list)[k].id = next_particle_id_ + k - 1
  BY <1>2, <1>3 DEF Particles
<1>5. Reconstruct(list) \in Seq(Particles) /\ Len(Reconstruct(list)) = n
  BY <1>1, <1>3, <1>4
<1> QED BY <1>4, <1>5 DEF Fresh, n

LEMMA PiecesFresh ==
  ASSUME new_id_start \in Nat, NEW n \in Nat, NEW parent \in Particles
  PROVE  Fresh(Pieces(parent, n), new_id_start) /\ Len(Pieces(parent, n)) = n
<1>1. Pieces(parent, n) =
        [k \in 1..n |-> [id |-> new_id_start + k - 1, strength |-> parent.strength,
                         broken |-> FALSE]]
  BY DEF Pieces
<1>2. ASSUME NEW k \in 1..n
      PROVE  Pieces(parent, n)[k] \in Particles /\ Pieces(parent, n)[k].id = new_id_start + k - 1
  <2>1. new_id_start + k - 1 \in Nat /\ parent.strength \in Strengths
    BY DEF Particles
  <2> QED BY <1>1, <2>1 DEF Particles
<1>3. Pieces(parent, n) \in Seq(Particles) /\ Len(Pieces(parent, n)) = n
  BY <1>1, <1>2
<1> QED BY <1>2, <1>3 DEF Fresh

\* IdsUnique in the terms of the lemmas.
LEMMA BelowIs ==
  ASSUME NEW list \in Seq(Particles), NEW limit
  PROVE  Below(list, limit) <=>
           /\ \A i, j \in DOMAIN list : list[i].id = list[j].id => i = j
           /\ \A i \in DOMAIN list : list[i].id < limit
<1>1. DOMAIN list = 1..Len(list)
  BY LenProperties
<1> QED BY <1>1 DEF Below

\* Outside handle_breakage only the list itself counts.
LEMMA IdsOutside ==
  ASSUME TypeOK, Pending, IdsUnique, phase # "fragment"
  PROVE  Below(particles, next_particle_id_)
<1>1. particles \o new_particles = particles
  BY ConcatEmptySeq DEF TypeOK, Pending
<1> QED BY <1>1, BelowIs DEF IdsUnique, TypeOK

LEMMA IdsOutsideNext ==
  ASSUME particles' \in Seq(Particles), new_particles' = <<>>, phase' # "fragment",
         Below(particles', next_particle_id_')
  PROVE  IdsUnique'
<1>1. particles' \o new_particles' = particles'
  BY ConcatEmptySeq
<1>2. /\ \A i, j \in DOMAIN particles' : particles'[i].id = particles'[j].id => i = j
      /\ \A i \in DOMAIN particles' : particles'[i].id < next_particle_id_'
  BY BelowIs
<1> QED BY <1>1, <1>2 DEF IdsUnique

LEMMA InitIInv == Init => IInv
<1> SUFFICES ASSUME Init PROVE IInv
  OBVIOUS
<1> USE DEF Init
<1>1. particles \in Seq(Particles) /\ new_particles \in Seq(Particles) /\ Len(particles) = 0
  BY EmptySeq
<1>2. DOMAIN particles = {}
  OBVIOUS
<1>3. TypeOK
  <2>1. force \in [DOMAIN particles -> Forces] /\ to_break \subseteq DOMAIN particles
    BY <1>2
  <2>2. initial \in [scale : CoarseScales \cup {0}, count : Nat, broken : Nat]
    OBVIOUS
  <2>3. step \in 0..NumSteps /\ calls \in 0..MaxCalls
    OBVIOUS
  <2> QED BY <1>1, <2>1, <2>2, <2>3 DEF TypeOK
<1>4. IdsUnique
  <2>1. particles \o new_particles = <<>>
    OBVIOUS
  <2> QED BY <2>1 DEF IdsUnique
<1> QED BY <1>3, <1>4 DEF IInv, Pending

-----------------------------------------------------------------------------
(* Each action *)

LEMMA GenerateKeeps ==
  ASSUME IInv, NEW count \in 0..MaxParticles, Generate(count)
  PROVE  IInv'
<1> USE DEF IInv
<1>1. PICK strength \in [1..count -> Strengths] :
        particles' = [i \in 1..count |-> [id |-> next_particle_id_ + i - 1,
                                          strength |-> strength[i], broken |-> FALSE]]
  BY DEF Generate
<1>2. /\ next_particle_id_ \in Nat /\ count \in Nat
      /\ \A i \in 1..count : next_particle_id_ + i - 1 \in Nat
  BY DEF TypeOK
<1>3. \A i \in 1..count : /\ particles'[i] \in Particles
                          /\ particles'[i].id = next_particle_id_ + i - 1
  BY <1>1, <1>2 DEF Particles
<1>4. particles' \in Seq(Particles) /\ Len(particles') = count
  BY <1>1, <1>2, <1>3
<1>5. /\ phase = "idle" /\ phase' = "idle" /\ new_particles' = <<>>
      /\ next_particle_id_' = next_particle_id_ + count
  BY DEF Generate, breakVars, Pending
<1>6. Below(particles', next_particle_id_')
  BY <1>2, <1>3, <1>4, <1>5, FreshBelow DEF Fresh
<1>7. IdsUnique' /\ Pending'
  BY <1>4, <1>5, <1>6, IdsOutsideNext DEF Pending, Generate, breakVars
<1>8. TypeOK'
  <2>1. force' \in [DOMAIN particles' -> Forces]
    BY DEF Generate, NoForce, Forces
  <2>2. to_break' = {} /\ load' = <<>>
    BY DEF Generate, breakVars, Pending
  <2>3. initial' \in [scale : CoarseScales \cup {0}, count : Nat, broken : Nat]
    BY <1>2 DEF Generate
  <2>4. calls' \in 0..MaxCalls
    BY DEF Generate, TypeOK
  <2> QED BY <1>2, <1>4, <1>5, <2>1, <2>2, <2>3, <2>4 DEF TypeOK, Generate, breakVars
<1> QED BY <1>7, <1>8

LEMMA SetConfigKeeps ==
  ASSUME IInv, NEW scale \in CoarseScales, SetConfig(scale)
  PROVE  IInv'
BY DEF IInv, TypeOK, Pending, IdsUnique, SetConfig, breakVars, callVars

LEMMA BeginSimulateKeeps ==
  ASSUME IInv, BeginSimulate
  PROVE  IInv'
<1> USE DEF IInv
<1>1. /\ phase = "idle" /\ phase' = "step" /\ new_particles' = <<>> /\ to_break' = {}
      /\ load' = <<>> /\ next_particle_id_' = next_particle_id_ + CoarseCount
  BY DEF BeginSimulate, breakVars, Pending
<1>2. next_particle_id_ \in Nat /\ particles \in Seq(Particles) /\ Len(particles) \in Nat
  BY LenProperties DEF TypeOK
<1>3. CoarseCount \in Nat
  <2>1. coarse_scale \in Nat \ {0}
    BY DEF TypeOK
  <2>2. Len(particles) \div coarse_scale \in Int /\ Len(particles) \div coarse_scale >= 0
    BY <2>1, <1>2
  <2> QED BY <2>2 DEF CoarseCount
<1>4. PICK result \in Numbered(CoarseCount) \cup {particles} :
        CoarseGrain(result) /\ particles' = result
  BY DEF BeginSimulate
<1>5. particles' \in Seq(Particles) /\ Below(particles', next_particle_id_')
  <2>1. CASE coarse_scale = 1
    <3>1. particles' = particles /\ CoarseCount = 0
      BY <2>1, <1>4 DEF CoarseGrain, CoarseCount
    <3> QED BY <3>1, <1>1, <1>2, IdsOutside
  <2>2. CASE coarse_scale # 1 /\ result \in Numbered(CoarseCount)
    <3>1. Fresh(particles', next_particle_id_) /\ Len(particles') = CoarseCount
      BY <2>2, <1>2, <1>3, <1>4, NumberedFresh
    <3> QED BY <3>1, <1>1, <1>2, FreshBelow DEF Fresh
  <2>3. CASE coarse_scale # 1 /\ result = particles
    \* CoarseGrain numbers the coarse list, whichever list it is.
    <3>1. /\ Len(particles') = CoarseCount
          /\ \A g \in 1..CoarseCount : particles'[g].id = next_particle_id_ + g - 1
      BY <2>3, <1>4 DEF CoarseGrain, CoarseCount, IsCoarse
    <3>2. Fresh(particles', next_particle_id_)
      BY <2>3, <3>1, <1>2, <1>4 DEF Fresh
    <3> QED BY <3>1, <3>2, <1>1, <1>2, FreshBelow DEF Fresh
  <2> QED BY <2>1, <2>2, <2>3, <1>4
<1>6. IdsUnique'
  BY <1>1, <1>5, IdsOutsideNext
<1>7. TypeOK'
  <2>1. force' \in [DOMAIN particles' -> Forces]
    BY DEF BeginSimulate, NoForce, Forces
  <2>2. initial' \in [scale : CoarseScales \cup {0}, count : Nat, broken : Nat]
    BY <1>2, BrokenCounts DEF BeginSimulate, TypeOK
  <2>3. initial_broken_count' \in Nat
    BY <1>5, BrokenCounts DEF BeginSimulate, Broken
  <2>4. calls' \in 0..MaxCalls /\ step' \in 0..NumSteps /\ next_particle_id_' \in Nat
    BY <1>1, <1>2, <1>3 DEF BeginSimulate, TypeOK
  <2>5. newly_broken' \in Nat /\ new_id_start' \in Nat /\ coarse_scale' \in CoarseScales
    BY DEF BeginSimulate, TypeOK, breakVars
  <2>6. breaks' \in Nat /\ fragments' \in Nat /\ spared' \in BOOLEAN
    BY DEF BeginSimulate
  <2> QED BY <1>1, <1>5, <2>1, <2>2, <2>3, <2>4, <2>5, <2>6, EmptySeq DEF TypeOK
<1> QED BY <1>1, <1>6, <1>7 DEF Pending

LEMMA EndSimulateKeeps ==
  ASSUME IInv, EndSimulate
  PROVE  IInv'
<1> USE DEF IInv
<1>1. /\ phase = "step" /\ phase' = "idle" /\ new_particles' = <<>> /\ to_break' = {}
      /\ load' = <<>>
  BY DEF EndSimulate, breakVars, Pending
<1>2. next_particle_id_ \in Nat /\ particles \in Seq(Particles) /\ coarse_scale \in Nat \ {0}
  BY DEF TypeOK
<1>3. Len(particles) \in Nat
  BY <1>2, LenProperties
<1>4. /\ particles' \in Seq(Particles) /\ next_particle_id_' \in Nat
      /\ Below(particles', next_particle_id_')
  <2>1. CASE coarse_scale = 1
    <3>1. particles' = particles /\ next_particle_id_' = next_particle_id_
      BY <2>1, <1>2 DEF EndSimulate
    <3> QED BY <3>1, <1>1, <1>2, IdsOutside
  <2>2. CASE coarse_scale # 1
    <3>1. /\ particles' = Reconstruct(particles)
          /\ next_particle_id_' = next_particle_id_ + coarse_scale * Len(particles)
      BY <2>2 DEF EndSimulate
    <3>2. /\ Fresh(particles', next_particle_id_)
          /\ Len(particles') = coarse_scale * Len(particles)
      BY <3>1, <1>2, ReconstructFresh
    <3>3. Below(particles', next_particle_id_')
      BY <3>1, <3>2, <1>2, FreshBelow
    <3> QED BY <3>1, <3>2, <3>3, <1>2, <1>3 DEF Fresh
  <2> QED BY <2>1, <2>2
<1>5. IdsUnique'
  BY <1>1, <1>4, IdsOutsideNext
<1>6. TypeOK'
  <2>1. force' \in [DOMAIN particles' -> Forces]
    BY DEF EndSimulate, NoForce, Forces
  <2>2. newly_broken' \in Nat
    <3>1. Broken(particles)' \in Nat /\ initial.broken \in Nat
      BY <1>4, BrokenCounts DEF TypeOK, Broken
    <3>2. newly_broken' = (Broken(particles)' - initial.broken) % CountSize
      BY DEF EndSimulate, Broken
    <3> QED BY <3>1, <3>2
  <2> QED BY <1>1, <1>4, <2>1, <2>2 DEF TypeOK, EndSimulate, breakVars
<1> QED BY <1>1, <1>5, <1>6 DEF Pending

LEMMA ComputeForcesKeeps ==
  ASSUME IInv, ComputeForces
  PROVE  IInv'
<1> USE DEF IInv, ComputeForces, breakVars, callVars
<1>1. IdsUnique' /\ Pending'
  BY DEF IdsUnique, Pending
<1>2. step' \in 0..NumSteps
  BY DEF TypeOK
<1>3. force' \in [DOMAIN particles' -> Forces] /\ load' \in [DOMAIN particles' -> Forces]
  OBVIOUS
<1>4. TypeOK'
  BY <1>2, <1>3 DEF TypeOK
<1> QED BY <1>1, <1>4

LEMMA IntegrateKeeps ==
  ASSUME IInv, Integrate
  PROVE  IInv'
<1> USE DEF IInv, Integrate, breakVars, callVars
<1>1. IdsUnique' /\ Pending'
  BY DEF IdsUnique, Pending
<1>2. force' \in [DOMAIN particles' -> Forces]
  BY DEF TypeOK, Forces
<1>3. TypeOK'
  BY <1>2 DEF TypeOK
<1> QED BY <1>1, <1>3

LEMMA DecideKeeps ==
  ASSUME IInv, Decide
  PROVE  IInv'
<1> USE DEF IInv
<1>1. /\ phase = "decide" /\ phase' = "fragment" /\ particles' = particles
      /\ new_particles' = <<>> /\ new_id_start' = next_particle_id_ /\ load' = <<>>
      /\ to_break' \subseteq DOMAIN particles' /\ spared' \in BOOLEAN
  BY DEF Decide
<1>2. IdsUnique'
  <2>1. Below(particles, next_particle_id_)
    BY <1>1, IdsOutside
  <2>2. particles' \in Seq(Particles) /\ particles' \o new_particles' = particles'
    BY <1>1, ConcatEmptySeq DEF TypeOK
  <2>3. /\ \A i, j \in DOMAIN particles' : particles'[i].id = particles'[j].id => i = j
        /\ \A i \in DOMAIN particles' : particles'[i].id < new_id_start'
    BY <2>1, <2>2, <1>1, BelowIs
  <2> QED BY <2>2, <2>3, <1>1 DEF IdsUnique
<1>3. TypeOK'
  BY <1>1, EmptySeq DEF TypeOK, Decide, callVars
<1> QED BY <1>1, <1>2, <1>3 DEF Pending

\* While fragments are pending.
LEMMA IdsInside ==
  ASSUME TypeOK, IdsUnique, phase = "fragment"
  PROVE  particles \o new_particles \in Seq(Particles) /\ Below(particles \o new_particles, new_id_start)
<1>1. particles \o new_particles \in Seq(Particles)
  BY ConcatProperties DEF TypeOK
<1> DEFINE all == particles \o new_particles
<1>2. /\ \A i, j \in DOMAIN all : all[i].id = all[j].id => i = j
      /\ \A i \in DOMAIN all : all[i].id < new_id_start
  BY DEF IdsUnique
<1> HIDE DEF all
<1>3. all \in Seq(Particles)
  BY <1>1 DEF all
<1>4. Below(all, new_id_start)
  BY <1>2, <1>3, BelowIs
<1> QED BY <1>1, <1>4 DEF all

LEMMA BreakNextKeeps ==
  ASSUME IInv, BreakNext
  PROVE  IInv'
<1> USE DEF IInv
<1>1. PICK idx \in to_break, n \in FragmentCounts :
        /\ particles' = [particles EXCEPT ![idx].broken = TRUE]
        /\ new_particles' = new_particles \o Pieces(particles[idx], n)
        /\ new_id_start' = new_id_start + n
        /\ to_break' = to_break \ {idx}
        /\ fragments' = fragments + n
  BY DEF BreakNext
<1>2. /\ phase = "fragment" /\ phase' = "fragment" /\ next_particle_id_' = next_particle_id_
      /\ force' = force /\ load' = load /\ breaks' = breaks + 1
  BY DEF BreakNext
<1>3. /\ particles \in Seq(Particles) /\ new_particles \in Seq(Particles) /\ new_id_start \in Nat
      /\ idx \in DOMAIN particles /\ n \in Nat
      /\ DOMAIN particles = 1..Len(particles) /\ Len(particles) \in Nat
  BY LenProperties DEF TypeOK
<1>4. particles[idx] \in Particles
  BY <1>3, ElementOfSeq
<1> DEFINE pieces == Pieces(particles[idx], n)
<1>5. Fresh(pieces, new_id_start) /\ Len(pieces) = n /\ pieces \in Seq(Particles)
  BY <1>3, <1>4, PiecesFresh DEF Fresh
<1> HIDE DEF pieces
<1>6. /\ particles' \in Seq(Particles) /\ Len(particles') = Len(particles)
      /\ DOMAIN particles' = DOMAIN particles
      /\ \A i \in 1..Len(particles) : particles'[i].id = particles[i].id
  <2>1. \A i \in 1..Len(particles) :
          particles'[i] = IF i = idx THEN [particles[idx] EXCEPT !.broken = TRUE] ELSE particles[i]
    BY <1>1, <1>3
  <2>2. \A i \in 1..Len(particles) : particles[i] \in Particles
    BY <1>3, ElementOfSeq
  <2>3. ASSUME NEW i \in 1..Len(particles)
        PROVE  particles'[i] \in Particles /\ particles'[i].id = particles[i].id
    <3> DEFINE cracked == [particles[idx] EXCEPT !.broken = TRUE]
    <3>1. cracked \in Particles /\ cracked.id = particles[idx].id
      BY <1>4 DEF Particles
    <3>2. particles'[i] = IF i = idx THEN cracked ELSE particles[i]
      BY <2>1
    <3> HIDE DEF cracked
    <3>3. CASE i = idx
      BY <3>1, <3>2, <3>3
    <3>4. CASE i # idx
      BY <2>2, <3>2, <3>4
    <3> QED BY <3>3, <3>4
  <2>4. particles' = [i \in 1..Len(particles) |-> particles'[i]]
    BY <1>1, <1>3
  <2> QED BY <2>3, <2>4, <1>3
<1>7. new_particles' \in Seq(Particles)
  BY <1>1, <1>3, <1>5, ConcatProperties DEF pieces
<1>8. IdsUnique'
  <2> DEFINE old == particles \o new_particles
             now == particles' \o new_particles
  <2>1. old \in Seq(Particles) /\ Below(old, new_id_start)
    BY <1>2, IdsInside
  <2>2. /\ now \in Seq(Particles) /\ Len(now) = Len(old)
        /\ \A i \in 1..Len(old) : now[i].id = old[i].id
    <3>1. /\ now \in Seq(Particles) /\ Len(now) = Len(particles') + Len(new_particles)
          /\ \A i \in 1..Len(particles') + Len(new_particles) :
               now[i] = IF i <= Len(particles') THEN particles'[i]
                        ELSE new_particles[i - Len(particles')]
      BY <1>3, <1>6, ConcatProperties
    <3>2. /\ Len(old) = Len(particles) + Len(new_particles)
          /\ \A i \in 1..Len(particles) + Len(new_particles) :
               old[i] = IF i <= Len(particles) THEN particles[i]
                        ELSE new_particles[i - Len(particles)]
      BY <1>3, ConcatProperties
    <3> HIDE DEF old, now
    <3>3. ASSUME NEW i \in 1..Len(old) PROVE now[i].id = old[i].id
      BY <3>1, <3>2, <1>3, <1>6
    <3> QED BY <3>1, <3>2, <3>3, <1>6
  <2>3. Below(now, new_id_start)
    <3> HIDE DEF old, now
    <3> QED BY <2>1, <2>2, BelowSame
  <2>4. Below(now \o pieces, new_id_start + n)
    <3> HIDE DEF old, now
    <3> QED BY <2>2, <2>3, <1>3, <1>5, AppendFresh
  <2>5. particles' \o new_particles' = now \o pieces
    <3>1. particles' \o new_particles' = particles' \o (new_particles \o pieces)
      BY <1>1 DEF pieces
    <3>2. \A a, b, c \in Seq(Particles) : (a \o b) \o c = a \o (b \o c)
      BY ConcatAssociative
    <3>3. particles' \o (new_particles \o pieces) = now \o pieces
      BY <3>2, <1>3, <1>5, <1>6
    <3> QED BY <3>1, <3>3
  <2>6. particles' \o new_particles' \in Seq(Particles)
    BY <1>6, <1>7, ConcatProperties
  <2>7. Below(particles' \o new_particles', new_id_start')
    <3> HIDE DEF now
    <3> QED BY <2>4, <2>5, <1>1
  <2> DEFINE all == particles' \o new_particles'
  <2>8. /\ \A i, j \in DOMAIN all : all[i].id = all[j].id => i = j
        /\ \A i \in DOMAIN all : all[i].id < new_id_start'
    <3>1. all \in Seq(Particles) /\ Below(all, new_id_start')
      BY <2>6, <2>7
    <3> HIDE DEF all
    <3> QED BY <3>1, BelowIs
  <2> QED BY <2>8, <1>2 DEF IdsUnique
<1>9. TypeOK'
  <2>1. to_break' \subseteq DOMAIN particles' /\ force' \in [DOMAIN particles' -> Forces]
        /\ load' \in [DOMAIN particles' -> Forces] \cup {<<>>}
    BY <1>1, <1>2, <1>6 DEF TypeOK
  <2>2. breaks' \in Nat /\ fragments' \in Nat /\ new_id_start' \in Nat
    <3>1. breaks \in Nat /\ fragments \in Nat
      BY DEF TypeOK
    <3> QED BY <3>1, <1>1, <1>2, <1>3
  <2> QED BY <1>2, <1>6, <1>7, <2>1, <2>2 DEF TypeOK, BreakNext, callVars
<1>10. Pending'
  BY <1>2 DEF Pending
<1> QED BY <1>8, <1>9, <1>10

LEMMA EndBreakageKeeps ==
  ASSUME IInv, EndBreakage
  PROVE  IInv'
<1> USE DEF IInv
<1>1. /\ phase = "fragment" /\ phase' = "step" /\ to_break' = {} /\ new_particles' = <<>>
      /\ next_particle_id_' = new_id_start /\ load' = <<>>
      /\ particles' = particles \o new_particles
      /\ force' = force \o NoForce(new_particles)
  BY DEF EndBreakage, Pending
<1>2. particles' \in Seq(Particles) /\ Below(particles', next_particle_id_')
  BY <1>1, IdsInside
<1>3. IdsUnique'
  BY <1>1, <1>2, IdsOutsideNext
<1>4. force' \in [DOMAIN particles' -> Forces]
  <2>1. /\ particles \in Seq(Particles) /\ new_particles \in Seq(Particles)
        /\ Len(particles) \in Nat /\ Len(new_particles) \in Nat
        /\ DOMAIN particles = 1..Len(particles) /\ DOMAIN new_particles = 1..Len(new_particles)
    BY LenProperties DEF TypeOK
  <2>2. force \in Seq(Forces) /\ Len(force) = Len(particles)
    BY <2>1 DEF TypeOK
  <2>3. NoForce(new_particles) \in Seq(Forces) /\ Len(NoForce(new_particles)) = Len(new_particles)
    BY <2>1 DEF NoForce, Forces
  <2>4. force' \in Seq(Forces) /\ Len(force') = Len(particles) + Len(new_particles)
    <3> DEFINE none == NoForce(new_particles)
    <3>1. none \in Seq(Forces) /\ Len(none) = Len(new_particles) /\ force' = force \o none
      BY <2>3, <1>1
    <3> HIDE DEF none
    <3>2. force \o none \in Seq(Forces) /\ Len(force \o none) = Len(force) + Len(none)
      BY <2>2, <3>1, ConcatProperties
    <3> QED BY <2>2, <3>1, <3>2
  <2>5. Len(particles') = Len(particles) + Len(new_particles)
    BY <2>1, <1>1, ConcatProperties
  <2>6. DOMAIN particles' = 1..Len(force') /\ DOMAIN force' = 1..Len(force')
    BY <2>4, <2>5, <1>2, LenProperties
  <2>7. \A i \in 1..Len(force') : force'[i] \in Forces
    BY <2>4, ElementOfSeq
  <2>8. force' = [i \in 1..Len(force') |-> force'[i]]
    BY <2>4, <2>6
  <2> QED BY <2>6, <2>7, <2>8
<1>5. TypeOK'
  BY <1>1, <1>2, <1>4, EmptySeq DEF TypeOK, EndBreakage, callVars
<1> QED BY <1>1, <1>3, <1>5 DEF Pending

LEMMA NextIInv ==
  ASSUME IInv, [Next]_vars
  PROVE  IInv'
<1>1. CASE Next
  BY <1>1, GenerateKeeps, SetConfigKeeps, BeginSimulateKeeps, EndSimulateKeeps,
     ComputeForcesKeeps, IntegrateKeeps, DecideKeeps, BreakNextKeeps, EndBreakageKeeps DEF Next
<1>2. CASE UNCHANGED vars
  BY <1>2 DEF IInv, TypeOK, Pending, IdsUnique, vars
<1> QED BY <1>1, <1>2

LEMMA Invariant == Spec => []IInv
BY InitIInv, NextIInv, PTL DEF Spec

\* Every variable keeps its type, for any scales, fragment counts and bounds.
THEOREM TypeCorrect == Spec => []TypeOK
<1>1. IInv => TypeOK
  BY DEF IInv
<1> QED BY <1>1, Invariant, PTL

\* generate_particles, coarse_grain, break_particle and reconstruct_fine never hand out
\* an id that a particle of the list, or a pending fragment, has
\* (dem_model.cpp:146, 227, 280, 694-704).
THEOREM IdsCorrect == Spec => []IdsUnique
<1>1. IInv => IdsUnique
  BY DEF IInv
<1> QED BY <1>1, Invariant, PTL

-----------------------------------------------------------------------------
(* Counting: what ResultCounted says of the end, at every moment of a call *)

Counted ==
  phase # "idle" =>
    /\ initial.scale = coarse_scale
    /\ Len(particles) + Len(new_particles) = (initial.count \div coarse_scale) + fragments
    /\ Broken(particles) = initial_broken_count + breaks
    /\ \A i \in DOMAIN new_particles : ~ new_particles[i].broken
    /\ \A i \in to_break : ~ particles[i].broken
    /\ initial.broken = 0 => initial_broken_count = 0

BrokenIn(list) == {i \in 1..Len(list) : list[i].broken}

LEMMA BrokenInCounts ==
  ASSUME NEW list \in Seq(Particles)
  PROVE  /\ IsFiniteSet(BrokenIn(list)) /\ Broken(list) = Cardinality(BrokenIn(list))
         /\ Broken(list) \in Nat
         /\ Broken(list) = 0 <=> \A i \in 1..Len(list) : ~ list[i].broken
<1>1. Len(list) \in Nat /\ DOMAIN list = 1..Len(list)
  BY LenProperties
<1>2. IsFiniteSet(1..Len(list))
  BY <1>1, FS_Interval
<1>3. BrokenIn(list) \in SUBSET (1..Len(list))
  BY DEF BrokenIn
<1>4. IsFiniteSet(BrokenIn(list))
  BY <1>2, <1>3, FS_Subset
<1>5. Broken(list) = Cardinality(BrokenIn(list))
  BY <1>1 DEF Broken, BrokenIn
<1>6. Cardinality(BrokenIn(list)) = 0 <=> BrokenIn(list) = {}
  BY <1>4, FS_EmptySet
<1>7. BrokenIn(list) = {} <=> \A i \in 1..Len(list) : ~ list[i].broken
  BY DEF BrokenIn
<1> QED BY <1>4, <1>5, <1>6, <1>7, FS_CardinalityType

\* Whole pieces at the end of a list add no broken ones.
LEMMA WholePiecesAdd ==
  ASSUME NEW list \in Seq(Particles), NEW new \in Seq(Particles),
         \A i \in DOMAIN new : ~ new[i].broken
  PROVE  Broken(list \o new) = Broken(list)
<1> DEFINE both == list \o new
<1>1. /\ both \in Seq(Particles) /\ Len(list) \in Nat /\ Len(new) \in Nat
      /\ Len(both) = Len(list) + Len(new) /\ DOMAIN new = 1..Len(new)
      /\ \A i \in 1..Len(list) + Len(new) :
           both[i] = IF i <= Len(list) THEN list[i] ELSE new[i - Len(list)]
  BY LenProperties, ConcatProperties
<1> HIDE DEF both
<1>2. ASSUME NEW i \in 1..Len(both)
      PROVE  both[i].broken <=> i \in 1..Len(list) /\ list[i].broken
  <2>1. CASE i <= Len(list)
    BY <1>1, <2>1
  <2>2. CASE ~ (i <= Len(list))
    <3>1. i - Len(list) \in 1..Len(new) /\ both[i] = new[i - Len(list)]
      BY <1>1, <2>2
    <3> QED BY <1>1, <2>2, <3>1
  <2> QED BY <2>1, <2>2
<1>3. 1..Len(list) \subseteq 1..Len(both)
  BY <1>1
<1>4. BrokenIn(both) = BrokenIn(list)
  BY <1>2, <1>3 DEF BrokenIn
<1>5. Broken(both) = Broken(list)
  BY <1>1, <1>4, BrokenInCounts
<1> QED BY <1>5 DEF both

\* One more particle breaks.
LEMMA OneBreaks ==
  ASSUME NEW list \in Seq(Particles), NEW other \in Seq(Particles), NEW idx \in 1..Len(list),
         Len(other) = Len(list), ~ list[idx].broken, other[idx].broken,
         \A i \in 1..Len(list) : i # idx => other[i] = list[i]
  PROVE  Broken(other) = Broken(list) + 1
<1>1. BrokenIn(other) = BrokenIn(list) \cup {idx} /\ idx \notin BrokenIn(list)
  BY DEF BrokenIn
<1>2. Cardinality(BrokenIn(list) \cup {idx}) = Cardinality(BrokenIn(list)) + 1
  BY <1>1, BrokenInCounts, FS_AddElement
<1> QED BY <1>1, <1>2, BrokenInCounts

\* The fine particles of coarse particle g are numbers (g - 1) * scale + 1 to g * scale.
LEMMA FineIndex ==
  ASSUME NEW scale \in Nat \ {0}, NEW n \in Nat, NEW g \in 1..n, NEW k \in 1..scale
  PROVE  /\ (g - 1) * scale + k \in 1..(scale * n)
         /\ ((((g - 1) * scale + k) - 1) \div scale) + 1 = g
<1> DEFINE x == ((g - 1) * scale + k) - 1
           q == x \div scale
<1>1. scale * (g - 1) >= 0 /\ scale * (g - 1) = (g - 1) * scale /\ (g - 1) * scale \in Int
  OBVIOUS
<1>2. scale * (g - 1) + scale = scale * g /\ scale * g <= scale * n
  OBVIOUS
<1>3. x + 1 \in 1..(scale * n)
  BY <1>1, <1>2
<1>4. x \in Int /\ scale * (g - 1) <= x /\ x < scale * (g - 1) + scale
  BY <1>1
<1> HIDE DEF x
<1>5. q \in Int /\ scale * q <= x /\ x < scale * q + scale
  BY <1>4
<1> HIDE DEF q
<1>6. ~ (q < g - 1)
  <2>1. SUFFICES ASSUME q + 1 <= g - 1 PROVE FALSE
    BY <1>5
  <2>2. scale * (q + 1) <= scale * (g - 1)
    BY <2>1, <1>5
  <2>3. scale * (q + 1) = scale * q + scale
    BY <1>5
  <2> QED BY <2>2, <2>3, <1>4, <1>5
<1>7. ~ (q > g - 1)
  <2>1. SUFFICES ASSUME q >= (g - 1) + 1 PROVE FALSE
    BY <1>5
  <2>2. scale * q >= scale * ((g - 1) + 1)
    BY <2>1, <1>5
  <2>3. scale * ((g - 1) + 1) = scale * (g - 1) + scale
    OBVIOUS
  <2> QED BY <2>2, <2>3, <1>4, <1>5
<1>8. q + 1 = g
  BY <1>5, <1>6, <1>7
<1> QED BY <1>3, <1>8 DEF x, q

\* Every broken coarse particle becomes coarse_scale broken fine ones.
LEMMA ReconstructBroken ==
  ASSUME next_particle_id_ \in Nat, coarse_scale \in Nat \ {0}, NEW list \in Seq(Particles)
  PROVE  Broken(Reconstruct(list)) = coarse_scale * Broken(list)
<1> DEFINE n == Len(list)
           S == BrokenIn(list) \X (1..coarse_scale)
           T == BrokenIn(Reconstruct(list))
           coarse(k) == ((k - 1) \div coarse_scale) + 1
           f == [s \in S |-> (s[1] - 1) * coarse_scale + s[2]]
<1>1. n \in Nat /\ coarse_scale \in Nat \ {0}
  BY LenProperties
<1>2. /\ Reconstruct(list) \in Seq(Particles) /\ Len(Reconstruct(list)) = coarse_scale * n
      /\ \A k \in 1..(coarse_scale * n) : Reconstruct(list)[k].broken = list[coarse(k)].broken
  BY ReconstructFresh DEF Fresh, Reconstruct
<1>3. /\ \A s \in S : s[1] \in 1..n /\ list[s[1]].broken /\ s[2] \in 1..coarse_scale
      /\ \A s \in S : s = <<s[1], s[2]>>
      /\ \A g \in 1..n, k \in 1..coarse_scale : list[g].broken => <<g, k>> \in S
  BY DEF BrokenIn
<1>4. T = {k \in 1..(coarse_scale * n) : list[coarse(k)].broken}
  BY <1>2 DEF BrokenIn
<1> HIDE DEF S, T, n
<1>5. ASSUME NEW s \in S
      PROVE  f[s] = (s[1] - 1) * coarse_scale + s[2] /\ f[s] \in T /\ coarse(f[s]) = s[1]
  <2>1. s[1] \in 1..n /\ s[2] \in 1..coarse_scale /\ list[s[1]].broken
    BY <1>3
  <2>2. f[s] = (s[1] - 1) * coarse_scale + s[2]
    OBVIOUS
  <2>3. f[s] \in 1..(coarse_scale * n) /\ coarse(f[s]) = s[1]
    <3> DEFINE g == s[1]  k == s[2]
    <3>1. g \in 1..n /\ k \in 1..coarse_scale
      BY <2>1
    <3> HIDE DEF g, k, f
    <3>2. /\ (g - 1) * coarse_scale + k \in 1..(coarse_scale * n)
          /\ ((((g - 1) * coarse_scale + k) - 1) \div coarse_scale) + 1 = g
      BY <1>1, <3>1, FineIndex
    <3>3. f[s] = (g - 1) * coarse_scale + k
      BY <2>2 DEF g, k
    <3> DEFINE y == (g - 1) * coarse_scale + k
    <3>4. y \in 1..(coarse_scale * n) /\ coarse(y) = g /\ f[s] = y
      BY <3>2, <3>3
    <3> HIDE DEF y
    <3>5. f[s] \in 1..(coarse_scale * n) /\ coarse(f[s]) = g
      BY <3>4
    <3> QED BY <3>5 DEF g
  <2> QED BY <1>4, <2>1, <2>2, <2>3
<1>6. ASSUME NEW s \in S, NEW t \in S, f[s] = f[t] PROVE s = t
  <2> DEFINE base == (s[1] - 1) * coarse_scale
  <2>1. s[1] = t[1]
    BY <1>5, <1>6
  <2>2. f[s] = base + s[2] /\ f[t] = base + t[2]
    BY <1>5, <2>1
  <2>3. base \in Int /\ s[2] \in Int /\ t[2] \in Int
    BY <1>1, <1>3
  <2> HIDE DEF base
  <2>4. s[2] = t[2]
    BY <1>6, <2>2, <2>3
  <2> QED BY <1>3, <2>1, <2>4
<1>7. ASSUME NEW k \in T PROVE \E s \in S : f[s] = k
  <2> DEFINE q == (k - 1) \div coarse_scale
             r == k - coarse_scale * q
  <2>1. k \in 1..(coarse_scale * n) /\ list[q + 1].broken
    BY <1>4
  <2>2. q + 1 \in 1..n
    BY <1>1, <2>1, CoarseIndex
  <2>3. q \in Int /\ coarse_scale * q <= k - 1 /\ k - 1 < coarse_scale * q + coarse_scale
    BY <1>1, <2>1
  <2>4. <<q + 1, r>> \in S
    <3>1. r \in 1..coarse_scale
      <4> DEFINE m == coarse_scale * q
      <4>1. m \in Int /\ m <= k - 1 /\ k - 1 < m + coarse_scale /\ k \in Int
        BY <1>1, <2>1, <2>3
      <4> HIDE DEF m, q
      <4>2. k - m \in 1..coarse_scale
        BY <1>1, <4>1
      <4> QED BY <4>2 DEF m
    <3> HIDE DEF q, r
    <3> QED BY <1>3, <2>1, <2>2, <3>1
  <2>5. f[<<q + 1, r>>] = k
    <3>1. f[<<q + 1, r>>] = ((q + 1) - 1) * coarse_scale + r
      BY <1>5, <2>4
    <3> HIDE DEF q
    <3>2. ((q + 1) - 1) * coarse_scale = coarse_scale * q /\ coarse_scale * q \in Int
      BY <1>1, <2>3
    <3> QED BY <2>1, <3>1, <3>2
  <2> QED BY <2>4, <2>5
<1>8. f \in Bijection(S, T)
  <2>1. f \in [S -> T]
    BY <1>5
  <2> HIDE DEF f
  <2> QED BY <1>6, <1>7, <2>1, Fun_IsBij
<1> HIDE DEF f
<1>9. IsFiniteSet(S) /\ Cardinality(S) = Broken(list) * coarse_scale
  <2>1. IsFiniteSet(BrokenIn(list)) /\ Broken(list) = Cardinality(BrokenIn(list))
    BY BrokenInCounts
  <2>2. IsFiniteSet(1..coarse_scale) /\ Cardinality(1..coarse_scale) = coarse_scale
    <3>1. 1 \in Int /\ coarse_scale \in Int /\ ~ (1 > coarse_scale)
      BY <1>1
    <3>2. IsFiniteSet(1..coarse_scale) /\ Cardinality(1..coarse_scale) = coarse_scale - 1 + 1
      BY <3>1, FS_Interval
    <3> QED BY <3>1, <3>2
  <2>3. /\ IsFiniteSet(BrokenIn(list) \X (1..coarse_scale))
        /\ Cardinality(BrokenIn(list) \X (1..coarse_scale))
             = Cardinality(BrokenIn(list)) * Cardinality(1..coarse_scale)
    BY <2>1, <2>2, FS_Product
  <2> QED BY <2>1, <2>2, <2>3 DEF S
<1>10. Cardinality(T) = Cardinality(S)
  BY <1>8, <1>9, FS_Bijection DEF ExistsBijection
<1>11. Broken(Reconstruct(list)) = Cardinality(T)
  BY <1>2, BrokenInCounts DEF T
<1>12. Broken(list) \in Nat
  BY BrokenInCounts
<1> QED BY <1>1, <1>9, <1>10, <1>11, <1>12

\* Coarse-graining makes a particle of every full group, and a broken one of none that
\* was whole.
LEMMA CoarseGrainCounts ==
  ASSUME TypeOK, NEW result \in Seq(Particles), CoarseGrain(result)
  PROVE  /\ Len(result) = Len(particles) \div coarse_scale
         /\ Broken(particles) = 0 => Broken(result) = 0
<1>1. particles \in Seq(Particles) /\ Len(particles) \in Nat /\ coarse_scale \in Nat \ {0}
  BY LenProperties DEF TypeOK
<1>2. CASE coarse_scale = 1
  <2>1. result = particles
    BY <1>2 DEF CoarseGrain
  <2>2. Len(particles) = Len(particles) \div 1
    BY <1>1
  <2> QED BY <1>2, <2>1, <2>2
<1>3. CASE coarse_scale # 1
  <2> DEFINE num_coarse == Len(particles) \div coarse_scale
  <2>1. PICK order \in Shuffles(Len(particles)) :
          /\ Len(result) = num_coarse
          /\ \A g \in 1..num_coarse : IsCoarse(result[g], g, order)
    BY <1>3 DEF CoarseGrain
  <2>2. num_coarse \in Nat /\ coarse_scale * num_coarse <= Len(particles)
    <3>1. num_coarse \in Int /\ coarse_scale * num_coarse <= Len(particles) /\ num_coarse >= 0
      BY <1>1
    <3> QED BY <3>1
  <2>3. ASSUME Broken(particles) = 0, NEW g \in 1..Len(result)
        PROVE  ~ result[g].broken
    <3>1. \A i \in 1..Len(particles) : ~ particles[i].broken
      BY <1>1, <2>3, BrokenInCounts
    <3>2. \A i \in Group(g, order) : i \in 1..Len(particles)
      <4> SUFFICES ASSUME NEW k \in 1..coarse_scale
                   PROVE  order[(g - 1) * coarse_scale + k] \in 1..Len(particles)
        BY DEF Group
      <4> HIDE DEF num_coarse
      <4>1. (g - 1) * coarse_scale + k \in 1..(coarse_scale * num_coarse)
        BY <1>1, <2>1, <2>2, FineIndex
      <4>2. (g - 1) * coarse_scale + k \in 1..Len(particles)
        BY <1>1, <2>2, <4>1
      <4> QED BY <4>2 DEF Shuffles
    <3>3. IsCoarse(result[g], g, order)
      BY <2>1
    <3> QED BY <3>1, <3>2, <3>3 DEF IsCoarse
  <2> QED BY <2>1, <2>3, BrokenInCounts
<1> QED BY <1>2, <1>3

LEMMA BeginSimulateCounts ==
  ASSUME IInv, BeginSimulate
  PROVE  Counted'
<1>1. PICK result \in Numbered(CoarseCount) \cup {particles} :
        CoarseGrain(result) /\ particles' = result
  BY DEF BeginSimulate
<1>2. TypeOK /\ TypeOK' /\ Pending'
  BY BeginSimulateKeeps DEF IInv
<1>3. /\ phase' = "step" /\ coarse_scale' = coarse_scale /\ breaks' = 0 /\ fragments' = 0
      /\ initial' = [scale |-> coarse_scale, count |-> Len(particles), broken |-> Broken(particles)]
      /\ initial_broken_count' = Broken(particles')
  BY DEF BeginSimulate
<1>4. particles' \in Seq(Particles) /\ new_particles' = <<>> /\ to_break' = {}
  BY <1>2, <1>3 DEF TypeOK, Pending
<1>5. /\ Len(particles') = Len(particles) \div coarse_scale
      /\ Broken(particles) = 0 => Broken(particles') = 0
  BY <1>1, <1>2, <1>4, CoarseGrainCounts
<1>6. Len(new_particles') = 0 /\ DOMAIN new_particles' = {}
  BY <1>4
<1>7. Len(particles') \in Nat /\ Broken(particles') \in Nat
  BY <1>4, LenProperties, BrokenInCounts
<1> QED BY <1>3, <1>4, <1>5, <1>6, <1>7 DEF Counted, Broken

LEMMA BreakNextCounts ==
  ASSUME IInv, Counted, BreakNext
  PROVE  Counted'
<1>1. PICK idx \in to_break, n \in FragmentCounts :
        /\ particles' = [particles EXCEPT ![idx].broken = TRUE]
        /\ new_particles' = new_particles \o Pieces(particles[idx], n)
        /\ new_id_start' = new_id_start + n
        /\ to_break' = to_break \ {idx}
        /\ fragments' = fragments + n
  BY DEF BreakNext
<1>2. /\ phase = "fragment" /\ phase' = "fragment" /\ breaks' = breaks + 1
      /\ coarse_scale' = coarse_scale /\ initial' = initial
      /\ initial_broken_count' = initial_broken_count
  BY DEF BreakNext, callVars
<1>3. /\ particles \in Seq(Particles) /\ new_particles \in Seq(Particles) /\ new_id_start \in Nat
      /\ idx \in DOMAIN particles /\ n \in Nat /\ to_break \subseteq DOMAIN particles
      /\ DOMAIN particles = 1..Len(particles) /\ Len(particles) \in Nat
      /\ fragments \in Nat /\ breaks \in Nat /\ initial_broken_count \in Nat
      /\ particles' \in Seq(Particles) /\ new_particles' \in Seq(Particles)
  BY BreakNextKeeps, LenProperties DEF TypeOK, IInv
<1>4. particles[idx] \in Particles
  BY <1>3, ElementOfSeq
<1> DEFINE pieces == Pieces(particles[idx], n)
<1>5. /\ pieces \in Seq(Particles) /\ Len(pieces) = n
      /\ \A k \in 1..n : ~ pieces[k].broken
  BY <1>3, <1>4, PiecesFresh DEF Fresh, Pieces
<1> HIDE DEF pieces
<1>6. Broken(particles') = Broken(particles) + 1
  <2>1. Len(particles') = Len(particles)
    BY <1>1, <1>3
  <2>2. particles'[idx].broken
    BY <1>1, <1>3, <1>4 DEF Particles
  <2>3. \A i \in 1..Len(particles) : i # idx => particles'[i] = particles[i]
    BY <1>1, <1>3
  <2>4. ~ particles[idx].broken
    BY <1>2 DEF Counted
  <2>5. idx \in 1..Len(particles)
    BY <1>3
  <2> DEFINE now == particles'
  <2>6. now \in Seq(Particles) /\ Len(now) = Len(particles) /\ now[idx].broken
        /\ \A i \in 1..Len(particles) : i # idx => now[i] = particles[i]
    BY <1>3, <2>1, <2>2, <2>3
  <2> HIDE DEF now
  <2>7. Broken(now) = Broken(particles) + 1
    BY <1>3, <2>4, <2>5, <2>6, OneBreaks
  <2> QED BY <2>7 DEF now
<1>7. /\ Len(particles') = Len(particles) /\ Len(new_particles) \in Nat
      /\ Len(new_particles') = Len(new_particles) + n
      /\ \A i \in DOMAIN new_particles' : ~ new_particles'[i].broken
  <2>1. Len(particles') = Len(particles)
    BY <1>1, <1>3
  <2>2. /\ Len(new_particles) \in Nat /\ DOMAIN new_particles = 1..Len(new_particles)
        /\ DOMAIN new_particles' = 1..Len(new_particles')
    BY <1>3, LenProperties
  <2>3. new_particles' = new_particles \o pieces
    BY <1>1 DEF pieces
  <2>4. /\ Len(new_particles') = Len(new_particles) + n
        /\ \A i \in 1..Len(new_particles) + n :
             new_particles'[i] = IF i <= Len(new_particles) THEN new_particles[i]
                                 ELSE pieces[i - Len(new_particles)]
    BY <1>3, <1>5, <2>3, ConcatProperties
  <2>5. \A i \in DOMAIN new_particles : ~ new_particles[i].broken
    BY <1>2 DEF Counted
  <2>6. ASSUME NEW i \in 1..Len(new_particles) + n PROVE ~ new_particles'[i].broken
    <3>1. CASE i <= Len(new_particles)
      BY <2>2, <2>4, <2>5, <3>1
    <3>2. CASE ~ (i <= Len(new_particles))
      <4>1. i - Len(new_particles) \in 1..n
        BY <1>3, <2>2, <3>2
      <4> QED BY <1>5, <2>4, <3>2, <4>1
    <3> QED BY <3>1, <3>2
  <2> QED BY <2>1, <2>2, <2>4, <2>6
<1>8. \A i \in to_break' : ~ particles'[i].broken
  BY <1>1, <1>2, <1>3 DEF Counted
<1>9. /\ initial.scale = coarse_scale /\ (initial.broken = 0 => initial_broken_count = 0)
      /\ Len(particles) + Len(new_particles) = (initial.count \div coarse_scale) + fragments
      /\ Broken(particles) = initial_broken_count + breaks
  BY <1>2 DEF Counted
<1>10. Len(particles') + Len(new_particles') = (initial'.count \div coarse_scale') + fragments'
  <2> DEFINE groups == initial.count \div coarse_scale
  <2>1. groups \in Int
    BY DEF IInv, TypeOK
  <2>2. groups' = groups /\ fragments' = fragments + n
    BY <1>1, <1>2
  <2>3. Len(particles) + Len(new_particles) = groups + fragments
    BY <1>9
  <2> HIDE DEF groups
  <2>4. Len(particles') + Len(new_particles') = groups + fragments'
    <3> DEFINE a == Len(particles)  b == Len(new_particles)
    <3>1. /\ a \in Nat /\ b \in Nat /\ n \in Nat /\ fragments \in Nat
          /\ a + b = groups + fragments
      BY <1>3, <1>7, <2>3
    <3>2. Len(particles') + Len(new_particles') = a + (b + n)
      BY <1>7
    <3> HIDE DEF a, b
    <3>3. a + (b + n) = groups + (fragments + n)
      BY <2>1, <3>1
    <3> QED BY <2>2, <3>2, <3>3
  <2> QED BY <1>2, <2>4 DEF groups
<1>11. Broken(particles') = initial_broken_count' + breaks'
  BY <1>2, <1>3, <1>6, <1>9
<1> QED BY <1>2, <1>7, <1>8, <1>9, <1>10, <1>11 DEF Counted, Broken

LEMMA EndBreakageCounts ==
  ASSUME IInv, Counted, EndBreakage
  PROVE  Counted'
<1>1. /\ phase = "fragment" /\ phase' = "step" /\ to_break' = {} /\ new_particles' = <<>>
      /\ particles' = particles \o new_particles
      /\ UNCHANGED <<coarse_scale, initial, initial_broken_count, breaks, fragments>>
  BY DEF EndBreakage, callVars
<1>2. particles \in Seq(Particles) /\ new_particles \in Seq(Particles)
  BY DEF IInv, TypeOK
<1>3. \A i \in DOMAIN new_particles : ~ new_particles[i].broken
  BY <1>1 DEF Counted
<1>4. Broken(particles') = Broken(particles)
  BY <1>1, <1>2, <1>3, WholePiecesAdd
<1>5. Len(particles') = Len(particles) + Len(new_particles) /\ Len(particles') \in Nat
  BY <1>1, <1>2, ConcatProperties, LenProperties
<1>6. Len(new_particles') = 0 /\ DOMAIN new_particles' = {}
  BY <1>1
<1>7. Len(particles') + Len(new_particles') = Len(particles) + Len(new_particles)
  BY <1>5, <1>6
<1> QED BY <1>1, <1>4, <1>6, <1>7 DEF Counted, Broken

LEMMA EndSimulateResult ==
  ASSUME IInv, Counted, EndSimulate
  PROVE  ResultCounted'
<1>1. /\ phase = "step" /\ phase' = "idle" /\ new_particles = <<>>
      /\ UNCHANGED <<coarse_scale, initial, initial_broken_count, breaks, fragments>>
      /\ newly_broken' = (Broken(particles') - initial.broken) % CountSize
  BY DEF EndSimulate, IInv, Pending
<1>2. /\ particles \in Seq(Particles) /\ coarse_scale \in Nat \ {0}
      /\ initial.scale = coarse_scale /\ next_particle_id_ \in Nat
      /\ Len(particles) \in Nat /\ Broken(particles) \in Nat
  BY <1>1, LenProperties, BrokenInCounts DEF Counted, IInv, TypeOK
<1>3. /\ Len(particles') = coarse_scale * Len(particles)
      /\ Broken(particles') = coarse_scale * Broken(particles)
  <2>1. CASE coarse_scale = 1
    <3>1. particles' = particles
      BY <2>1 DEF EndSimulate
    <3> QED BY <1>2, <2>1, <3>1
  <2>2. CASE coarse_scale # 1
    <3>1. particles' = Reconstruct(particles)
      BY <2>2 DEF EndSimulate
    <3> QED BY <1>2, <3>1, ReconstructFresh, ReconstructBroken
  <2> QED BY <2>1, <2>2
<1>4. Len(particles) = (initial.count \div coarse_scale) + fragments
  <2>1. Len(new_particles) = 0
    BY <1>1, EmptySeq
  <2>2. Len(particles) + Len(new_particles) = (initial.count \div coarse_scale) + fragments
    BY <1>1 DEF Counted
  <2> QED BY <1>2, <2>1, <2>2
<1>5. Broken(particles) = initial_broken_count + breaks
  BY <1>1 DEF Counted
<1>6. initial.broken = 0 => newly_broken' = (initial.scale * breaks) % CountSize
  <2> SUFFICES ASSUME initial.broken = 0 PROVE newly_broken' = (initial.scale * breaks) % CountSize
    OBVIOUS
  <2>1. initial_broken_count = 0 /\ breaks \in Nat
    BY <1>1 DEF Counted, IInv, TypeOK
  <2>2. Broken(particles') - initial.broken = initial.scale * breaks
    BY <1>2, <1>3, <1>5, <2>1
  <2> QED BY <1>1, <2>2
<1>7. /\ Len(particles') = initial.scale * ((initial.count \div initial.scale) + fragments)
      /\ Broken(particles') = initial.scale * (initial_broken_count + breaks)
  BY <1>2, <1>3, <1>4, <1>5
<1> QED BY <1>1, <1>6, <1>7 DEF ResultCounted, Broken

LEMMA NextCounted ==
  ASSUME IInv, Counted, [Next]_vars
  PROVE  Counted'
<1> USE DEF breakVars, callVars
<1>1. CASE (\E count \in 0..MaxParticles : Generate(count)) \/ EndSimulate
             \/ \E scale \in CoarseScales \ {coarse_scale} : SetConfig(scale)
  BY <1>1 DEF Generate, EndSimulate, SetConfig, Counted
<1>2. CASE BeginSimulate
  BY <1>2, BeginSimulateCounts
<1>3. CASE ComputeForces \/ Integrate \/ UNCHANGED vars
  <2>1. /\ UNCHANGED <<coarse_scale, particles, initial, initial_broken_count, breaks, fragments,
                       new_particles, to_break>>
        /\ phase' # "idle" => phase # "idle"
    BY <1>3 DEF ComputeForces, Integrate, vars
  <2> QED BY <2>1 DEF Counted, Broken
<1>4. CASE Decide
  <2>1. /\ UNCHANGED <<coarse_scale, particles, initial, initial_broken_count, breaks, fragments>>
        /\ phase = "decide" /\ new_particles' = <<>>
        /\ \A i \in to_break' : ~ particles'[i].broken
    BY <1>4 DEF Decide
  <2>2. new_particles = new_particles'
    BY <2>1 DEF IInv, Pending
  <2> QED BY <2>1, <2>2 DEF Counted, Broken
<1>5. CASE BreakNext
  BY <1>5, BreakNextCounts
<1>6. CASE EndBreakage
  BY <1>6, EndBreakageCounts
<1> QED BY <1>1, <1>2, <1>3, <1>4, <1>5, <1>6 DEF Next

LEMMA NextResult ==
  ASSUME IInv, Counted, ResultCounted, [Next]_vars
  PROVE  ResultCounted'
<1> USE DEF breakVars, callVars
<1>1. CASE EndSimulate
  BY <1>1, EndSimulateResult
<1>2. CASE \E count \in 0..MaxParticles : Generate(count)
  BY <1>2 DEF Generate, ResultCounted
<1>3. CASE (\E scale \in CoarseScales \ {coarse_scale} : SetConfig(scale)) \/ UNCHANGED vars
  BY <1>3 DEF SetConfig, vars, ResultCounted, Broken
<1>4. CASE \/ BeginSimulate \/ ComputeForces \/ Integrate \/ Decide \/ BreakNext
           \/ EndBreakage
  <2>1. phase' # "idle"
    BY <1>4 DEF BeginSimulate, ComputeForces, Integrate, Decide, BreakNext, EndBreakage
  <2> QED BY <2>1 DEF ResultCounted
<1> QED BY <1>1, <1>2, <1>3, <1>4 DEF Next

\* A simulation returns as many grains as its full groups and fragments stand for; the
\* broken ones are those whose group was broken, or broke; and the count of newly broken
\* grains is right for grains that were whole (dem_model.cpp:168-305, 392-401).
THEOREM ResultCorrect == Spec => []ResultCounted
<1>1. Init => Counted /\ ResultCounted
  BY DEF Init, Counted, ResultCounted
<1> QED BY <1>1, Invariant, NextCounted, NextResult, PTL DEF Spec
=============================================================================
