------------------------------ MODULE DEMModel ------------------------------
(***************************************************************************)
(* The particles of DEMModel through generate_particles and simulate:      *)
(* coarse-graining, time steps with breakage, reconstruction.              *)
(*                                                                         *)
(* Kept of a particle: its id, whether it is broken, and the sign of its   *)
(* strength, which is drawn from an unbounded normal distribution; "weak"  *)
(* is negative.  Kept of a force: none, light, or heavy, which is more     *)
(* than the strength of a sound particle.  Positions, masses and the       *)
(* forces' formulas are left out: a force is any of the three.             *)
(* coarse_scale = 1 stands for use_coarse_graining = false.                *)
(***************************************************************************)
EXTENDS Integers, Sequences, FiniteSets

CONSTANTS CoarseScales,      \* the values config_.coarse_scale may be set to
          NumSteps,          \* total_simulation_time / config_.dt
          FragmentCounts,    \* 3..6 in the code
          CountSize,         \* 2^64, how many values size_t has
          MaxParticles,      \* bound: particles given to a call
          MaxCalls           \* bound: calls of a behaviour

ASSUME DEMAssumption ==
  /\ CoarseScales \subseteq Nat \ {0} /\ NumSteps \in Nat /\ CountSize \in Nat \ {0}
  /\ FragmentCounts \subseteq Nat
  /\ MaxParticles \in Nat /\ MaxCalls \in Nat

Strengths == {"weak", "sound"}
Forces == {"none", "light", "heavy"}
Particles == [id : Nat, strength : Strengths, broken : BOOLEAN]

VARIABLES
  coarse_scale, \* config_.coarse_scale
  phase,        \* "idle" between calls, else where simulate() is
  particles,    \* the caller's list, or result.particles
  next_particle_id_,
  force,        \* fx, fy, fz of each particle
  step,
  to_break, new_particles, new_id_start,    \* locals of handle_breakage
  initial,      \* of the last simulation: its scale (0: none since the list was made),
                \* particles given, broken ones among them
  initial_broken_count,                     \* broken ones after coarse-graining
  newly_broken, \* the numerator of breakage_rate
  breaks, fragments,   \* history: particles broken and fragments made by the call
  load,         \* history: the forces of this step before integrate()
  spared,       \* history: a particle under a heavy load was left whole
  calls

vars == <<coarse_scale, phase, particles, next_particle_id_, force, step, to_break, new_particles,
          new_id_start, initial, initial_broken_count, newly_broken, breaks, fragments,
          load, spared, calls>>
callVars == <<initial, initial_broken_count, newly_broken, calls>>
breakVars == <<to_break, new_particles, new_id_start>>

Broken(list) == Cardinality({i \in DOMAIN list : list[i].broken})
NoForce(list) == [i \in DOMAIN list |-> "none"]

Init ==
  /\ coarse_scale \in CoarseScales
  /\ phase = "idle" /\ particles = <<>> /\ next_particle_id_ = 0
  /\ force = <<>> /\ step = 0
  /\ to_break = {} /\ new_particles = <<>> /\ new_id_start = 0
  /\ initial = [scale |-> 0, count |-> 0, broken |-> 0]
  /\ initial_broken_count = 0 /\ newly_broken = 0
  /\ breaks = 0 /\ fragments = 0
  /\ load = <<>> /\ spared = FALSE /\ calls = 0

\* set_config() between two calls.
SetConfig(scale) ==
  /\ phase = "idle"
  /\ coarse_scale' = scale
  /\ UNCHANGED <<phase, particles, next_particle_id_, force, step, breakVars, callVars,
                 breaks, fragments, load, spared>>

\* The caller makes a new list.
Generate(count) ==
  /\ phase = "idle" /\ calls < MaxCalls
  /\ calls' = calls + 1
  /\ \E strength \in [1..count -> Strengths] :
       particles' = [i \in 1..count |-> [id |-> next_particle_id_ + i - 1,
                                         strength |-> strength[i], broken |-> FALSE]]
  /\ next_particle_id_' = next_particle_id_ + count
  /\ force' = NoForce(particles')
  /\ initial' = [scale |-> 0, count |-> count, broken |-> 0]
  /\ UNCHANGED <<coarse_scale, phase, step, breakVars, initial_broken_count, newly_broken,
                 breaks, fragments, load, spared>>

-----------------------------------------------------------------------------
(* coarse_grain and reconstruct_fine *)

Shuffles(n) == {order \in [1..n -> 1..n] : \A i, j \in 1..n : order[i] = order[j] => i = j}

\* The members of group g, after the shuffle.  What is left over after the last full
\* group is in no group.
Group(g, order) == {order[(g - 1) * coarse_scale + k] : k \in 1..coarse_scale}

\* The strength of a group is an average: of mixed signs, it may have either.
IsCoarse(p, g, order) ==
  /\ p.id = next_particle_id_ + g - 1
  /\ \E i \in Group(g, order) : particles[i].strength = p.strength
  /\ p.broken = \E i \in Group(g, order) : particles[i].broken

CoarseGrain(result) ==
  IF coarse_scale = 1
  THEN result = particles
  ELSE LET num_coarse == Len(particles) \div coarse_scale
       IN  \E order \in Shuffles(Len(particles)) :
             /\ Len(result) = num_coarse
             /\ \A g \in 1..num_coarse : IsCoarse(result[g], g, order)

\* The lists of that many particles with the ids that come next.
Numbered(n) ==
  {[g \in 1..n |-> [id |-> next_particle_id_ + g - 1,
                    strength |-> kind[g].strength, broken |-> kind[g].broken]] :
     kind \in [1..n -> [strength : Strengths, broken : BOOLEAN]]}

CoarseCount == IF coarse_scale = 1 THEN 0 ELSE Len(particles) \div coarse_scale

BeginSimulate ==
  /\ phase = "idle" /\ calls < MaxCalls
  /\ Len(particles) <= MaxParticles
  /\ calls' = calls + 1
  /\ \E result \in Numbered(CoarseCount) \cup {particles} :
       CoarseGrain(result) /\ particles' = result
  /\ next_particle_id_' = next_particle_id_ + CoarseCount
  /\ initial' = [scale |-> coarse_scale, count |-> Len(particles), broken |-> Broken(particles)]
  /\ initial_broken_count' = Broken(particles')
  /\ breaks' = 0 /\ fragments' = 0 /\ spared' = FALSE
  /\ force' = NoForce(particles') /\ step' = 0
  /\ phase' = "step"
  /\ UNCHANGED <<coarse_scale, breakVars, newly_broken, load>>

Reconstruct_Whole(list) ==   \* faulty: broken is not copied
  [k \in 1..(coarse_scale * Len(list)) |->
     LET cp == list[((k - 1) \div coarse_scale) + 1]
     IN  [id |-> next_particle_id_ + k - 1, strength |-> cp.strength, broken |-> FALSE]]

\* Each coarse particle, and each fragment of one, becomes coarse_scale fine ones.
Reconstruct(list) ==
  [k \in 1..(coarse_scale * Len(list)) |->
     LET cp == list[((k - 1) \div coarse_scale) + 1]
     IN  [id |-> next_particle_id_ + k - 1, strength |-> cp.strength, broken |-> cp.broken]]

\* After the last step.  breakage_rate subtracts unsigned numbers.
EndSimulate ==
  /\ phase = "step" /\ step = NumSteps
  /\ particles' = IF coarse_scale = 1 THEN particles ELSE Reconstruct(particles)
  /\ next_particle_id_' = next_particle_id_ +
       (IF coarse_scale = 1 THEN 0 ELSE coarse_scale * Len(particles))
  /\ newly_broken' = (Broken(particles') - initial.broken) % CountSize
  /\ force' = NoForce(particles')
  /\ phase' = "idle"
  /\ UNCHANGED <<coarse_scale, step, breakVars, initial, initial_broken_count, breaks, fragments,
                 load, spared, calls>>

-----------------------------------------------------------------------------
(* One time step *)

\* Gravity, roller, walls and contacts, which broken particles do not feel.
ComputeForces ==
  /\ phase = "step" /\ step < NumSteps
  /\ step' = step + 1
  /\ \E f \in [DOMAIN particles -> Forces] :
       /\ \A i \in DOMAIN particles : particles[i].broken => f[i] = force[i]
       /\ force' = f /\ load' = f
  /\ phase' = "integrate"
  /\ UNCHANGED <<coarse_scale, particles, next_particle_id_, breakVars, callVars, breaks, fragments, spared>>

\* Velocities and positions follow the forces, which are then set to zero.
Integrate ==
  /\ phase = "integrate"
  /\ force' = [i \in DOMAIN particles |-> IF particles[i].broken THEN force[i] ELSE "none"]
  /\ phase' = "decide"
  /\ UNCHANGED <<coarse_scale, particles, next_particle_id_, step, breakVars, callVars,
                 breaks, fragments, load, spared>>

\* What should_break() may answer: any stress exceeds a negative strength; without
\* stress the probability is zero.
ShouldBreak(strength, f) ==
  IF strength = "weak" \/ f = "heavy" THEN {TRUE}
  ELSE IF f = "none" THEN {FALSE} ELSE BOOLEAN

\* The first loop of handle_breakage().
Decide ==
  /\ phase = "decide"
  /\ to_break' \in SUBSET {i \in DOMAIN particles : ~particles[i].broken}
  /\ \A i \in DOMAIN particles : ~particles[i].broken =>
       (i \in to_break') \in ShouldBreak(particles[i].strength, force[i])
  /\ spared' = \E i \in DOMAIN particles :
       load[i] = "heavy" /\ ~particles[i].broken /\ i \notin to_break'
  /\ new_id_start' = next_particle_id_ /\ new_particles' = <<>>
  /\ load' = <<>>
  /\ phase' = "fragment"
  /\ UNCHANGED <<coarse_scale, particles, next_particle_id_, force, step, callVars, breaks, fragments>>

\* break_particle(): the pieces have the sign of their parent's strength.
Pieces(parent, n) ==
  [k \in 1..n |-> [id |-> new_id_start + k - 1, strength |-> parent.strength,
                   broken |-> FALSE]]

BreakNext_SameStart ==   \* faulty: new_id_start is not advanced
  /\ phase = "fragment"
  /\ \E idx \in to_break, n \in FragmentCounts :
       /\ \A j \in to_break : idx <= j
       /\ particles' = [particles EXCEPT ![idx].broken = TRUE]
       /\ new_particles' = new_particles \o Pieces(particles[idx], n)
       /\ to_break' = to_break \ {idx}
       /\ fragments' = fragments + n
  /\ breaks' = breaks + 1
  /\ UNCHANGED <<coarse_scale, phase, next_particle_id_, force, step, new_id_start, callVars, load, spared>>

\* One turn of the second loop.
BreakNext ==
  /\ phase = "fragment"
  /\ \E idx \in to_break, n \in FragmentCounts :
       /\ \A j \in to_break : idx <= j
       /\ particles' = [particles EXCEPT ![idx].broken = TRUE]
       /\ new_particles' = new_particles \o Pieces(particles[idx], n)
       /\ new_id_start' = new_id_start + n
       /\ to_break' = to_break \ {idx}
       /\ fragments' = fragments + n
  /\ breaks' = breaks + 1
  /\ UNCHANGED <<coarse_scale, phase, next_particle_id_, force, step, callVars, load, spared>>

\* The pieces join the list; without any, nothing changes.
EndBreakage ==
  /\ phase = "fragment" /\ to_break = {}
  /\ next_particle_id_' = new_id_start
  /\ particles' = particles \o new_particles
  /\ force' = force \o NoForce(new_particles)
  /\ new_particles' = <<>>
  /\ phase' = "step"
  /\ UNCHANGED <<coarse_scale, step, to_break, new_id_start, callVars, breaks, fragments, load, spared>>

-----------------------------------------------------------------------------

Next ==
  \/ \E count \in 0..MaxParticles : Generate(count)
  \/ \E scale \in CoarseScales \ {coarse_scale} : SetConfig(scale)
  \/ BeginSimulate \/ EndSimulate
  \/ ComputeForces \/ Integrate \/ Decide \/ BreakNext \/ EndBreakage

Spec == Init /\ [][Next]_vars

-----------------------------------------------------------------------------
(* Properties *)

TypeOK ==
  /\ coarse_scale \in CoarseScales
  /\ phase \in {"idle", "step", "integrate", "decide", "fragment"}
  /\ particles \in Seq(Particles) /\ new_particles \in Seq(Particles)
  /\ next_particle_id_ \in Nat /\ new_id_start \in Nat
  /\ force \in [DOMAIN particles -> Forces]
  /\ step \in 0..NumSteps
  /\ to_break \subseteq DOMAIN particles
  /\ initial \in [scale : CoarseScales \cup {0}, count : Nat, broken : Nat]
  /\ initial_broken_count \in Nat /\ newly_broken \in Nat
  /\ breaks \in Nat /\ fragments \in Nat
  /\ load \in [DOMAIN particles -> Forces] \cup {<<>>}
  /\ spared \in BOOLEAN /\ calls \in 0..MaxCalls

\* No two particles share an id, although three functions hand them out and fragments
\* get theirs from a local copy of the counter: an id that exists is never handed out
\* again (dem_model.cpp:146, 227, 280, 694-704).
IdsUnique ==
  LET all == particles \o new_particles
  IN  /\ \A i, j \in DOMAIN all : all[i].id = all[j].id => i = j
      /\ \A i \in DOMAIN all :
           all[i].id < (IF phase = "fragment" THEN new_id_start ELSE next_particle_id_)

\* A simulation returns the grains of every full group and of every fragment; those that
\* are broken are the ones whose group was, or broke; and a simulation of whole grains
\* reports just its own breaks (dem_model.cpp:168-305, 392-401).
ResultCounted ==
  phase = "idle" /\ initial.scale # 0 =>
    /\ Len(particles) = initial.scale * ((initial.count \div initial.scale) + fragments)
    /\ Broken(particles) = initial.scale * (initial_broken_count + breaks)
    /\ initial.broken = 0 => newly_broken = (initial.scale * breaks) % CountSize

\* A particle that was loaded beyond its strength in a time step is broken at its end:
\* README.md:74 says of this module that it does breakage, and dem_model.cpp:628 that a
\* stress above the strength breaks.  integrate() has zeroed the forces by then.
LoadedBreaks == ~spared
=============================================================================
