---------------------------- MODULE StartupProofs ----------------------------
(***************************************************************************)
(* Theorems about the power limits, for every configuration, every set of  *)
(* GPUs and every failure of nvidia-smi.                                   *)
(***************************************************************************)
EXTENDS StartupProperties, FiniteSetTheorems, TLAPS

-----------------------------------------------------------------------------
(* The limits of the models that are loaded *)

LimitsOf(n) == ModelLimits(config.models[n])

(* A model limits no GPU but its own.                                         *)
LEMMA LimitsOwnGpus ==
    ASSUME NEW n PROVE DOMAIN LimitsOf(n) \subseteq Gpus(n)
  BY DEF LimitsOf, ModelLimits, Gpus

(* The limits that the models of a set want on a GPU. *)
Own(S, g) == {LimitsOf(n)[g] : n \in {n \in S : g \in DOMAIN LimitsOf(n)}}

LEMMA WantedOwn ==
    ASSUME NEW g
    PROVE  Wanted(g) = Own(loaded, g) \cup
               IF Own(loaded, g) = {} /\ g \in DOMAIN defaults THEN {defaults[g]} ELSE {}
  BY DEF Wanted, Own, LimitsOf

(* Models that share no GPU do not disagree.                                  *)
LEMMA OwnFacts ==
    ASSUME NEW S, \A l, m \in S : l # m => Gpus(l) \cap Gpus(m) = {}, NEW n, NEW g \in Gpus(n)
    PROVE  /\ n \in S /\ g \in DOMAIN LimitsOf(n) => Own(S, g) = {LimitsOf(n)[g]}
           /\ n \in S => Own(S \ {n}, g) = {}
  BY LimitsOwnGpus DEF Own

-----------------------------------------------------------------------------
(* The inductive invariant *)

(* Nothing is loaded, and nothing is known.                                   *)
LEMMA InitPower == Init => PowerInv
  BY DEF Init, PowerInv, MainInv, ApartInv, KnownInv, Stages

(* main, up to the startup limits.                                            *)
LEMMA LoadConfigStep == ASSUME PowerInv, LoadConfig PROVE PowerInv'
<1> USE DEF PowerInv, LoadConfig, MainInv, powerVars, Stages
<1>1. MainInv'
  OBVIOUS
<1>2. ApartInv'
  BY DEF ApartInv
<1>3. KnownInv'
  BY DEF KnownInv
<1> QED
  BY <1>1, <1>2, <1>3

(* ApplyStartupLimits sets every default, or notes where it could not.        *)
LEMMA StartupStep == ASSUME PowerInv, StartupLimits PROVE PowerInv'
<1> USE DEF PowerInv, StartupLimits
<1>1. stage = "limits" /\ pending = DOMAIN defaults /\ DOMAIN current = {} /\ loaded = {}
  BY DEF MainInv
<1>2. PICK ok \in SUBSET (DOMAIN defaults \cap GPUs) :
        SetLimits(defaults, ok) /\ undone' = (undone \ ok) \cup (DOMAIN defaults \ ok)
  BY <1>1
<1>3. MainInv' /\ ApartInv'
  BY <1>1 DEF MainInv, ApartInv, Stages
<1>4. KnownInv'
  <2> SUFFICES ASSUME NEW g \in GPUs \ undone'
               PROVE  /\ g \in DOMAIN defaults => g \in DOMAIN current'
                      /\ g \in DOMAIN current' => current'[g] = actual'[g]
                      /\ Wanted(g)' \subseteq {actual'[g]}
    BY DEF KnownInv
  <2>1. DOMAIN current' = ok /\ (g \in DOMAIN defaults => g \in ok)
    BY <1>1, <1>2 DEF SetLimits
  <2>2. g \in ok => current'[g] = defaults[g] /\ actual'[g] = defaults[g]
    BY <1>2 DEF SetLimits
  <2>3. Wanted(g)' = IF g \in DOMAIN defaults THEN {defaults[g]} ELSE {}
    BY <1>1 DEF Wanted
  <2> QED
    BY <2>1, <2>2, <2>3
<1> QED
  BY <1>3, <1>4

(* The other steps of main, and the restart that forgets what was known.      *)
LEMMA MainStep ==
    ASSUME PowerInv, KilledInStartupLimits \/ CheckDevices \/ Restart \/ UNCHANGED vars
    PROVE  PowerInv'
<1> USE DEF PowerInv
<1>1. CASE KilledInStartupLimits
  BY <1>1 DEF KilledInStartupLimits, MainInv, ApartInv, KnownInv, Stages
<1>2. CASE CheckDevices
  <2>1. UNCHANGED <<config, defaults, pending, loaded, current, actual, undone>>
        /\ stage = "devices" /\ stage' \in {"serving", "exited"}
    BY <1>2 DEF CheckDevices, powerVars
  <2>2. MainInv' /\ ApartInv'
    BY <2>1 DEF MainInv, ApartInv, Stages, Gpus
  <2>3. KnownInv'
    BY <2>1 DEF KnownInv, Wanted
  <2> QED
    BY <2>2, <2>3
<1>3. CASE Restart
  BY <1>3 DEF Restart, MainInv, ApartInv, KnownInv, Stages
<1>4. CASE UNCHANGED vars
  <2>1. MainInv' /\ ApartInv'
    BY <1>4 DEF vars, powerVars, MainInv, ApartInv, Gpus
  <2>2. KnownInv'
    BY <1>4 DEF vars, powerVars, KnownInv, Wanted
  <2> QED
    BY <2>1, <2>2
<1> QED
  BY <1>1, <1>2, <1>3, <1>4

(* A start sets the model's own limits, on GPUs that no loaded model has.     *)
LEMMA LoadStep == ASSUME PowerInv, NEW n, Load(n) PROVE PowerInv'
<1> USE DEF PowerInv
<1> DEFINE limit == IF defaults = None THEN <<>> ELSE LimitsOf(n)
<1>1. MayLoad(n) /\ stage = "serving" /\ UNCHANGED <<config, stage, defaults, pending>>
  BY DEF Load, MayLoad
<1>2. PICK ok \in SUBSET (DOMAIN limit \cap GPUs) :
        /\ SetLimits(limit, ok)
        /\ \/ loaded' = loaded /\ undone' = undone \cup DOMAIN limit
           \/ /\ loaded' = loaded \cup {n}
              /\ undone' = (undone \ ok) \cup (DOMAIN limit \ ok)
  BY DEF Load, LimitsOf
<1>3. n \in RealModels(config) \ loaded /\ \A l \in loaded : Gpus(l) \cap Gpus(n) = {}
  BY <1>1 DEF MayLoad
<1>4. MainInv'
  BY <1>1 DEF MainInv
<1>5. ApartInv'
  BY <1>1, <1>2, <1>3 DEF ApartInv, Gpus
<1>6. KnownInv'
  <2> SUFFICES ASSUME defaults # None, NEW g \in GPUs \ undone'
               PROVE  /\ g \in DOMAIN defaults => g \in DOMAIN current'
                      /\ g \in DOMAIN current' => current'[g] = actual'[g]
                      /\ Wanted(g)' \subseteq {actual'[g]}
    BY <1>1 DEF KnownInv
  <2>1. Wanted(g)' = Own(loaded', g) \cup
            IF Own(loaded', g) = {} /\ g \in DOMAIN defaults THEN {defaults[g]} ELSE {}
    BY <1>1 DEF Wanted, Own, LimitsOf
  <2> limit = LimitsOf(n)
    OBVIOUS
  <2> HIDE DEF limit
  <2>2. CASE g \in DOMAIN LimitsOf(n)
    <3>1. g \in ok /\ loaded' = loaded \cup {n}
      BY <1>2, <2>2
    <3>2. /\ g \in DOMAIN current'
          /\ current'[g] = LimitsOf(n)[g] /\ actual'[g] = LimitsOf(n)[g]
      BY <1>2, <3>1 DEF SetLimits
    <3>3. n \in loaded' /\ \A l, m \in loaded' : l # m => Gpus(l) \cap Gpus(m) = {}
      BY <3>1, <1>3 DEF ApartInv
    <3>4. Own(loaded', g) = {LimitsOf(n)[g]}
      BY <2>2, <3>3, LimitsOwnGpus, OwnFacts
    <3> QED
      BY <2>1, <3>2, <3>4
  <2>3. CASE g \notin DOMAIN LimitsOf(n)
    <3>1. /\ g \in DOMAIN current' <=> g \in DOMAIN current
          /\ g \in DOMAIN current => current'[g] = current[g]
          /\ actual'[g] = actual[g]
          /\ g \notin undone
      BY <1>2, <2>3 DEF SetLimits
    <3>2. Own(loaded', g) = Own(loaded, g)
      BY <1>2, <2>3 DEF Own
    <3>3. Wanted(g)' = Wanted(g)
      BY <2>1, <3>2, WantedOwn
    <3> QED
      BY <1>1, <3>1, <3>3 DEF KnownInv
  <2> QED
    BY <2>2, <2>3
<1> QED
  BY <1>4, <1>5, <1>6

(* A stop brings back the default of every GPU that the model had.            *)
LEMMA UnloadStep == ASSUME PowerInv, NEW n, Unload(n) PROVE PowerInv'
<1> USE DEF PowerInv
<1> DEFINE gpus  == Overridden(Gpus(n))
           limit == [g \in gpus |-> defaults[g]]
<1>1. /\ stage = "serving" /\ n \in loaded /\ loaded' = loaded \ {n}
      /\ UNCHANGED <<config, stage, defaults, pending>>
  BY DEF Unload
<1>2. defaults # None => \E ok \in SUBSET (DOMAIN limit \cap GPUs) :
         SetLimits(limit, ok) /\ undone' = (undone \ ok) \cup (gpus \ ok)
  BY DEF Unload
<1>3. MainInv'
  BY <1>1 DEF MainInv
<1>4. ApartInv'
  BY <1>1 DEF ApartInv, Gpus
<1>5. KnownInv'
  <2> SUFFICES ASSUME defaults # None, NEW g \in GPUs \ undone'
               PROVE  /\ g \in DOMAIN defaults => g \in DOMAIN current'
                      /\ g \in DOMAIN current' => current'[g] = actual'[g]
                      /\ Wanted(g)' \subseteq {actual'[g]}
    BY <1>1 DEF KnownInv
  <2>1. Wanted(g)' = Own(loaded', g) \cup
            IF Own(loaded', g) = {} /\ g \in DOMAIN defaults THEN {defaults[g]} ELSE {}
    BY <1>1 DEF Wanted, Own, LimitsOf
  <2>2. g \in Gpus(n) => Own(loaded', g) = {}
    BY <1>1, OwnFacts DEF ApartInv
  <2>3. g \notin Gpus(n) => Own(loaded', g) = Own(loaded, g)
    BY <1>1, LimitsOwnGpus DEF Own
  <2> PICK ok \in SUBSET (DOMAIN limit \cap GPUs) :
         SetLimits(limit, ok) /\ undone' = (undone \ ok) \cup (gpus \ ok)
    BY <1>2
  <2> DOMAIN limit = gpus /\ \A i \in gpus : limit[i] = defaults[i]
    OBVIOUS
  <2> HIDE DEF gpus, limit
  <2>4. CASE g \in gpus
    <3>1. /\ g \in DOMAIN current'
          /\ current'[g] = defaults[g] /\ actual'[g] = defaults[g]
      <4>1. g \in ok
        BY <2>4
      <4> QED
        BY <2>4, <4>1 DEF SetLimits
    <3>2. g \in Gpus(n) /\ g \in DOMAIN defaults
      BY <2>4 DEF gpus, Overridden
    <3> QED
      BY <2>1, <2>2, <3>1, <3>2
  <2>5. CASE g \notin gpus
    <3>1. /\ g \in DOMAIN current' <=> g \in DOMAIN current
          /\ g \in DOMAIN current => current'[g] = current[g]
          /\ actual'[g] = actual[g]
          /\ g \notin undone
      BY <2>5 DEF SetLimits
    <3>2. /\ g \in DOMAIN defaults => g \in DOMAIN current
          /\ g \in DOMAIN current => current[g] = actual[g]
          /\ Wanted(g) \subseteq {actual[g]}
      BY <1>1, <3>1 DEF KnownInv
    <3>3. CASE g \in Gpus(n) /\ g \in DOMAIN defaults
      <4>1. current[g] = defaults[g]
        BY <2>5, <3>2, <3>3 DEF gpus, Overridden
      <4> QED
        BY <2>1, <2>2, <3>1, <3>2, <3>3, <4>1
    <3>4. CASE g \in Gpus(n) /\ g \notin DOMAIN defaults
      BY <2>1, <2>2, <3>1, <3>2, <3>4
    <3>5. CASE g \notin Gpus(n)
      <4>1. Wanted(g)' = Wanted(g)
        BY <2>1, <2>3, <3>5, WantedOwn
      <4> QED
        BY <3>1, <3>2, <4>1
    <3> QED
      BY <3>3, <3>4, <3>5
  <2> QED
    BY <2>4, <2>5
<1> QED
  BY <1>3, <1>4, <1>5

(* No step of main, of the router or of a kill breaks the invariant.          *)
LEMMA NextPower == PowerInv /\ [Next]_vars => PowerInv'
  BY LoadConfigStep, StartupStep, MainStep, LoadStep, UnloadStep DEF Next, Refused

-----------------------------------------------------------------------------
(* Theorems *)

(* What the power manager knows of a GPU is true, and the loaded models share *)
(* no GPU, in every reachable state.                                          *)
THEOREM PowerInductive == Spec => []PowerInv
<1> QED
  BY InitPower, NextPower, PTL DEF Spec

(* Over any number of loads and unloads, and kills and restarts with a        *)
(* model's limits in force, the limit in force is the one the configuration   *)
(* wants, but for the GPUs on which nvidia-smi failed.                        *)
THEOREM LimitsKept == Spec => []LimitsAsWanted
<1>1. PowerInv => LimitsAsWanted
  BY DEF PowerInv, KnownInv, LimitsAsWanted
<1> QED
  BY <1>1, PowerInductive, PTL

-----------------------------------------------------------------------------
(* Induction *)

Less == {p \in Nat \X Nat : p[1] < p[2]}

LEMMA LessWellFounded == IsWellFoundedOn(Less, Nat)
  BY NatLessThanWellFounded DEF OpToRel, Less

(* A set that has 0, and with each number the next, has every number.         *)
LEMMA SetInduction ==
    ASSUME NEW S, 0 \in S, \A n \in Nat : n \in S => n + 1 \in S
    PROVE  Nat \subseteq S
<1> DEFINE T == Nat \ S
<1>1. SUFFICES ASSUME T # {} PROVE FALSE
  OBVIOUS
<1>2. T \subseteq Nat
  OBVIOUS
<1> HIDE DEF T
<1>3. PICK x \in T : \A y \in T : ~(<<y, x>> \in Less)
  BY <1>1, <1>2, LessWellFounded, WFMin
<1> USE DEF T
<1>4. x \in Nat /\ x # 0 /\ x - 1 \in Nat
  BY <1>3
<1>5. <<x - 1, x>> \in Less
  BY <1>4 DEF Less
<1> QED
  BY <1>3, <1>4, <1>5

-----------------------------------------------------------------------------
(* The hops of an alias *)

(* The name after x.                                                          *)
HopFrom(c, x) == IF x \in Names(c) THEN c.models[x].alias ELSE None

IsWalk(c, n, last, f) ==
    f = [k \in 0 .. last |-> IF k = 0 THEN n ELSE HopFrom(c, f[k - 1])]

(* A walk of any length can be walked one hop further.                        *)
LEMMA WalkExists == ASSUME NEW c, NEW n, NEW last \in Nat PROVE \E f : IsWalk(c, n, last, f)
<1> DEFINE S == {m \in Nat : \E f : IsWalk(c, n, m, f)}
<1>1. 0 \in S
  <2> DEFINE f == [k \in 0 .. 0 |-> n]
  <2>1. f = [k \in 0 .. 0 |-> IF k = 0 THEN n ELSE HopFrom(c, f[k - 1])]
    OBVIOUS
  <2> QED
    BY <2>1 DEF IsWalk
<1>2. ASSUME NEW m \in Nat, m \in S PROVE m + 1 \in S
  <2>1. PICK f : IsWalk(c, n, m, f)
    BY <1>2
  <2> DEFINE g == [k \in 0 .. m + 1 |-> IF k = m + 1 THEN HopFrom(c, f[m]) ELSE f[k]]
  <2>2. \A k \in 0 .. m : f[k] = IF k = 0 THEN n ELSE HopFrom(c, f[k - 1])
    BY <2>1 DEF IsWalk
  <2>3. \A k \in 0 .. m + 1 : g[k] = IF k = m + 1 THEN HopFrom(c, f[m]) ELSE f[k]
    OBVIOUS
  <2>4. g = [k \in 0 .. m + 1 |-> g[k]]
    OBVIOUS
  <2> HIDE DEF g
  <2>5. ASSUME NEW k \in 0 .. m + 1 PROVE g[k] = IF k = 0 THEN n ELSE HopFrom(c, g[k - 1])
    <3>1. CASE k = 0
      BY <2>2, <2>3, <3>1
    <3>2. CASE k # 0
      <4>1. k - 1 \in 0 .. m /\ k - 1 \in 0 .. m + 1 /\ k - 1 # m + 1 /\ (k = m + 1 => k - 1 = m)
        BY <3>2
      <4>2. g[k - 1] = f[k - 1]
        BY <2>3, <4>1
      <4>3. g[k] = HopFrom(c, f[k - 1])
        <5>1. CASE k = m + 1
          BY <2>3, <4>1, <5>1
        <5>2. CASE k # m + 1
          BY <2>2, <2>3, <3>2, <5>2
        <5> QED
          BY <5>1, <5>2
      <4> QED
        BY <3>2, <4>2, <4>3
    <3> QED
      BY <3>1, <3>2
  <2>6. IsWalk(c, n, m + 1, g)
    BY <2>4, <2>5 DEF IsWalk
  <2> QED
    BY <2>6
<1> HIDE DEF S
<1>3. Nat \subseteq S
  BY <1>1, <1>2, SetInduction
<1> QED
  BY <1>3 DEF S

(* So the recursive definition of Hops means what it says.                    *)
LEMMA HopFacts ==
    ASSUME NEW c, NEW n, IsFiniteSet(Names(c))
    PROVE  LET last == Cardinality(Names(c)) + 1
               hop  == Hops(c, n)
           IN  /\ last \in Nat \ {0}
               /\ DOMAIN hop = 0 .. last
               /\ hop[0] = n
               /\ \A k \in 1 .. last : hop[k] = HopFrom(c, hop[k - 1])
<1> DEFINE last == Cardinality(Names(c)) + 1
           hop  == Hops(c, n)
<1>1. last \in Nat \ {0}
  BY FS_CardinalityType
<1>2. \E f : IsWalk(c, n, last, f)
  BY <1>1, WalkExists
<1>3. hop = CHOOSE f : IsWalk(c, n, last, f)
  BY DEF Hops, IsWalk, HopFrom
<1>4. IsWalk(c, n, last, hop)
  BY <1>2, <1>3
<1> QED
  BY <1>1, <1>4 DEF IsWalk

(* The walk of validateAliases finds an alias in order exactly when one hop   *)
(* leads to a model.                                                          *)
LEMMA AliasExact ==
    ASSUME NEW c, IsFiniteSet(Names(c)), None \notin Names(c), NEW n \in Names(c)
    PROVE  AliasValid(c, n) <=> ResolveModel(c, n) \in RealModels(c)
<1> DEFINE last  == Cardinality(Names(c)) + 1
           hop   == Hops(c, n)
           steps == {k \in DOMAIN hop \ {0} : hop[k] # None}
<1>1. /\ last \in Nat /\ last >= 2
      /\ DOMAIN hop = 0 .. last
      /\ hop[0] = n
      /\ \A k \in 1 .. last : hop[k] = HopFrom(c, hop[k - 1])
  <2>1. Cardinality(Names(c)) \in Nat /\ Cardinality(Names(c)) # 0
    BY FS_CardinalityType, FS_EmptySet
  <2> QED
    BY <2>1, HopFacts
<1>2. AliasValid(c, n) <=>
        /\ \A j, k \in {0} \cup steps : j # k => hop[j] # hop[k]
        /\ \A k \in steps : hop[k] \in Names(c)
        /\ Cardinality(steps) <= 1
  BY DEF AliasValid
<1> HIDE DEF hop, last
<1>3. hop[1] = c.models[n].alias
  <2>1. 1 \in 1 .. last /\ 1 - 1 = 0
    BY <1>1
  <2>2. hop[1] = HopFrom(c, hop[0])
    BY <1>1, <2>1
  <2> QED
    BY <1>1, <2>2 DEF HopFrom
<1>4. hop[2] = HopFrom(c, hop[1])
  <2>1. 2 \in 1 .. last /\ 2 - 1 = 1
    BY <1>1
  <2> QED
    BY <1>1, <2>1
<1>5. steps = {k \in 1 .. last : hop[k] # None}
  BY <1>1
<1>6. ASSUME NEW m \in Nat, m + 1 \in 1 .. last, hop[m] = None PROVE hop[m + 1] = None
  <2>1. hop[m + 1] = HopFrom(c, hop[m])
    BY <1>1, <1>6
  <2> QED
    BY <1>6, <2>1 DEF HopFrom
<1>7. ASSUME NEW first \in 1 .. last, hop[first] = None
      PROVE  \A k \in first .. last : hop[k] = None
  <2> DEFINE S == {m \in Nat : first + m \in 1 .. last => hop[first + m] = None}
  <2>1. 0 \in S
    BY <1>1, <1>7
  <2>2. ASSUME NEW m \in Nat, m \in S PROVE m + 1 \in S
    <3> SUFFICES ASSUME first + (m + 1) \in 1 .. last PROVE hop[first + (m + 1)] = None
      OBVIOUS
    <3>1. first + m \in 1 .. last /\ first + m \in Nat /\ first + (m + 1) = (first + m) + 1
      BY <1>1
    <3>2. hop[first + m] = None
      BY <2>2, <3>1
    <3> QED
      BY <1>6, <3>1, <3>2
  <2> HIDE DEF S
  <2>3. Nat \subseteq S
    BY <2>1, <2>2, SetInduction
  <2>4. TAKE k \in first .. last
  <2>5. k - first \in Nat /\ first + (k - first) = k /\ k \in 1 .. last
    BY <1>1
  <2> QED
    BY <2>3, <2>5 DEF S
<1>8. IsFiniteSet(steps) /\ Cardinality(steps) \in Nat
  <2>1. IsFiniteSet(1 .. last)
    BY <1>1, FS_Interval
  <2> QED
    BY <1>5, <2>1, FS_Subset, FS_CardinalityType
<1>9. CASE ~IsAlias(c, n)
  <2>1. steps = {}
    <3>1. \A k \in 1 .. last : hop[k] = None
      BY <1>1, <1>3, <1>7, <1>9 DEF IsAlias
    <3> QED
      BY <1>5, <3>1
  <2>2. AliasValid(c, n)
    BY <1>2, <2>1, FS_EmptySet
  <2> QED
    BY <1>9, <2>2 DEF ResolveModel, RealModels
<1>10. CASE IsAlias(c, n) /\ c.models[n].alias \notin Names(c)
  <2>1. 1 \in steps /\ hop[1] \notin Names(c)
    BY <1>1, <1>3, <1>5, <1>10 DEF IsAlias
  <2> QED
    BY <1>2, <1>10, <2>1 DEF ResolveModel, RealModels
<1>11. CASE IsAlias(c, n) /\ c.models[n].alias \in Names(c)
  <2> DEFINE real == c.models[n].alias
  <2>1. /\ ResolveModel(c, n) = real /\ real \in Names(c) /\ real # None
        /\ hop[1] = real /\ hop[2] = c.models[real].alias /\ 1 \in steps
    <3>1. hop[1] = real /\ real \in Names(c) /\ real # None
      BY <1>3, <1>11
    <3>2. 1 \in 1 .. last
      BY <1>1
    <3> QED
      BY <1>4, <1>5, <1>11, <3>1, <3>2 DEF ResolveModel, HopFrom
  <2>2. CASE ~IsAlias(c, real)
    <3>1. \A k \in 2 .. last : hop[k] = None
      <4>1. 2 \in 1 .. last /\ hop[2] = None
        BY <1>1, <2>1, <2>2 DEF IsAlias
      <4> QED
        BY <1>7, <4>1
    <3>2. steps = {1}
      <4>1. ASSUME NEW k \in steps PROVE k = 1
        <5>1. k \in 1 .. last /\ hop[k] # None
          BY <1>5
        <5>2. k \notin 2 .. last
          BY <3>1, <5>1
        <5> QED
          BY <1>1, <5>1, <5>2
      <4> QED
        BY <2>1, <4>1
    <3>3. hop[0] # hop[1]
      BY <1>1, <1>11, <2>1, <2>2
    <3>4. AliasValid(c, n)
      <4>1. Cardinality(steps) = 1
        BY <3>2, FS_Singleton
      <4> QED
        BY <1>2, <2>1, <3>2, <3>3, <4>1
    <3> QED
      BY <2>1, <2>2, <3>4 DEF RealModels
  <2>3. CASE IsAlias(c, real)
    <3>1. 1 \in steps /\ 2 \in steps
      BY <1>1, <1>5, <2>1, <2>3 DEF IsAlias
    <3>2. ~(Cardinality(steps) <= 1)
      <4> SUFFICES ASSUME Cardinality(steps) <= 1 PROVE FALSE
        OBVIOUS
      <4>1. Cardinality(steps) # 0
        BY <1>8, <3>1, FS_EmptySet
      <4>2. Cardinality(steps) = 1
        BY <1>8, <4>1
      <4>3. PICK x : steps = {x}
        BY <1>8, <4>2, FS_Singleton
      <4> QED
        BY <3>1, <4>3
    <3> QED
      BY <1>2, <2>1, <2>3, <3>2 DEF RealModels
  <2> QED
    BY <2>2, <2>3
<1> QED
  BY <1>9, <1>10, <1>11

-----------------------------------------------------------------------------
(* Ports and GPUs *)

(* A range between two valid ports has only valid ones, and is counted by its *)
(* ends.                                                                      *)
LEMMA PortFacts ==
    ASSUME NEW lo \in Int, NEW hi \in Int, PortValid(lo), PortValid(hi), lo <= hi
    PROVE  /\ lo .. hi # {} /\ lo .. hi \subseteq 1 .. LastPort
           /\ Cardinality(lo .. hi) = hi - lo + 1
<1>1. LastPort \in Int
  BY DEF LastPort
<1>2. lo \in 1 .. LastPort /\ hi \in 1 .. LastPort
  BY DEF PortValid
<1>3. lo .. hi # {} /\ lo .. hi \subseteq 1 .. LastPort
  BY <1>1, <1>2
<1>4. Cardinality(lo .. hi) = hi - lo + 1
  BY <1>1, <1>2, FS_Interval
<1> QED
  BY <1>3, <1>4

(* A list has as many elements as places exactly when none is there twice.    *)
LEMMA NoneTwice ==
    ASSUME NEW s \in Seq(Int)
    PROVE  Cardinality(Elements(s)) = Len(s) <=>
              \A k \in DOMAIN s : \A j \in 1 .. k - 1 : s[j] # s[k]
<1>1. DOMAIN s = 1 .. Len(s) /\ Len(s) \in Nat
  OBVIOUS
<1>2. s \in [1 .. Len(s) -> Elements(s)]
  BY <1>1 DEF Elements
<1>3. s \in Surjection(1 .. Len(s), Elements(s))
  BY <1>1, <1>2 DEF Surjection, Elements
<1>4. IsFiniteSet(1 .. Len(s)) /\ Cardinality(1 .. Len(s)) = Len(s)
  BY <1>1, FS_Interval
<1>5. Cardinality(Elements(s)) = Len(s) <=> s \in Injection(1 .. Len(s), Elements(s))
  BY <1>3, <1>4, FS_Surjection
<1>6. s \in Injection(1 .. Len(s), Elements(s)) <=>
          \A j, k \in 1 .. Len(s) : j # k => s[j] # s[k]
  BY <1>2 DEF Injection, IsInjective
<1>7. (\A j, k \in 1 .. Len(s) : j # k => s[j] # s[k]) <=>
          \A k \in DOMAIN s : \A j \in 1 .. k - 1 : s[j] # s[k]
  <2>1. ASSUME \A j, k \in 1 .. Len(s) : j # k => s[j] # s[k],
               NEW k \in DOMAIN s, NEW j \in 1 .. k - 1
        PROVE  s[j] # s[k]
    <3>1. j \in 1 .. Len(s) /\ k \in 1 .. Len(s) /\ j # k
      BY <1>1
    <3> QED
      BY <2>1, <3>1
  <2>2. ASSUME \A k \in DOMAIN s : \A j \in 1 .. k - 1 : s[j] # s[k],
               NEW j \in 1 .. Len(s), NEW k \in 1 .. Len(s), j # k
        PROVE  s[j] # s[k]
    <3>1. j \in 1 .. k - 1 \/ k \in 1 .. j - 1
      BY <1>1, <2>2
    <3> QED
      BY <1>1, <2>2, <3>1
  <2> QED
    BY <2>1, <2>2
<1> QED
  BY <1>5, <1>6, <1>7

-----------------------------------------------------------------------------
(* Validation, part by part *)

(* One hop from every name there is a model that can be started.              *)
LEMMA NamesFollow == ASSUME NEW c, WellFormed(c), Validate(c) PROVE NamesUsable(c)
<1>1. IsFiniteSet(Names(c)) /\ None \notin Names(c) /\ RealModels(c) \subseteq Names(c)
  BY DEF WellFormed, RealModels
<1>2. ASSUME NEW n \in Names(c) PROVE Startable(c, ResolveModel(c, n))
  <2>1. ResolveModel(c, n) \in RealModels(c)
    BY <1>1, AliasExact DEF Validate
  <2> DEFINE real == ResolveModel(c, n)
  <2>2. real \in Names(c) /\ c.models[real].alias = None
    BY <1>1, <2>1 DEF RealModels, IsAlias
  <2> HIDE DEF real
  <2>3. c.models[real].path
    BY <2>2 DEF Validate, ModelValid
  <2>4. \/ c.models[real].runtime = "vllm"
        \/ c.models[real].runtime = "llama_cpp" /\ c.llamaBinary /\ c.scheduler = None
    BY <2>2 DEF Validate, RuntimesValid
  <2> QED
    BY <2>1, <2>3, <2>4 DEF Startable, real
<1> QED
  BY <1>2 DEF NamesUsable, Validate, ServerValid

(* Every model of the scheduler has its ports, its memory and its GPUs.       *)
LEMMA InstancesFollow == ASSUME NEW c, WellFormed(c), Validate(c) PROVE InstancesUsable(c)
<1> SUFFICES ASSUME c.scheduler # None PROVE InstancesUsable(c)
  BY DEF InstancesUsable
<1> DEFINE lo == c.scheduler.lo
           hi == c.scheduler.hi
           max == c.scheduler.max
<1>1. lo \in Int /\ hi \in Int /\ (max # None => max \in Int)
  BY DEF WellFormed
<1>2. /\ PortValid(lo) /\ PortValid(hi) /\ lo <= hi
      /\ max # None => max \in 1 .. hi - lo + 1
  BY DEF Validate, SchedulerValid, PortCount
<1>3. ASSUME NEW n \in RealModels(c)
      PROVE  LET m == c.models[n] IN
             /\ m.mem # None /\ m.mem > 0
             /\ Elements(m.gpus) # {} /\ Elements(m.gpus) \subseteq Nat
             /\ Cardinality(Elements(m.gpus)) = Len(m.gpus)
  <2> DEFINE m == c.models[n]
             gpus == m.gpus
  <2>1. gpus \in Seq(Int) /\ PlacementValid(m)
    BY DEF WellFormed, RealModels, Validate, SchedulerValid
  <2>2. /\ Len(gpus) > 0 /\ m.mem # None /\ m.mem > 0
        /\ \A k \in DOMAIN gpus : gpus[k] >= 0 /\ \A j \in 1 .. k - 1 : gpus[j] # gpus[k]
    BY <2>1 DEF PlacementValid
  <2> HIDE DEF gpus
  <2>3. Cardinality(Elements(gpus)) = Len(gpus)
    BY <2>1, <2>2, NoneTwice
  <2>4. DOMAIN gpus = 1 .. Len(gpus) /\ Len(gpus) \in Nat
    BY <2>1
  <2>5. 1 \in DOMAIN gpus /\ \A k \in DOMAIN gpus : gpus[k] \in Nat
    BY <2>1, <2>2, <2>4
  <2>6. Elements(gpus) # {} /\ Elements(gpus) \subseteq Nat
    BY <2>5 DEF Elements
  <2> QED
    BY <2>2, <2>3, <2>6 DEF gpus
<1> HIDE DEF lo, hi, max
<1>4. /\ lo .. hi # {} /\ lo .. hi \subseteq 1 .. LastPort
      /\ Cardinality(lo .. hi) = hi - lo + 1
  BY <1>1, <1>2, PortFacts
<1>5. max # None => max \in 1 .. Cardinality(lo .. hi)
  BY <1>2, <1>4
<1> QED
  BY <1>3, <1>4, <1>5 DEF InstancesUsable, lo, hi, max

(* Whatever the power manager is given to set is a limit.                     *)
LEMMA LimitsFollow == ASSUME NEW c, WellFormed(c), Validate(c) PROVE LimitsUsable(c)
<1>1. /\ c.gpuLimits # None => \A g \in DOMAIN c.gpuLimits : c.gpuLimits[g] > 0
      /\ c.defaultLimit # None => c.defaultLimit > 0
  BY DEF Validate, PowerLimitsValid, Given, Positive
<1>2. ASSUME NEW n \in RealModels(c)
      PROVE  LET m == c.models[n] IN
             /\ \A g \in DOMAIN ModelLimits(m) : ModelLimits(m)[g] > 0
             /\ m.gpus # <<>> /\ Given(m.limits) => DOMAIN ModelLimits(m) = DOMAIN m.limits
  <2> DEFINE m == c.models[n]
  <2>1. ModelPowerValid(m) /\ m.gpus \in Seq(Int)
    BY DEF WellFormed, RealModels, Validate, ModelValid
  <2> HIDE DEF m
  <2>2. \A g \in DOMAIN ModelLimits(m) : ModelLimits(m)[g] > 0
    BY <2>1 DEF ModelPowerValid, ModelLimits, Positive, Given
  <2>3. ASSUME m.gpus # <<>>, Given(m.limits) PROVE DOMAIN ModelLimits(m) = DOMAIN m.limits
    <3>1. Len(m.gpus) > 0
      BY <2>1, <2>3
    <3>2. m.limits # None /\ DOMAIN m.limits \subseteq Elements(m.gpus)
      BY <2>1, <2>3, <3>1 DEF ModelPowerValid, Given
    <3> QED
      BY <3>2 DEF ModelLimits
  <2> QED
    BY <2>2, <2>3 DEF m
<1> QED
  BY <1>1, <1>2 DEF LimitsUsable

(* A configuration with its defaults filled in that Validate accepts holds    *)
(* what the users of it take for granted, whatever its names, its chains of   *)
(* aliases and its numbers.                                                   *)
THEOREM ValidIsUsable ==
    ASSUME NEW c, WellFormed(c), c.logSize # 0, c.logFiles # 0, Validate(c)
    PROVE  Usable(c)
<1>1. LogUsable(c)
  BY DEF WellFormed, Validate, LogValid, LogUsable
<1> QED
  BY <1>1, NamesFollow, InstancesFollow, LimitsFollow DEF Usable

-----------------------------------------------------------------------------
(* What main does with the answer *)

(* The configuration keeps its types, and main goes on only with one that is  *)
(* valid.                                                                     *)
LoadedInv ==
    /\ WellFormed(config)
    /\ stage \in Stages
    /\ stage # "off" =>
          /\ config.logSize # 0 /\ config.logFiles # 0
          /\ stage # "rejected" => Validate(config)

(* applyDefaults keeps the types and leaves no log limit at zero.             *)
LEMMA DefaultFacts ==
    ASSUME NEW c, WellFormed(c)
    PROVE  LET d == WithDefaults(c) IN WellFormed(d) /\ d.logSize # 0 /\ d.logFiles # 0
<1> DEFINE d == WithDefaults(c)
<1>1. /\ {"serverPort", "vllmPort", "logSize", "logFiles", "scheduler", "models"}
            \subseteq DOMAIN c
      /\ {c.serverPort, c.vllmPort, c.logSize, c.logFiles} \subseteq Int
  BY DEF WellFormed, PlainConfig
<1>2. DOMAIN d = DOMAIN c
  BY DEF WithDefaults
<1>3. /\ d.serverPort = IfZero(c.serverPort, 8080) /\ d.vllmPort = IfZero(c.vllmPort, 8000)
      /\ d.logSize = IfZero(c.logSize, 50) /\ d.logFiles = IfZero(c.logFiles, 5)
  BY <1>1 DEF WithDefaults
<1>4. d.scheduler = c.scheduler /\ d.models = c.models
  BY <1>1 DEF WithDefaults
<1> HIDE DEF d
<1>5. {d.serverPort, d.vllmPort, d.logSize, d.logFiles} \subseteq Int
      /\ d.logSize # 0 /\ d.logFiles # 0
  BY <1>1, <1>3 DEF IfZero
<1>6. WellFormed(d)
  BY <1>2, <1>4, <1>5 DEF WellFormed, Names
<1> QED
  BY <1>5, <1>6 DEF d

LEMMA InitLoaded == Init => LoadedInv
  BY StartupAssumption DEF Init, LoadedInv, Stages

LEMMA NextLoaded == LoadedInv /\ [Next]_vars => LoadedInv'
<1> SUFFICES ASSUME LoadedInv, [Next]_vars PROVE LoadedInv'
  OBVIOUS
<1>1. CASE LoadConfig
  <2>1. config' = WithDefaults(config) /\ WellFormed(config)
    BY <1>1 DEF LoadConfig, LoadedInv
  <2>2. WellFormed(config') /\ config'.logSize # 0 /\ config'.logFiles # 0
    BY <2>1, DefaultFacts
  <2>3. stage' \in Stages /\ (stage' # "rejected" => Validate(config'))
    BY <1>1 DEF LoadConfig, Stages
  <2> QED
    BY <2>2, <2>3 DEF LoadedInv
<1>2. CASE \/ StartupLimits \/ KilledInStartupLimits \/ CheckDevices
           \/ \E n \in RealModels(config) : Load(n) \/ Unload(n)
           \/ Restart \/ Refused \/ UNCHANGED vars
  <2>1. /\ config' = config
        /\ \/ stage' = stage
           \/ stage' = "off"
           \/ stage \notin {"off", "rejected"} /\ stage' \in Stages \ {"off", "rejected"}
    BY <1>2 DEF StartupLimits, KilledInStartupLimits, CheckDevices, Load, Unload, MayLoad,
       Restart, Refused, vars, Stages
  <2> QED
    BY <2>1 DEF LoadedInv, Stages
<1> QED
  BY <1>1, <1>2 DEF Next

(* jukebox never serves, and never sets a power limit, with a configuration   *)
(* that some user of it could not live with.                                  *)
THEOREM LoadedUsable == Spec => []LoadedIsUsable
<1>1. LoadedInv => LoadedIsUsable
  BY ValidIsUsable DEF LoadedInv, LoadedIsUsable
<1> QED
  BY <1>1, InitLoaded, NextLoaded, PTL DEF Spec
=============================================================================
