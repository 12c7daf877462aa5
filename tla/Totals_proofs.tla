---------------------------- MODULE Totals_proofs ----------------------------
(***************************************************************************)
(* What Total of ProcessStream computes.  It is a recursive function over  *)
(* the subsets of a set, which takes the elements in an order nobody       *)
(* chose: that its equation has a solution, and that the order does not    *)
(* matter, is proved here by induction over finite sets.  The induction is *)
(* on a set of sets, Q, rather than on a predicate: a set whose proper     *)
(* subsets are in Q is in Q, and the strict subset ordering of a finite    *)
(* set is well founded.                                                    *)
(***************************************************************************)
EXTENDS ProcessStream, FiniteSetTheorems, TLAPS

\* A set of sets that contains each set of which it contains the proper subsets.
LEMMA SetInduction ==
  ASSUME NEW S, IsFiniteSet(S), NEW Q,
         \A T \in SUBSET S : (\A U \in SUBSET T : U # T => U \in Q) => T \in Q
  PROVE  S \in Q
<1> DEFINE bad == {T \in SUBSET S : T \notin Q}
<1>1. IsWellFoundedOn(StrictSubsetOrdering(S), FiniteSubsetsOf(S))
  BY FS_StrictSubsetOrderingWellFounded
<1>2. bad \subseteq FiniteSubsetsOf(S)
  BY FS_Subset DEF FiniteSubsetsOf
<1>3. ASSUME bad # {} PROVE FALSE
  <2>1. PICK T \in bad : \A U \in bad : <<U, T>> \notin StrictSubsetOrdering(S)
    <3> HIDE DEF bad
    <3> QED BY <1>1, <1>2, <1>3, WFMin
  <2>2. ASSUME NEW U \in SUBSET T, U # T PROVE U \in Q
    BY <2>1, <2>2 DEF StrictSubsetOrdering
  <2> QED
    BY <2>1, <2>2
<1> QED
  BY <1>3

\* The element that is added last, and the equation that defines the sum.
Pick(s) == CHOOSE x \in s : TRUE
IsTotal(g, log, S) ==
  g = [s \in SUBSET S |-> IF s = {} THEN 0 ELSE log[Pick(s)].value + g[s \ {Pick(s)}]]

\* Total is a solution of the equation over all subsets, taken at the set itself.
LEMMA TotalUnfolded ==
  ASSUME NEW log, NEW S
  PROVE  Total(log, S) = (CHOOSE g : IsTotal(g, log, S))[S]
  BY DEF Total, MapThenSumSet, MapThenFoldSet, IsTotal, Pick

Step(log, T) == IF T = {} THEN 0 ELSE log[Pick(T)].value + Total(log, T \ {Pick(T)})

\* A set that is not empty has an element to pick.
LEMMA PickIsIn == \A s : s # {} => Pick(s) \in s
  BY DEF Pick

\* The equation has a solution, and only one on the subsets: so each of the solutions that
\* Total chooses, one for every set, gives every subset its Total.
LEMMA TotalStep ==
  ASSUME NEW log, NEW S, IsFiniteSet(S)
  PROVE  Total(log, S) = Step(log, S)
<1> DEFINE Holds(T) == /\ Total(log, T) = Step(log, T)
                       /\ \A g : IsTotal(g, log, T) => \A s \in SUBSET T : g[s] = Total(log, s)
           Q == {T \in SUBSET S : Holds(T)}
<1>1. ASSUME NEW T \in SUBSET S, \A U \in SUBSET T : U # T => U \in Q
      PROVE  T \in Q
  <2>1. \A U \in SUBSET T : U # T => Holds(U)
    BY <1>1
  <2> DEFINE f == [s \in SUBSET T |-> IF s = T THEN Step(log, T) ELSE Total(log, s)]
  <2> HIDE DEF Holds, Q
  <2>2. IsTotal(f, log, T)
    <3> DEFINE body == [s \in SUBSET T |->
                          IF s = {} THEN 0 ELSE log[Pick(s)].value + f[s \ {Pick(s)}]]
    <3>1. ASSUME NEW s \in SUBSET T PROVE f[s] = body[s]
      <4>1. f[s] = Step(log, s)
        <5>1. CASE s = T
          BY <5>1
        <5>2. CASE s # T
          BY <2>1, <5>2 DEF Holds
        <5> QED
          BY <5>1, <5>2
      <4>2. s # {} => s \ {Pick(s)} \in SUBSET T /\ s \ {Pick(s)} # T
        BY PickIsIn
      <4>3. s # {} => f[s \ {Pick(s)}] = Total(log, s \ {Pick(s)})
        BY <4>2
      <4> QED
        BY <4>1, <4>3 DEF Step
    <3>2. f = body
      BY <3>1
    <3> QED
      BY <3>2 DEF IsTotal
  <2>3. ASSUME NEW g, IsTotal(g, log, T), NEW s \in SUBSET T
        PROVE  /\ s # T => g[s] = Total(log, s)
               /\ g[s] = Step(log, s)
    <3>1. ASSUME NEW U \in SUBSET T, U # T
          PROVE  g[U] = Total(log, U)
      <4> DEFINE h == [x \in SUBSET U |-> g[x]]
      <4>1. IsTotal(h, log, U)
        <5>1. \A x \in SUBSET U : h[x] = IF x = {} THEN 0 ELSE log[Pick(x)].value + h[x \ {Pick(x)}]
          BY <2>3 DEF IsTotal
        <5> QED
          BY <5>1 DEF IsTotal
      <4>2. h[U] = Total(log, U)
        BY <2>1, <3>1, <4>1 DEF Holds
      <4> QED
        BY <4>2
    <3>2. s # {} => s \ {Pick(s)} \in SUBSET T /\ s \ {Pick(s)} # T
      BY PickIsIn
    <3>3. g[s] = IF s = {} THEN 0 ELSE log[Pick(s)].value + g[s \ {Pick(s)}]
      BY <2>3 DEF IsTotal
    <3> QED
      BY <3>1, <3>2, <3>3 DEF Step
  <2>4. Total(log, T) = Step(log, T)
    <3>1. IsTotal(CHOOSE g : IsTotal(g, log, T), log, T)
      BY <2>2
    <3> QED
      BY <2>3, <3>1, TotalUnfolded
  <2>5. ASSUME NEW g, IsTotal(g, log, T), NEW s \in SUBSET T
        PROVE  g[s] = Total(log, s)
    BY <2>3, <2>4, <2>5
  <2> QED
    BY <1>1, <2>4, <2>5 DEF Holds, Q
<1>2. S \in Q
  <2> HIDE DEF Q
  <2> QED
    BY <1>1, SetInduction
<1> QED
  BY <1>2

-----------------------------------------------------------------------------
(* What the proofs about results use. *)

LEMMA TotalOfNone == \A log : Total(log, {}) = 0
  BY TotalStep, FS_EmptySet DEF Step

\* A sum of integers is an integer.
LEMMA TotalType ==
  ASSUME NEW log, NEW S, IsFiniteSet(S), \A o \in S : log[o].value \in Int
  PROVE  Total(log, S) \in Int
<1> DEFINE Q == {T \in SUBSET S : Total(log, T) \in Int}
<1>1. ASSUME NEW T \in SUBSET S, \A U \in SUBSET T : U # T => U \in Q
      PROVE  T \in Q
  <2>1. IsFiniteSet(T)
    BY FS_Subset
  <2>2. T # {} => Pick(T) \in T /\ T \ {Pick(T)} \in SUBSET T /\ T \ {Pick(T)} # T
    BY PickIsIn
  <2>3. T # {} => Total(log, T \ {Pick(T)}) \in Int
    BY <1>1, <2>2
  <2> QED
    BY <2>1, <2>2, <2>3, TotalStep DEF Step
<1> HIDE DEF Q
<1>2. S \in Q
  BY <1>1, SetInduction
<1> QED
  BY <1>2 DEF Q

\* Any element may be taken out first.
LEMMA TotalRemoved ==
  ASSUME NEW log, NEW S, IsFiniteSet(S), \A o \in S : log[o].value \in Int, NEW e \in S
  PROVE  Total(log, S) = log[e].value + Total(log, S \ {e})
<1> DEFINE Q == {T \in SUBSET S : \A x \in T : Total(log, T) = log[x].value + Total(log, T \ {x})}
<1>1. ASSUME NEW T \in SUBSET S, \A U \in SUBSET T : U # T => U \in Q
      PROVE  T \in Q
  <2> SUFFICES ASSUME NEW x \in T PROVE Total(log, T) = log[x].value + Total(log, T \ {x})
    OBVIOUS
  <2> DEFINE y == Pick(T)
             U == T \ {y}
             V == T \ {x}
  <2>1. y \in T /\ IsFiniteSet(T)
    BY PickIsIn, FS_Subset
  <2>2. Total(log, T) = log[y].value + Total(log, U)
    BY <2>1, TotalStep DEF Step
  <2> HIDE DEF y
  <2>3. CASE x # y
    <3>1. U \in Q /\ V \in Q /\ x \in U /\ y \in V
      BY <1>1, <2>1, <2>3
    <3>2. U \ {x} = V \ {y}
      OBVIOUS
    <3>3. /\ Total(log, U) = log[x].value + Total(log, U \ {x})
          /\ Total(log, V) = log[y].value + Total(log, V \ {y})
      BY <3>1
    <3>4. Total(log, U \ {x}) \in Int /\ log[x].value \in Int /\ log[y].value \in Int
      <4>1. IsFiniteSet(U \ {x}) /\ U \ {x} \in SUBSET S
        BY <2>1, FS_RemoveElement
      <4> QED
        BY <2>1, <4>1, TotalType
    <3>5. Total(log, U \ {x}) = Total(log, V \ {y})
      BY <3>2, Zenon
    <3> HIDE DEF U, V, Q
    <3>6. Total(log, T) = log[x].value + Total(log, V)
      BY <2>2, <3>3, <3>4, <3>5
    <3> QED
      BY <3>6 DEF V
  <2> QED
    BY <2>2, <2>3
<1> HIDE DEF Q
<1>2. S \in Q
  BY <1>1, SetInduction
<1> QED
  BY <1>2 DEF Q

\* One record more.
LEMMA TotalAdded ==
  ASSUME NEW log, NEW S, IsFiniteSet(S), \A o \in S : log[o].value \in Int,
         NEW e, e \notin S, log[e].value \in Int
  PROVE  Total(log, S \cup {e}) = Total(log, S) + log[e].value
<1>1. IsFiniteSet(S \cup {e}) /\ (S \cup {e}) \ {e} = S
  BY FS_AddElement
<1>2. Total(log, S) \in Int
  BY TotalType
<1> DEFINE U == S \cup {e}
<1>3. Total(log, U) = log[e].value + Total(log, U \ {e})
  BY <1>1, TotalRemoved
<1>4. Total(log, U \ {e}) = Total(log, S)
  BY <1>1, Zenon
<1> QED
  BY <1>2, <1>3, <1>4
=============================================================================
