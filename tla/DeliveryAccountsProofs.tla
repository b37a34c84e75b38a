------------------------ MODULE DeliveryAccountsProofs ------------------------
(***************************************************************************)
(* What the tanks add up to, proved for any number of tanks, orders and    *)
(* requests served at once: the stock of a pool against the recorded       *)
(* events, and, for callers that keep to the order of the state machines,  *)
(* its reservations against the orders.  Both follow from one idea: the    *)
(* uncommitted rows of a request differ from the committed ones by the     *)
(* lines it has crossed off.  The sums the accounts are built from come    *)
(* first; the library defines them by a recursion over a chosen element,   *)
(* and what is used of them is shown here by induction on subsets.         *)
(***************************************************************************)
EXTENDS DeliveryDiscipline, DeliveryWorkflowProofs, FiniteSetTheorems,
        WellFoundedInduction

-----------------------------------------------------------------------------
(* Sums. *)

Chosen(s) == CHOOSE x \in s : TRUE
Rest(s) == s \ {Chosen(s)}
Unfolded(f, g, s) == IF s = {} THEN 0 ELSE f[Chosen(s)] + g[Rest(s)]
Unfolds(f, S, g) == g = [s \in SUBSET S |-> Unfolded(f, g, s)]
SumsOf(f, S) == CHOOSE g : Unfolds(f, S, g)

LEMMA SumIsChosen ==
  ASSUME NEW f, NEW S
  PROVE  SumFunctionOnSet(f, S) = SumsOf(f, S)[S]
  BY DEF SumFunctionOnSet, FoldFunctionOnSet, MapThenFoldSet, SumsOf, Unfolds, Unfolded,
     Chosen, Rest

LEMMA SubsetInduction ==
  ASSUME NEW S, IsFiniteSet(S), NEW G,
         \A T \in SUBSET S : (\A U \in SUBSET T : U # T => U \in G) => T \in G
  PROVE  S \in G
<1> DEFINE R == StrictSubsetOrdering(S)
           Bad == (SUBSET S) \ G
<1>1. IsWellFoundedOn(R, SUBSET S)
  <2>1. IsWellFoundedOn(R, FiniteSubsetsOf(S))
    BY FS_StrictSubsetOrderingWellFounded
  <2>2. FiniteSubsetsOf(S) = SUBSET S
    BY FS_FiniteSubsetsOfFinite
  <2> HIDE DEF R
  <2> QED
    BY <2>1, <2>2
<1>2. \A T \in SUBSET S : \A U \in SUBSET T : U # T => <<U, T>> \in R
  BY DEF StrictSubsetOrdering
<1> HIDE DEF R
<1>3. Bad \subseteq SUBSET S
  OBVIOUS
<1>4. CASE Bad # {}
  <2>1. \E T \in Bad : \A U \in Bad : ~ (<<U, T>> \in R)
    <3> HIDE DEF Bad
    <3> QED
      BY <1>1, <1>3, <1>4, WFMin
  <2>2. PICK T \in Bad : \A U \in Bad : ~ (<<U, T>> \in R)
    BY <2>1
  <2>3. T \in SUBSET S /\ T \notin G
    OBVIOUS
  <2>4. ASSUME NEW U \in SUBSET T, U # T PROVE U \in G
    <3>1. <<U, T>> \in R
      BY <1>2, <2>3, <2>4
    <3>2. U \notin Bad
      BY <2>2, <3>1
    <3>3. U \in SUBSET S
      BY <2>3
    <3> QED
      BY <3>2, <3>3
  <2> QED
    BY <2>3, <2>4
<1>5. CASE Bad = {}
  BY <1>5
<1> QED
  BY <1>4, <1>5

LEMMA RestIsSmaller ==
  ASSUME NEW s, s # {}
  PROVE  /\ Chosen(s) \in s /\ Rest(s) \in SUBSET s /\ Rest(s) # s
         /\ \A S : s \in SUBSET S => Rest(s) \in SUBSET S /\ Rest(s) # S
  BY DEF Chosen, Rest

LEMMA SumsAgree ==
  ASSUME NEW f, NEW T, NEW U \in SUBSET T, IsFiniteSet(U), NEW g, NEW h,
         Unfolds(f, T, g), Unfolds(f, U, h)
  PROVE  g[U] = h[U]
<1> DEFINE G == {s \in SUBSET U : g[s] = h[s]}
<1>1. ASSUME NEW s \in SUBSET U, \A r \in SUBSET s : r # s => r \in G
      PROVE  s \in G
  <2>1. g[s] = Unfolded(f, g, s) /\ h[s] = Unfolded(f, h, s)
    BY DEF Unfolds
  <2>2. s # {} => g[Rest(s)] = h[Rest(s)]
    BY <1>1, RestIsSmaller
  <2> QED
    BY <2>1, <2>2 DEF Unfolded
<1> HIDE DEF G
<1>2. U \in G
  BY <1>1, SubsetInduction
<1> QED
  BY <1>2 DEF G

LEMMA SumsExist ==
  ASSUME NEW f, NEW S, IsFiniteSet(S)
  PROVE  Unfolds(f, S, SumsOf(f, S))
<1> DEFINE G == {T \in SUBSET S : Unfolds(f, T, SumsOf(f, T))}
<1>1. ASSUME NEW T \in SUBSET S, \A U \in SUBSET T : U # T => U \in G
      PROVE  T \in G
  <2> DEFINE V(U) == SumsOf(f, U)[U]
             g == [s \in SUBSET T |->
                      IF s = {} THEN 0 ELSE f[Chosen(s)] + V(Rest(s))]
  <2>1. ASSUME NEW U \in SUBSET T, U # T
        PROVE  V(U) = IF U = {} THEN 0 ELSE f[Chosen(U)] + V(Rest(U))
    <3>1. Unfolds(f, U, SumsOf(f, U))
      BY <1>1, <2>1
    <3>2. V(U) = Unfolded(f, SumsOf(f, U), U)
      BY <3>1 DEF Unfolds
    <3>3. CASE U # {}
      <4>1. Rest(U) \in SUBSET U /\ Rest(U) \in SUBSET T /\ Rest(U) # T
        BY <3>3, RestIsSmaller
      <4>2. Unfolds(f, Rest(U), SumsOf(f, Rest(U)))
        BY <1>1, <4>1
      <4>3. IsFiniteSet(Rest(U))
        BY <4>1, FS_Subset
      <4>4. SumsOf(f, U)[Rest(U)] = V(Rest(U))
        BY <3>1, <4>1, <4>2, <4>3, SumsAgree
      <4> QED
        BY <3>2, <3>3, <4>4 DEF Unfolded
    <3>4. CASE U = {}
      BY <3>2, <3>4 DEF Unfolded
    <3> QED
      BY <3>3, <3>4
  <2>2. ASSUME NEW s \in SUBSET T PROVE g[s] = Unfolded(f, g, s)
    <3>1. CASE s # {}
      <4>1. Rest(s) \in SUBSET T /\ Rest(s) # T
        BY <3>1, RestIsSmaller
      <4>2. V(Rest(s)) = g[Rest(s)]
        <5> HIDE DEF V
        <5> QED
          BY <2>1, <4>1
      <4>3. g[s] = f[Chosen(s)] + V(Rest(s))
        <5> HIDE DEF V
        <5> QED
          BY <3>1
      <4> QED
        BY <3>1, <4>2, <4>3 DEF Unfolded
    <3>2. CASE s = {}
      BY <3>2 DEF Unfolded
    <3> QED
      BY <3>1, <3>2
  <2>3. Unfolds(f, T, g)
    <3>1. \A s \in SUBSET T : g[s] = Unfolded(f, g, s)
      BY <2>2
    <3>2. g = [s \in SUBSET T |-> g[s]]
      OBVIOUS
    <3> HIDE DEF g
    <3> QED
      BY <3>1, <3>2 DEF Unfolds
  <2> HIDE DEF g
  <2> QED
    BY <2>3 DEF SumsOf
<1> HIDE DEF G
<1>2. S \in G
  BY <1>1, SubsetInduction
<1> QED
  BY <1>2 DEF G

LEMMA SumUnfolds ==
  ASSUME NEW f, NEW S, IsFiniteSet(S)
  PROVE  SumFunctionOnSet(f, S) =
           IF S = {} THEN 0 ELSE f[Chosen(S)] + SumFunctionOnSet(f, Rest(S))
<1>1. SumsOf(f, S)[S] = Unfolded(f, SumsOf(f, S), S)
  <2>1. Unfolds(f, S, SumsOf(f, S))
    BY SumsExist
  <2> HIDE DEF SumsOf
  <2> QED
    BY <2>1 DEF Unfolds
<1>2. CASE S # {}
  <2>1. Rest(S) \in SUBSET S /\ IsFiniteSet(Rest(S))
    BY <1>2, RestIsSmaller, FS_Subset
  <2>2. SumsOf(f, S)[Rest(S)] = SumsOf(f, Rest(S))[Rest(S)]
    BY <2>1, SumsExist, SumsAgree
  <2> QED
    BY <1>1, <1>2, <2>2, SumIsChosen DEF Unfolded
<1>3. CASE S = {}
  BY <1>1, <1>3, SumIsChosen DEF Unfolded
<1> QED
  BY <1>2, <1>3

LEMMA SumOfNothing == \A f : SumFunctionOnSet(f, {}) = 0
  BY SumUnfolds, FS_EmptySet

LEMMA SumIsInteger ==
  ASSUME NEW S, IsFiniteSet(S), NEW f, \A x \in S : f[x] \in Int
  PROVE  SumFunctionOnSet(f, S) \in Int
<1> DEFINE G == {T \in SUBSET S : SumFunctionOnSet(f, T) \in Int}
<1>1. ASSUME NEW T \in SUBSET S, \A U \in SUBSET T : U # T => U \in G
      PROVE  T \in G
  <2>1. IsFiniteSet(T)
    BY FS_Subset
  <2>2. CASE T # {}
    <3>1. Chosen(T) \in S /\ Rest(T) \in G
      BY <1>1, <2>2, RestIsSmaller
    <3> QED
      BY <2>1, <2>2, <3>1, SumUnfolds
  <2> QED
    BY <2>2, SumOfNothing
<1> HIDE DEF G
<1>2. S \in G
  BY <1>1, SubsetInduction
<1> QED
  BY <1>2 DEF G

LEMMA SumTakesOut ==
  ASSUME NEW S, IsFiniteSet(S), NEW f, \A x \in S : f[x] \in Int, NEW x \in S
  PROVE  SumFunctionOnSet(f, S) = f[x] + SumFunctionOnSet(f, S \ {x})
<1> DEFINE Sum(T) == SumFunctionOnSet(f, T)
           G == {T \in SUBSET S : \A y \in T : Sum(T) = f[y] + Sum(T \ {y})}
<1>0. ASSUME NEW T \in SUBSET S PROVE Sum(T) \in Int /\ IsFiniteSet(T)
  BY FS_Subset, SumIsInteger
<1>1. ASSUME NEW T \in SUBSET S, \A U \in SUBSET T : U # T => U \in G
      PROVE  T \in G
  <2> SUFFICES ASSUME NEW y \in T PROVE Sum(T) = f[y] + Sum(T \ {y})
    OBVIOUS
  <2> DEFINE c == Chosen(T)
  <2>1. c \in T /\ Rest(T) = T \ {c}
    BY RestIsSmaller DEF Rest
  <2>2. Sum(T) = f[c] + Sum(T \ {c})
    BY <1>0, <2>1, SumUnfolds
  <2> HIDE DEF c
  <2>3. CASE y # c
    <3>1. T \ {c} \in G /\ T \ {y} \in G
      BY <1>1, <2>1
    <3>2. y \in T \ {c} /\ c \in T \ {y}
      BY <2>1, <2>3
    <3> HIDE DEF Sum
    <3>3. /\ Sum(T \ {c}) = f[y] + Sum((T \ {c}) \ {y})
          /\ Sum(T \ {y}) = f[c] + Sum((T \ {y}) \ {c})
      BY <3>1, <3>2
    <3>4. Sum((T \ {c}) \ {y}) = Sum((T \ {y}) \ {c})
      <4>1. (T \ {c}) \ {y} = (T \ {y}) \ {c}
        OBVIOUS
      <4> QED
        BY <4>1
    <3>5. Sum((T \ {y}) \ {c}) \in Int /\ f[c] \in Int /\ f[y] \in Int
      BY <1>0, <2>1
    <3> QED
      BY <2>2, <3>3, <3>4, <3>5
  <2> HIDE DEF Sum
  <2> QED
    BY <2>2, <2>3
<1> HIDE DEF G
<1>2. S \in G
  BY <1>1, SubsetInduction
<1> QED
  BY <1>2 DEF G

LEMMA SumsOfEquals ==
  ASSUME NEW S, IsFiniteSet(S), NEW f, NEW g, \A x \in S : f[x] = g[x]
  PROVE  SumFunctionOnSet(f, S) = SumFunctionOnSet(g, S)
<1> DEFINE G == {T \in SUBSET S : SumFunctionOnSet(f, T) = SumFunctionOnSet(g, T)}
<1>1. ASSUME NEW T \in SUBSET S, \A U \in SUBSET T : U # T => U \in G
      PROVE  T \in G
  <2>1. IsFiniteSet(T)
    BY FS_Subset
  <2>2. CASE T # {}
    <3>1. Chosen(T) \in S /\ Rest(T) \in G
      BY <1>1, <2>2, RestIsSmaller
    <3> QED
      BY <2>1, <2>2, <3>1, SumUnfolds
  <2> QED
    BY <2>2, SumOfNothing
<1> HIDE DEF G
<1>2. S \in G
  BY <1>1, SubsetInduction
<1> QED
  BY <1>2 DEF G

LEMMA SumOfSums ==
  ASSUME NEW S, IsFiniteSet(S), NEW f, NEW g, NEW h,
         \A x \in S : f[x] \in Int /\ g[x] \in Int /\ h[x] = f[x] + g[x]
  PROVE  SumFunctionOnSet(h, S) = SumFunctionOnSet(f, S) + SumFunctionOnSet(g, S)
<1> DEFINE G == {T \in SUBSET S : SumFunctionOnSet(h, T)
                                    = SumFunctionOnSet(f, T) + SumFunctionOnSet(g, T)}
<1>1. ASSUME NEW T \in SUBSET S, \A U \in SUBSET T : U # T => U \in G
      PROVE  T \in G
  <2>1. IsFiniteSet(T)
    BY FS_Subset
  <2>2. CASE T # {}
    <3>1. Chosen(T) \in S /\ Rest(T) \in G /\ Rest(T) \in SUBSET S
      BY <1>1, <2>2, RestIsSmaller
    <3>2. IsFiniteSet(Rest(T))
      BY <3>1, FS_Subset
    <3>3. SumFunctionOnSet(f, Rest(T)) \in Int /\ SumFunctionOnSet(g, Rest(T)) \in Int
      BY <3>1, <3>2, SumIsInteger
    <3>4. /\ SumFunctionOnSet(f, T) = f[Chosen(T)] + SumFunctionOnSet(f, Rest(T))
          /\ SumFunctionOnSet(g, T) = g[Chosen(T)] + SumFunctionOnSet(g, Rest(T))
          /\ SumFunctionOnSet(h, T) = h[Chosen(T)] + SumFunctionOnSet(h, Rest(T))
      BY <2>1, <2>2, SumUnfolds
    <3> QED
      BY <3>1, <3>3, <3>4
  <2>3. CASE T = {}
    BY <2>3, SumOfNothing
  <2> QED
    BY <2>2, <2>3
<1> HIDE DEF G
<1>2. S \in G
  BY <1>1, SubsetInduction
<1> QED
  BY <1>2 DEF G

LEMMA SumOfDisjoint ==
  ASSUME NEW S, NEW T, IsFiniteSet(S), IsFiniteSet(T), S \cap T = {},
         NEW f, \A x \in S \union T : f[x] \in Int
  PROVE  SumFunctionOnSet(f, S \union T)
           = SumFunctionOnSet(f, S) + SumFunctionOnSet(f, T)
<1> DEFINE G == {R \in SUBSET S : SumFunctionOnSet(f, R \union T)
                                    = SumFunctionOnSet(f, R) + SumFunctionOnSet(f, T)}
<1>0. SumFunctionOnSet(f, T) \in Int
  BY SumIsInteger
<1>1. ASSUME NEW R \in SUBSET S, \A U \in SUBSET R : U # R => U \in G
      PROVE  R \in G
  <2>1. CASE R # {}
    <3>1. PICK x \in R : TRUE
      BY <2>1
    <3>2. R \ {x} \in G
      BY <1>1, <3>1
    <3>3. SumFunctionOnSet(f, (R \union T) \ {x}) = SumFunctionOnSet(f, (R \ {x}) \union T)
      <4>1. (R \union T) \ {x} = (R \ {x}) \union T
        BY <3>1
      <4> QED
        BY <4>1
    <3>4. IsFiniteSet(R) /\ IsFiniteSet(R \ {x}) /\ IsFiniteSet(R \union T)
      BY FS_Subset, FS_Union
    <3>5. /\ SumFunctionOnSet(f, R) = f[x] + SumFunctionOnSet(f, R \ {x})
          /\ SumFunctionOnSet(f, R \union T) = f[x] + SumFunctionOnSet(f, (R \union T) \ {x})
      BY <3>1, <3>4, SumTakesOut
    <3>6. f[x] \in Int /\ SumFunctionOnSet(f, R \ {x}) \in Int
      BY <3>1, <3>4, SumIsInteger
    <3>7. SumFunctionOnSet(f, (R \ {x}) \union T)
            = SumFunctionOnSet(f, R \ {x}) + SumFunctionOnSet(f, T)
      BY <3>2
    <3>8. SumFunctionOnSet(f, R \union T)
            = SumFunctionOnSet(f, R) + SumFunctionOnSet(f, T)
      BY <1>0, <3>3, <3>5, <3>6, <3>7
    <3> QED
      BY <3>8
  <2>2. CASE R = {}
    BY <1>0, <2>2, SumOfNothing
  <2> QED
    BY <2>1, <2>2
<1> HIDE DEF G
<1>2. S \in G
  BY <1>1, SubsetInduction
<1> QED
  BY <1>2 DEF G

LEMMA SumAtLeast ==
  ASSUME NEW S, IsFiniteSet(S), NEW f, \A x \in S : f[x] \in Nat, NEW T \in SUBSET S
  PROVE  /\ SumFunctionOnSet(f, T) \in Nat /\ SumFunctionOnSet(f, S) \in Nat
         /\ SumFunctionOnSet(f, T) <= SumFunctionOnSet(f, S)
<1> DEFINE G == {R \in SUBSET S : SumFunctionOnSet(f, R) \in Nat}
<1>1. ASSUME NEW U \in SUBSET S, \A V \in SUBSET U : V # U => V \in G
      PROVE  U \in G
  <2>1. IsFiniteSet(U)
    BY FS_Subset
  <2>2. CASE U # {}
    <3>1. Chosen(U) \in S /\ Rest(U) \in G
      BY <1>1, <2>2, RestIsSmaller
    <3> QED
      BY <2>1, <2>2, <3>1, SumUnfolds
  <2> QED
    BY <2>2, SumOfNothing
<1> HIDE DEF G
<1>2. \A R \in SUBSET S : R \in G
  <2> SUFFICES ASSUME NEW R \in SUBSET S PROVE R \in G
    OBVIOUS
  <2>1. \A U \in SUBSET R : (\A V \in SUBSET U : V # U => V \in G) => U \in G
    BY <1>1
  <2> QED
    BY <2>1, FS_Subset, SubsetInduction
<1>3. \A R \in SUBSET S : SumFunctionOnSet(f, R) \in Nat
  BY <1>2 DEF G
<1>4. SumFunctionOnSet(f, T \union (S \ T))
        = SumFunctionOnSet(f, T) + SumFunctionOnSet(f, S \ T)
  <2>1. IsFiniteSet(T) /\ IsFiniteSet(S \ T)
    BY FS_Subset
  <2>2. T \cap (S \ T) = {} /\ \A x \in T \union (S \ T) : f[x] \in Int
    OBVIOUS
  <2> QED
    BY <2>1, <2>2, SumOfDisjoint
<1>5. T \union (S \ T) = S /\ S \ T \in SUBSET S
  OBVIOUS
<1> QED
  BY <1>3, <1>4, <1>5

\* A sum changes by what changes at one point.
LEMMA SumChangesAt ==
  ASSUME NEW S, IsFiniteSet(S), NEW f, NEW g, NEW x \in S,
         \A y \in S : f[y] \in Int /\ g[y] \in Int,
         \A y \in S \ {x} : g[y] = f[y]
  PROVE  SumFunctionOnSet(g, S) = SumFunctionOnSet(f, S) + (g[x] - f[x])
<1>1. IsFiniteSet(S \ {x})
  BY FS_Subset
<1>2. SumFunctionOnSet(g, S \ {x}) = SumFunctionOnSet(f, S \ {x})
  BY <1>1, SumsOfEquals
<1>3. SumFunctionOnSet(f, S \ {x}) \in Int
  BY <1>1, SumIsInteger
<1>4. /\ SumFunctionOnSet(f, S) = f[x] + SumFunctionOnSet(f, S \ {x})
      /\ SumFunctionOnSet(g, S) = g[x] + SumFunctionOnSet(g, S \ {x})
  BY SumTakesOut
<1>5. f[x] \in Int /\ g[x] \in Int
  OBVIOUS
<1> QED
  BY <1>2, <1>3, <1>4, <1>5

LEMMA SumOfZeros ==
  ASSUME NEW S, IsFiniteSet(S), NEW f, \A x \in S : f[x] = 0
  PROVE  SumFunctionOnSet(f, S) = 0
<1>1. SumFunctionOnSet(f, S) = SumFunctionOnSet(f, S) + SumFunctionOnSet(f, S)
  BY SumOfSums
<1> QED
  BY <1>1, SumIsInteger

-----------------------------------------------------------------------------
(* Volumes of lines. *)

LEMMA VolumeIsNat ==
  ASSUME NEW lines \in SUBSET Line, NEW p
  PROVE  /\ VolumeOf(lines, p) \in Nat
         /\ IsFiniteSet({l \in lines : LinePool[l] = p})
<1> DEFINE S == {l \in lines : LinePool[l] = p}
<1>1. S \in SUBSET Line /\ IsFiniteSet(Line) /\ \A l \in Line : LineVolume[l] \in Nat
  BY ConstantTypes, RowsAreFinite
<1> HIDE DEF S
<1>2. IsFiniteSet(S) /\ SumFunctionOnSet(LineVolume, S) \in Nat
  BY <1>1, FS_Subset, SumAtLeast
<1> QED
  BY <1>2 DEF VolumeOf, S

LEMMA NoVolume == \A p : VolumeOf({}, p) = 0
<1> SUFFICES ASSUME NEW p PROVE VolumeOf({}, p) = 0
  OBVIOUS
<1>1. {l \in {} : LinePool[l] = p} = {}
  OBVIOUS
<1> QED
  BY <1>1, SumOfNothing DEF VolumeOf

\* Crossing a line off reduces the volume of its own pool only.
LEMMA VolumeTakesOut ==
  ASSUME NEW lines \in SUBSET Line, NEW l \in lines, NEW p
  PROVE  VolumeOf(lines \ {l}, p) =
           VolumeOf(lines, p) - (IF LinePool[l] = p THEN LineVolume[l] ELSE 0)
<1> DEFINE S == {k \in lines : LinePool[k] = p}
           R == {k \in lines \ {l} : LinePool[k] = p}
<1>0. VolumeOf(lines, p) = SumFunctionOnSet(LineVolume, S)
      /\ VolumeOf(lines \ {l}, p) = SumFunctionOnSet(LineVolume, R)
  BY DEF VolumeOf
<1>1. VolumeOf(lines, p) \in Nat /\ VolumeOf(lines \ {l}, p) \in Nat
  BY VolumeIsNat
<1>2. CASE LinePool[l] = p
  <2>1. R = S \ {l} /\ l \in S
    BY <1>2
  <2>2. IsFiniteSet(S) /\ \A k \in S : LineVolume[k] \in Int
    <3>1. IsFiniteSet(S)
      BY VolumeIsNat
    <3> QED
      BY <3>1, ConstantTypes
  <2> HIDE DEF S, R
  <2>3. SumFunctionOnSet(LineVolume, S) = LineVolume[l] + SumFunctionOnSet(LineVolume, S \ {l})
    BY <2>1, <2>2, SumTakesOut
  <2>4. LineVolume[l] \in Nat
    BY ConstantTypes
  <2> QED
    BY <1>0, <1>1, <1>2, <2>1, <2>3, <2>4
<1>3. CASE LinePool[l] # p
  <2>1. R = S
    BY <1>3
  <2> QED
    BY <1>0, <1>1, <1>3, <2>1
<1> QED
  BY <1>2, <1>3

-----------------------------------------------------------------------------
(* The stock of a pool follows the events. *)

\* The lines a request has to move in the stage it is in, and what of them it
\* has moved so far.
Due(x) ==
    IF tx[x].op = "load" /\ tx[x].stage = "writing" THEN LoadedOf(tx[x].order)
    ELSE IF /\ tx[x].op = "deliver"
            /\ \/ Destination[tx[x].order] = "STATION"
               \/ Destination[tx[x].order] = "RETURN" /\ tx[x].stage = "writing"
    THEN DeliveredOf(tx[x].order) ELSE {}

Moved(x, p) ==
    IF tx[x].op = "load" THEN VolumeOf(tx[x].todo, p) - VolumeOf(Due(x), p)
    ELSE IF tx[x].op = "deliver" THEN VolumeOf(Due(x), p) - VolumeOf(tx[x].todo, p)
    ELSE 0

\* What the uncommitted rows of a request differ in from the committed ones.
Change(x) == [t \in Tank |-> IF holder[t] = x THEN dirty[t].current - tank[t].current ELSE 0]
Written(x, p) == SumFunctionOnSet(Change(x), PoolTanks(p))

UnheldAreClean == \A t \in Tank : holder[t] = Null => dirty[t] = tank[t]

TodoIsDue ==
    \A x \in Tx : tx[x].op \in {"load", "deliver"} =>
        /\ tx[x].todo \subseteq Due(x)
        /\ tx[x].stage = "reading" => tx[x].todo = {}

\* A request has written to the tanks of a pool what it has moved.
WrittenIsMoved == \A x \in Tx : \A p \in Pool : Written(x, p) = Moved(x, p)

StockSound ==
    /\ UnheldAreClean /\ TodoIsDue /\ WrittenIsMoved
    /\ IsFiniteSet(events) /\ StockMatchesEvents

LEMMA PoolTanksFinite == \A p : IsFiniteSet(PoolTanks(p)) /\ PoolTanks(p) \in SUBSET Tank
<1> SUFFICES ASSUME NEW p PROVE IsFiniteSet(PoolTanks(p)) /\ PoolTanks(p) \in SUBSET Tank
  OBVIOUS
<1>1. PoolTanks(p) \in SUBSET Tank
  BY DEF PoolTanks
<1> QED
  BY <1>1, RowsAreFinite, FS_Subset

LEMMA ChangeTyped ==
  ASSUME Typed, NEW x \in Tx
  PROVE  \A t \in Tank : Change(x)[t] \in Int
  BY DEF Change, Typed, TypeOK, Row

\* A request whose rows are what they were has written what it had written.
LEMMA WrittenKept ==
  ASSUME NEW x \in Tx, NEW p,
         \A t \in PoolTanks(p) : Change(x)'[t] = Change(x)[t]
  PROVE  Written(x, p)' = Written(x, p)
<1>1. SumFunctionOnSet(Change(x)', PoolTanks(p)) = SumFunctionOnSet(Change(x), PoolTanks(p))
  BY PoolTanksFinite, SumsOfEquals
<1> QED
  BY <1>1 DEF Written, PoolTanks

LEMMA NothingWritten ==
  ASSUME NEW x \in Tx, \A t \in Tank : holder'[t] # x
  PROVE  \A p : Written(x, p)' = 0
<1> SUFFICES ASSUME NEW p PROVE Written(x, p)' = 0
  OBVIOUS
<1>1. \A t \in PoolTanks(p) : Change(x)'[t] = 0
  BY DEF Change, PoolTanks
<1>2. SumFunctionOnSet(Change(x)', PoolTanks(p)) = 0
  BY <1>1, PoolTanksFinite, SumOfZeros
<1> QED
  BY <1>2 DEF Written, PoolTanks

\* The same request at the same point has the same lines to move.
LEMMA MovedKept ==
  ASSUME NEW x \in Tx, tx'[x] = tx[x]
  PROVE  /\ Due(x)' = Due(x)
         /\ \A p : Moved(x, p)' = Moved(x, p)
<1>1. Due(x)' = Due(x)
  BY DEF Due, LoadedOf, DeliveredOf
<1>2. \A L, p : VolumeOf(L, p)' = VolumeOf(L, p)
  BY DEF VolumeOf
<1> QED
  BY <1>1 DEF Moved, VolumeOf

LEMMA DueIsLines ==
  ASSUME Typed, NEW x \in Tx
  PROVE  Due(x) \in SUBSET Line /\ tx[x].todo \in SUBSET Line
  BY DEF Due, LoadedOf, DeliveredOf, Typed, TypeOK, Work

\* A request starts from idle, with everything it is due to move in its stage
\* still to be moved.
LEMMA StartIsDue ==
  ASSUME Typed, NEW x \in Tx, StartTx(x)
  PROVE  /\ UNCHANGED <<orderVars, tankVars, tripVars>>
         /\ \A y \in Tx \ {x} : tx'[y] = tx[y]
         /\ tx[x].op = "idle"
         /\ tx'[x].op \in {"load", "deliver"} =>
                /\ tx'[x].todo = Due(x)'
                /\ tx'[x].stage = "reading" => tx'[x].todo = {}
<1>0. UNCHANGED <<orderVars, tankVars, tripVars>> /\ \A y \in Tx \ {x} : tx'[y] = tx[y]
  BY StartKeeps
<1> USE DEF Idle
<1> PICK d \in DO :
      \/ ApproveDeliveryOrder(x, d) \/ CancelDeliveryOrder(x, d)
      \/ \E u \in Uuid : RecordLoadingCompleted(x, d, u) \/ RecordDeliveryCompleted(x, d, u)
  BY DEF StartTx
<1>1. ASSUME NEW w, Begin(x, w) PROVE tx'[x] = w /\ tx[x].op = "idle"
  BY <1>1 DEF Begin, Active, Typed, TypeOK
<1>2. CASE ApproveDeliveryOrder(x, d)
  <2> DEFINE w == [Idle EXCEPT !.op = "approve", !.stage = "writing",
                               !.order = d, !.todo = ItemsOf(d)]
  <2>1. w.op = "approve"
    OBVIOUS
  <2>2. Begin(x, w)
    BY <1>2 DEF ApproveDeliveryOrder
  <2> HIDE DEF w
  <2> QED
    BY <1>0, <1>1, <2>1, <2>2
<1>5. CASE CancelDeliveryOrder(x, d)
  <2> DEFINE w == [Idle EXCEPT !.op = "cancel", !.order = d, !.seen = doStatus[d]]
  <2>1. w.op = "cancel"
    OBVIOUS
  <2>2. Begin(x, w)
    BY <1>5 DEF CancelDeliveryOrder
  <2> HIDE DEF w
  <2> QED
    BY <1>0, <1>1, <2>1, <2>2
<1>3. CASE \E u \in Uuid : RecordLoadingCompleted(x, d, u)
  <2> PICK u \in Uuid : RecordLoadingCompleted(x, d, u)
    BY <1>3
  <2> DEFINE w == [Idle EXCEPT !.op = "load", !.order = d, !.uuid = u]
  <2>1. w.op = "load" /\ w.stage = "reading" /\ w.todo = {}
    OBVIOUS
  <2>2. Begin(x, w)
    BY DEF RecordLoadingCompleted
  <2> HIDE DEF w
  <2>3. tx'[x] = w
    BY <1>1, <2>2
  <2> QED
    BY <1>0, <1>1, <2>1, <2>2, <2>3 DEF Due
<1>4. CASE \E u \in Uuid : RecordDeliveryCompleted(x, d, u)
  <2> PICK u \in Uuid : RecordDeliveryCompleted(x, d, u)
    BY <1>4
  <2> DEFINE w == [Idle EXCEPT !.op = "deliver", !.stage = "filling", !.order = d,
                     !.uuid = u,
                     !.todo = IF Destination[d] = "STATION" THEN DeliveredOf(d) ELSE {}]
  <2>1. /\ w.op = "deliver" /\ w.stage = "filling" /\ w.order = d
        /\ w.todo = IF Destination[d] = "STATION" THEN DeliveredOf(d) ELSE {}
    OBVIOUS
  <2>2. Begin(x, w)
    BY DEF RecordDeliveryCompleted
  <2> HIDE DEF w
  <2>3. tx'[x] = w
    BY <1>1, <2>2
  <2>4. Due(x)' = w.todo
    BY <2>1, <2>3 DEF Due, DeliveredOf
  <2> QED
    BY <1>0, <1>1, <2>1, <2>2, <2>3, <2>4
<1> QED
  BY <1>2, <1>3, <1>4, <1>5

LEMMA MovedPrimed ==
  ASSUME NEW x \in Tx, NEW p
  PROVE  Moved(x, p)' =
           IF tx'[x].op = "load" THEN VolumeOf(tx'[x].todo, p) - VolumeOf(Due(x)', p)
           ELSE IF tx'[x].op = "deliver"
                THEN VolumeOf(Due(x)', p) - VolumeOf(tx'[x].todo, p)
           ELSE 0
  BY DEF Moved, VolumeOf

\* When everything due is still to be done, nothing has been moved.
LEMMA NothingMoved ==
  ASSUME Typed, Typed', NEW x \in Tx,
         tx'[x].op \in {"load", "deliver"} => tx'[x].todo = Due(x)'
  PROVE  \A p : Moved(x, p)' = 0
<1> SUFFICES ASSUME NEW p PROVE Moved(x, p)' = 0
  OBVIOUS
<1>1. tx'[x].todo \in SUBSET Line
  BY DEF Typed, TypeOK, Work
<1>2. VolumeOf(tx'[x].todo, p) \in Nat
  BY <1>1, VolumeIsNat
<1> QED
  BY <1>2, MovedPrimed

LEMMA StartStock ==
  ASSUME Typed, Typed', StockSound, NEW x \in Tx, StartTx(x)
  PROVE  StockSound'
<1>1. /\ UNCHANGED <<tank, dirty, holder, events>>
      /\ \A y \in Tx \ {x} : tx'[y] = tx[y]
      /\ tx[x].op = "idle"
      /\ tx'[x].op \in {"load", "deliver"} =>
                /\ tx'[x].todo = Due(x)'
                /\ tx'[x].stage = "reading" => tx'[x].todo = {}
  BY StartIsDue DEF tankVars, tripVars
<1>2. \A y \in Tx : \A p \in Pool : Written(y, p)' = Written(y, p)
  <2> SUFFICES ASSUME NEW y \in Tx, NEW p \in Pool PROVE Written(y, p)' = Written(y, p)
    OBVIOUS
  <2>1. Change(y)' = Change(y)
    BY <1>1 DEF Change
  <2> QED
    BY <2>1, WrittenKept
<1>3. WrittenIsMoved'
  <2> SUFFICES ASSUME NEW y \in Tx, NEW p \in Pool PROVE Written(y, p)' = Moved(y, p)'
    BY DEF WrittenIsMoved
  <2>1. Written(y, p) = Moved(y, p)
    BY DEF StockSound, WrittenIsMoved
  <2>2. CASE y # x
    BY <1>1, <1>2, <2>1, <2>2, MovedKept
  <2>3. CASE y = x
    <3>1. Moved(x, p) = 0
      BY <1>1 DEF Moved
    <3>2. Moved(x, p)' = 0
      BY <1>1, NothingMoved
    <3> QED
      BY <1>2, <2>1, <2>3, <3>1, <3>2
  <2> QED
    BY <2>2, <2>3
<1>4. TodoIsDue'
  <2> SUFFICES ASSUME NEW y \in Tx, tx'[y].op \in {"load", "deliver"}
               PROVE  /\ tx'[y].todo \subseteq Due(y)'
                      /\ tx'[y].stage = "reading" => tx'[y].todo = {}
    BY DEF TodoIsDue
  <2>1. CASE y # x
    BY <1>1, <2>1, MovedKept DEF StockSound, TodoIsDue
  <2> QED
    BY <1>1, <2>1
<1>5. StockMatchesEvents'
  BY <1>1 DEF StockSound, StockMatchesEvents, CurrentOf, StartOf, TakenOut, FilledIn,
     PoolTanks, VolumeOf, LoadedOf, FilledBy, DeliveredOf
<1> QED
  BY <1>1, <1>3, <1>4, <1>5 DEF StockSound, UnheldAreClean

\* A step that touches neither tanks nor events, and leaves every request as
\* much to move as before, keeps the books balanced.
LEMMA BooksKept ==
  ASSUME StockSound, UNCHANGED <<tank, dirty, holder, events>>,
         \A x \in Tx : \A p \in Pool : Moved(x, p)' = Moved(x, p),
         TodoIsDue'
  PROVE  StockSound'
<1>1. ASSUME NEW y \in Tx, NEW p \in Pool PROVE Written(y, p)' = Moved(y, p)'
  <2>1. Change(y)' = Change(y)
    BY DEF Change
  <2>2. Written(y, p)' = Written(y, p)
    BY <2>1, WrittenKept
  <2> QED
    BY <2>2 DEF StockSound, WrittenIsMoved
<1>2. WrittenIsMoved'
  BY <1>1 DEF WrittenIsMoved
<1>3. StockMatchesEvents'
  BY DEF StockSound, StockMatchesEvents, CurrentOf, StartOf, TakenOut, FilledIn,
     PoolTanks, VolumeOf, LoadedOf, FilledBy, DeliveredOf
<1> QED
  BY <1>2, <1>3 DEF StockSound, UnheldAreClean

LEMMA CancelUpdateStock ==
  ASSUME Typed, StockSound, NEW x \in Tx, CancelUpdate(x)
  PROVE  StockSound'
<1>1. /\ UNCHANGED <<tank, dirty, holder, events>>
      /\ tx[x].op = "cancel" /\ tx'[x].op = "cancel"
      /\ \A y \in Tx \ {x} : tx'[y] = tx[y]
  BY LockKeeps DEF CancelUpdate, tankVars, tripVars
<1>2. \A y \in Tx : \A p \in Pool : Moved(y, p)' = Moved(y, p)
  <2>1. \A p : Moved(x, p)' = 0 /\ Moved(x, p) = 0
    BY <1>1 DEF Moved
  <2> QED
    BY <1>1, <2>1, MovedKept
<1>3. TodoIsDue'
  BY <1>1, MovedKept DEF StockSound, TodoIsDue
<1> QED
  BY <1>1, <1>2, <1>3, BooksKept

LEMMA JudgeStock ==
  ASSUME Typed, StockSound, NEW x \in Tx, JudgeCompartments(x)
  PROVE  StockSound'
<1>1. /\ UNCHANGED <<tank, dirty, holder, events>>
      /\ tx[x].op = "deliver" /\ tx'[x].op = "deliver"
      /\ tx[x].stage = "filling" /\ tx'[x].stage = "reading"
      /\ tx'[x].order = tx[x].order
      /\ \A y \in Tx \ {x} : tx'[y] = tx[y]
  BY JudgeKeeps DEF JudgeCompartments, tankVars, tripVars, Typed, RequestsNamed
<1>2. tx[x].todo = {} /\ tx'[x].todo = {}
  BY DEF JudgeCompartments, Typed, TypeOK, Work
<1>3. Due(x)' = Due(x)
  BY <1>1 DEF Due, DeliveredOf
<1>4. \A y \in Tx : \A p \in Pool : Moved(y, p)' = Moved(y, p)
  <2>1. \A p : Moved(x, p)' = Moved(x, p)
    BY <1>1, <1>2, <1>3, MovedPrimed DEF Moved
  <2> QED
    BY <1>1, <2>1, MovedKept
<1>5. TodoIsDue'
  BY <1>1, <1>2, <1>3, MovedKept DEF StockSound, TodoIsDue
<1> QED
  BY <1>1, <1>4, <1>5, BooksKept

\* Taking the order's row lock is where a loading and a return delivery get
\* their lines; a station delivery has moved its own by then.
LEMMA UpdateStatusesStock ==
  ASSUME Typed, Typed', StockSound, NEW x \in Tx, UpdateStatuses(x)
  PROVE  StockSound'
<1> DEFINE d == tx[x].order
<1>1. /\ UNCHANGED <<tank, dirty, holder, events>>
      /\ tx[x].op \in {"load", "deliver"} /\ tx'[x].op = tx[x].op
      /\ tx[x].stage = "reading" /\ tx'[x].stage = "writing"
      /\ tx'[x].order = d
      /\ \A y \in Tx \ {x} : tx'[y] = tx[y]
  BY LockKeeps DEF UpdateStatuses, tankVars, tripVars
<1>2. tx[x].todo = {}
  BY <1>1 DEF StockSound, TodoIsDue
<1>3. tx'[x].todo = IF tx[x].op = "load" THEN LoadedOf(d)
                    ELSE IF Destination[d] = "RETURN" THEN DeliveredOf(d) ELSE {}
  BY DEF UpdateStatuses, Typed, TypeOK, Work
<1>4. CASE tx[x].op = "deliver" /\ Destination[d] = "STATION"
  <2>1. Due(x)' = Due(x) /\ tx'[x].todo = {}
    BY <1>1, <1>3, <1>4 DEF Due, DeliveredOf
  <2>2. \A p : Moved(x, p)' = Moved(x, p)
    BY <1>1, <1>2, <1>4, <2>1, MovedPrimed DEF Moved
  <2>3. TodoIsDue'
    BY <1>1, <1>4, <2>1, MovedKept DEF StockSound, TodoIsDue
  <2> QED
    BY <1>1, <2>2, <2>3, MovedKept, BooksKept
<1>5. CASE ~(tx[x].op = "deliver" /\ Destination[d] = "STATION")
  <2>1. Due(x) = {} /\ Due(x)' = tx'[x].todo
    BY <1>1, <1>3, <1>5 DEF Due, DeliveredOf, LoadedOf
  <2>2. \A p : Moved(x, p) = 0
    BY <1>1, <1>2, <2>1, NoVolume DEF Moved
  <2>3. \A p : Moved(x, p)' = 0
    BY <2>1, NothingMoved
  <2>4. TodoIsDue'
    BY <1>1, <2>1, MovedKept DEF StockSound, TodoIsDue
  <2> QED
    BY <1>1, <2>2, <2>3, <2>4, MovedKept, BooksKept
<1> QED
  BY <1>4, <1>5

\* One tank UPDATE moves the volume of one line, in the tank and in the books.
LEMMA WriteRowStock ==
  ASSUME Typed, Typed', StockSound, NEW x \in Tx, NEW l \in Line, NEW t \in Tank,
         NEW row \in Row, WriteRow(x, l, t, row),
         row.current - dirty[t].current =
             IF tx[x].op = "load" THEN 0 - LineVolume[l]
             ELSE IF tx[x].op = "deliver" THEN LineVolume[l] ELSE 0
  PROVE  StockSound'
<1> DEFINE gain == IF tx[x].op = "load" THEN 0 - LineVolume[l]
                   ELSE IF tx[x].op = "deliver" THEN LineVolume[l] ELSE 0
<1>1. /\ UNCHANGED <<tank, events>> /\ l \in tx[x].todo
      /\ TankPool[t] = LinePool[l] /\ holder[t] \in {Null, x}
      /\ dirty' = [dirty EXCEPT ![t] = row] /\ holder' = [holder EXCEPT ![t] = x]
      /\ tx' = [tx EXCEPT ![x].todo = @ \ {l}]
  BY DEF WriteRow, Candidates, TankFree, tripVars
<1>2. /\ tx'[x].op = tx[x].op /\ tx'[x].stage = tx[x].stage
      /\ tx'[x].order = tx[x].order /\ tx'[x].todo = tx[x].todo \ {l}
      /\ \A y \in Tx \ {x} : tx'[y] = tx[y]
  BY <1>1 DEF Typed, TypeOK, Work
<1>3. Due(x)' = Due(x)
  BY <1>2 DEF Due, LoadedOf, DeliveredOf
<1>4. UnheldAreClean'
  BY <1>1, NullIsNoValue DEF StockSound, UnheldAreClean, Typed, TypeOK
<1>5. TodoIsDue'
  BY <1>2, <1>3, MovedKept DEF StockSound, TodoIsDue
<1>6. LineVolume[l] \in Nat /\ gain \in Int
  BY ConstantTypes
<1>7. ASSUME NEW p \in Pool PROVE Moved(x, p)' =
                Moved(x, p) + (IF LinePool[l] = p THEN gain ELSE 0)
  <2>1. /\ tx[x].todo \in SUBSET Line /\ Due(x) \in SUBSET Line
    BY DueIsLines
  <2>2. VolumeOf(tx[x].todo, p) \in Nat /\ VolumeOf(Due(x), p) \in Nat
    BY <2>1, VolumeIsNat
  <2>3. VolumeOf(tx[x].todo \ {l}, p) =
           VolumeOf(tx[x].todo, p) - (IF LinePool[l] = p THEN LineVolume[l] ELSE 0)
    BY <1>1, <2>1, VolumeTakesOut
  <2> QED
    BY <1>2, <1>3, <1>6, <2>2, <2>3, MovedPrimed DEF Moved
<1>8. ASSUME NEW p \in Pool PROVE Written(x, p)' =
                Written(x, p) + (IF LinePool[l] = p THEN gain ELSE 0)
  <2>1. \A s \in Tank \ {t} : Change(x)'[s] = Change(x)[s]
    BY <1>1 DEF Change, Typed, TypeOK
  <2>2. CASE LinePool[l] = p
    <3>1. t \in PoolTanks(p) /\ PoolTanks(p) \in SUBSET Tank /\ IsFiniteSet(PoolTanks(p))
      BY <1>1, <2>2, PoolTanksFinite DEF PoolTanks
    <3>2. Change(x)'[t] = Change(x)[t] + gain
      <4>1. Change(x)[t] = dirty[t].current - tank[t].current
        <5>1. CASE holder[t] = Null
          BY <5>1, NullIsNoValue DEF StockSound, UnheldAreClean, Change, Typed, TypeOK, Row
        <5>2. CASE holder[t] = x
          BY <5>2 DEF Change
        <5> QED
          BY <1>1, <5>1, <5>2
      <4>2. Change(x)'[t] = row.current - tank[t].current
        BY <1>1 DEF Change, Typed, TypeOK
      <4>3. row.current \in Int /\ dirty[t].current \in Int /\ tank[t].current \in Int
        BY DEF Typed, TypeOK, Row
      <4> QED
        BY <1>6, <4>1, <4>2, <4>3
    <3>3. \A s \in Tank : Change(x)[s] \in Int /\ Change(x)'[s] \in Int
      BY <1>6, <2>1, <3>2, ChangeTyped
    <3>4. SumFunctionOnSet(Change(x)', PoolTanks(p))
            = SumFunctionOnSet(Change(x), PoolTanks(p)) + (Change(x)'[t] - Change(x)[t])
      <4> DEFINE S == PoolTanks(p)
                 f == Change(x)
                 g == Change(x)'
      <4>1. \A s \in S : f[s] \in Int /\ g[s] \in Int
        BY <3>1, <3>3
      <4>2. \A s \in S \ {t} : g[s] = f[s]
        BY <2>1, <3>1
      <4>3. t \in S /\ IsFiniteSet(S)
        BY <3>1
      <4> HIDE DEF S, f, g
      <4>4. SumFunctionOnSet(g, S) = SumFunctionOnSet(f, S) + (g[t] - f[t])
        BY <4>1, <4>2, <4>3, SumChangesAt
      <4> QED
        BY <4>4 DEF S, f, g
    <3>5. Written(x, p)' = SumFunctionOnSet(Change(x)', PoolTanks(p))
      BY DEF Written, PoolTanks
    <3>6. Change(x)'[t] - Change(x)[t] = gain
      BY <1>6, <3>2, <3>3
    <3> QED
      BY <2>2, <3>4, <3>5, <3>6 DEF Written
  <2>3. CASE LinePool[l] # p
    <3>1. \A s \in PoolTanks(p) : Change(x)'[s] = Change(x)[s]
      BY <1>1, <2>1, <2>3 DEF PoolTanks
    <3>2. Written(x, p) \in Int
      BY PoolTanksFinite, ChangeTyped, SumIsInteger DEF Written
    <3> QED
      BY <2>3, <3>1, <3>2, WrittenKept
  <2> QED
    BY <2>2, <2>3
<1>9. ASSUME NEW y \in Tx \ {x}, NEW p \in Pool PROVE Written(y, p)' = Written(y, p)
  <2>1. \A s \in Tank : Change(y)'[s] = Change(y)[s]
    BY <1>1, NullIsNoValue DEF Change, Typed, TypeOK
  <2> QED
    BY <2>1, WrittenKept DEF PoolTanks
<1>10. WrittenIsMoved'
  <2> SUFFICES ASSUME NEW y \in Tx, NEW p \in Pool PROVE Written(y, p)' = Moved(y, p)'
    BY DEF WrittenIsMoved
  <2>1. Written(y, p) = Moved(y, p)
    BY DEF StockSound, WrittenIsMoved
  <2>2. CASE y = x
    BY <1>7, <1>8, <2>1, <2>2
  <2>3. CASE y # x
    BY <1>2, <1>9, <2>1, <2>3, MovedKept
  <2> QED
    BY <2>2, <2>3
<1>11. StockMatchesEvents'
  BY <1>1 DEF StockSound, StockMatchesEvents, CurrentOf, StartOf, TakenOut, FilledIn,
     PoolTanks, VolumeOf, LoadedOf, FilledBy, DeliveredOf
<1> QED
  BY <1>1, <1>4, <1>5, <1>10, <1>11 DEF StockSound

LEMMA UpdateTankStock ==
  ASSUME Typed, Typed', StockSound, NEW x \in Tx, UpdateTank(x)
  PROVE  StockSound'
<1> PICK l \in Line, t \in Tank :
      \/ ReserveStorageTankVolume(x, l, t) \/ ReleaseStorageTankReservation(x, l, t)
      \/ DeductStorageTankVolume(x, l, t) \/ FillTank(x, l, t)
  BY DEF UpdateTank
<1>1. dirty[t] \in Row /\ LineVolume[l] \in Nat
  BY ConstantTypes DEF Typed, TypeOK
<1>2. CASE ReserveStorageTankVolume(x, l, t)
  <2> DEFINE row == [dirty[t] EXCEPT !.reserved = @ + LineVolume[l]]
  <2>1. row \in Row /\ row.current - dirty[t].current = 0
    BY <1>1 DEF Row
  <2>2. WriteRow(x, l, t, row) /\ tx[x].op = "approve"
    BY <1>2 DEF ReserveStorageTankVolume
  <2> HIDE DEF row
  <2> QED
    BY <2>1, <2>2, WriteRowStock
<1>3. CASE ReleaseStorageTankReservation(x, l, t)
  <2> DEFINE row == [dirty[t] EXCEPT !.reserved = Clamp(@ - LineVolume[l])]
  <2>1. row \in Row /\ row.current - dirty[t].current = 0
    BY <1>1 DEF Row, Clamp
  <2>2. WriteRow(x, l, t, row) /\ tx[x].op = "cancel"
    BY <1>3 DEF ReleaseStorageTankReservation
  <2> HIDE DEF row
  <2> QED
    BY <2>1, <2>2, WriteRowStock
<1>4. CASE DeductStorageTankVolume(x, l, t)
  <2> DEFINE row == [current  |-> dirty[t].current - LineVolume[l],
                     reserved |-> Clamp(dirty[t].reserved - LineVolume[l])]
  <2>1. row \in Row /\ row.current - dirty[t].current = 0 - LineVolume[l]
    BY <1>1 DEF Row, Clamp
  <2>2. WriteRow(x, l, t, row) /\ tx[x].op = "load"
    BY <1>4 DEF DeductStorageTankVolume
  <2> HIDE DEF row
  <2> QED
    BY <2>1, <2>2, WriteRowStock
<1>5. CASE FillTank(x, l, t)
  <2> DEFINE row == [dirty[t] EXCEPT !.current = @ + LineVolume[l]]
  <2>1. row \in Row /\ row.current - dirty[t].current = LineVolume[l]
    BY <1>1 DEF Row
  <2>2. WriteRow(x, l, t, row) /\ tx[x].op = "deliver"
    BY <1>5 DEF FillTank
  <2> HIDE DEF row
  <2> QED
    BY <2>1, <2>2, WriteRowStock
<1> QED
  BY <1>2, <1>3, <1>4, <1>5

\* However a transaction ends, it holds no row and has nothing written.
LEMMA EndStock ==
  ASSUME Typed, Typed', StockSound, NEW x \in Tx, CommitTanks(x) \/ Rollback(x)
  PROVE  UnheldAreClean' /\ TodoIsDue' /\ WrittenIsMoved'
<1>1. /\ tx'[x] = Idle /\ \A y \in Tx \ {x} : tx'[y] = tx[y]
  BY EndKeeps
<1>2. holder' = [t \in Tank |-> IF holder[t] = x THEN Null ELSE holder[t]]
  BY DEF CommitTanks, Rollback
<1>3. \A t \in Tank : holder'[t] # x
  BY <1>2, NullIsNoValue
<1>4. UnheldAreClean'
  BY <1>2 DEF CommitTanks, Rollback, StockSound, UnheldAreClean, Typed, TypeOK
<1>5. TodoIsDue'
  BY <1>1, MovedKept DEF StockSound, TodoIsDue, Idle
<1>6. ASSUME NEW y \in Tx \ {x}, NEW p \in Pool PROVE Written(y, p)' = Written(y, p)
  <2>1. \A s \in Tank : Change(y)'[s] = Change(y)[s]
    BY <1>2, NullIsNoValue DEF Change, CommitTanks, Rollback, Typed, TypeOK
  <2> QED
    BY <2>1, WrittenKept DEF PoolTanks
<1>7. ASSUME NEW y \in Tx, NEW p \in Pool PROVE Written(y, p)' = Moved(y, p)'
  <2>1. CASE y = x
    <3>1. Moved(x, p)' = 0
      BY <1>1 DEF Moved, Idle
    <3> QED
      BY <1>3, <2>1, <3>1, NothingWritten
  <2>2. CASE y # x
    BY <1>1, <1>6, <2>2, MovedKept DEF StockSound, WrittenIsMoved
  <2> QED
    BY <2>1, <2>2
<1> QED
  BY <1>4, <1>5, <1>7 DEF WrittenIsMoved

LEMMA RollbackStock ==
  ASSUME Typed, Typed', StockSound, NEW x \in Tx, Rollback(x)
  PROVE  StockSound'
<1>1. StockMatchesEvents'
  BY DEF Rollback, StockSound, StockMatchesEvents, CurrentOf, StartOf, TakenOut, FilledIn,
     PoolTanks, VolumeOf, LoadedOf, FilledBy, DeliveredOf, tripVars
<1> QED
  BY <1>1, EndStock DEF StockSound, Rollback, tripVars

\* A commit adds to each pool what the request has written there.
LEMMA CommitAdds ==
  ASSUME Typed, Typed', StockSound, NEW x \in Tx, CommitTanks(x), NEW p \in Pool
  PROVE  CurrentOf(p)' = CurrentOf(p) + Moved(x, p) /\ CurrentOf(p) \in Int
<1> DEFINE f == [t \in Tank |-> tank[t].current]
           g == Change(x)
           h == [t \in Tank |-> tank'[t].current]
           S == PoolTanks(p)
<1>1. S \in SUBSET Tank /\ IsFiniteSet(S)
  BY PoolTanksFinite
<1>2. \A t \in S : f[t] \in Int /\ g[t] \in Int /\ h[t] = f[t] + g[t]
  BY <1>1 DEF Change, CommitTanks, Typed, TypeOK, Row
<1>3. /\ CurrentOf(p) = SumFunctionOnSet(f, S) /\ Written(x, p) = SumFunctionOnSet(g, S)
      /\ CurrentOf(p)' = SumFunctionOnSet(h, S)
  BY DEF CurrentOf, Written, PoolTanks
<1> HIDE DEF f, g, h, S
<1>4. SumFunctionOnSet(h, S) = SumFunctionOnSet(f, S) + SumFunctionOnSet(g, S)
  BY <1>1, <1>2, SumOfSums
<1>5. SumFunctionOnSet(f, S) \in Int
  BY <1>1, <1>2, SumIsInteger
<1> QED
  BY <1>3, <1>4, <1>5 DEF StockSound, WrittenIsMoved

OfType(E, type) == {e \in E : e.type = type}

\* What a new event adds to the sum over the events of a type.
LEMMA EventAdds ==
  ASSUME IsFiniteSet(events), NEW e, e \notin events, events' = events \union {e},
         NEW type, NEW V, \A d \in events \union {e} : V[d] \in Int
  PROVE  SumFunctionOnSet(V, OfType(events', type)) =
           SumFunctionOnSet(V, OfType(events, type))
           + (IF e.type = type THEN V[e] ELSE 0)
<1> DEFINE S == OfType(events, type)
           R == OfType(events', type)
<1>1. IsFiniteSet(S) /\ \A d \in S : V[d] \in Int
  BY FS_Subset DEF OfType
<1>2. SumFunctionOnSet(V, S) \in Int
  <2> HIDE DEF S
  <2> QED
    BY <1>1, SumIsInteger
<1>3. CASE e.type = type
  <2>1. R = S \union {e} /\ R \ {e} = S /\ e \in R
    BY <1>3 DEF OfType
  <2>2. IsFiniteSet(R) /\ \A d \in R : V[d] \in Int
    <3>1. IsFiniteSet(S \union {e})
      BY <1>1, FS_AddElement
    <3>2. \A d \in S \union {e} : V[d] \in Int
      BY <1>1
    <3> QED
      BY <2>1, <3>1, <3>2
  <2> HIDE DEF S, R
  <2>3. SumFunctionOnSet(V, R) = V[e] + SumFunctionOnSet(V, R \ {e})
    BY <2>1, <2>2, SumTakesOut
  <2>4. V[e] \in Int
    OBVIOUS
  <2>5. SumFunctionOnSet(V, R \ {e}) = SumFunctionOnSet(V, S)
    BY <2>1
  <2>6. SumFunctionOnSet(V, R) = SumFunctionOnSet(V, S) + V[e]
    BY <1>2, <2>3, <2>4, <2>5
  <2> QED
    BY <1>3, <2>6 DEF S, R
<1>4. CASE e.type # type
  <2>1. SumFunctionOnSet(V, R) = SumFunctionOnSet(V, S)
    <3>1. R = S
      BY <1>4 DEF OfType
    <3> QED
      BY <3>1
  <2>2. SumFunctionOnSet(V, R) = SumFunctionOnSet(V, S) + 0
    <3> HIDE DEF S, R
    <3> QED
      BY <1>2, <2>1
  <2> QED
    BY <1>4, <2>2
<1> QED
  BY <1>3, <1>4

\* The recorded effect of every event is an integer.
LEMMA EffectsTyped ==
  ASSUME NEW p
  PROVE  \A d : VolumeOf(LoadedOf(d), p) \in Nat /\ VolumeOf(FilledBy(d), p) \in Nat
<1>1. \A d : LoadedOf(d) \in SUBSET Line /\ FilledBy(d) \in SUBSET Line
  BY DEF LoadedOf, FilledBy, DeliveredOf
<1> QED
  BY <1>1, VolumeIsNat

\* Recording an event takes out, or fills in, what it says and no more.
LEMMA EventsAddUp ==
  ASSUME IsFiniteSet(events), NEW e, e \notin events, events' = events \union {e},
         NEW p \in Pool
  PROVE  /\ TakenOut(p)' = TakenOut(p) + (IF e.type = "LOADING_COMPLETED"
                                          THEN VolumeOf(LoadedOf(e.trip), p) ELSE 0)
         /\ FilledIn(p)' = FilledIn(p) + (IF e.type = "DELIVERY_COMPLETED"
                                          THEN VolumeOf(FilledBy(e.trip), p) ELSE 0)
         /\ TakenOut(p) \in Int /\ FilledIn(p) \in Int
<1> DEFINE Out == [d \in events' |-> VolumeOf(LoadedOf(d.trip), p)]
           In == [d \in events' |-> VolumeOf(FilledBy(d.trip), p)]
<1>1. \A d \in events \union {e} : Out[d] \in Int /\ In[d] \in Int
  BY EffectsTyped
<1>2. \A type : /\ IsFiniteSet(OfType(events, type))
                /\ OfType(events, type) \subseteq events /\ OfType(events', type) \subseteq events'
  BY FS_Subset DEF OfType
<1>3. TakenOut(p) = SumFunctionOnSet(Out, OfType(events, "LOADING_COMPLETED"))
  <2> DEFINE f == [d \in events |-> VolumeOf(LoadedOf(d.trip), p)]
             S == OfType(events, "LOADING_COMPLETED")
  <2>1. IsFiniteSet(S) /\ \A d \in S : f[d] = Out[d]
    BY <1>2 DEF OfType
  <2>2. TakenOut(p) = SumFunctionOnSet(f, S)
    BY DEF TakenOut, OfType
  <2> HIDE DEF f, S, Out
  <2>3. SumFunctionOnSet(f, S) = SumFunctionOnSet(Out, S)
    BY <2>1, SumsOfEquals
  <2> QED
    BY <2>2, <2>3 DEF S
<1>4. FilledIn(p) = SumFunctionOnSet(In, OfType(events, "DELIVERY_COMPLETED"))
  <2> DEFINE f == [d \in events |-> VolumeOf(FilledBy(d.trip), p)]
             S == OfType(events, "DELIVERY_COMPLETED")
  <2>1. IsFiniteSet(S) /\ \A d \in S : f[d] = In[d]
    BY <1>2 DEF OfType
  <2>2. FilledIn(p) = SumFunctionOnSet(f, S)
    BY DEF FilledIn, OfType
  <2> HIDE DEF f, S, In
  <2>3. SumFunctionOnSet(f, S) = SumFunctionOnSet(In, S)
    BY <2>1, SumsOfEquals
  <2> QED
    BY <2>2, <2>3 DEF S
<1>5. /\ TakenOut(p)' = SumFunctionOnSet(Out, OfType(events', "LOADING_COMPLETED"))
      /\ FilledIn(p)' = SumFunctionOnSet(In, OfType(events', "DELIVERY_COMPLETED"))
  BY DEF OfType, TakenOut, FilledIn, VolumeOf, LoadedOf, FilledBy, DeliveredOf
<1>6. /\ Out[e] = VolumeOf(LoadedOf(e.trip), p)
      /\ In[e] = VolumeOf(FilledBy(e.trip), p)
  OBVIOUS
<1> HIDE DEF Out, In
<1>7. /\ SumFunctionOnSet(Out, OfType(events', "LOADING_COMPLETED")) =
           SumFunctionOnSet(Out, OfType(events, "LOADING_COMPLETED"))
           + (IF e.type = "LOADING_COMPLETED" THEN Out[e] ELSE 0)
      /\ SumFunctionOnSet(In, OfType(events', "DELIVERY_COMPLETED")) =
           SumFunctionOnSet(In, OfType(events, "DELIVERY_COMPLETED"))
           + (IF e.type = "DELIVERY_COMPLETED" THEN In[e] ELSE 0)
  <2>1. ASSUME NEW V, NEW type, \A d \in events \union {e} : V[d] \in Int
        PROVE  SumFunctionOnSet(V, OfType(events', type)) =
                 SumFunctionOnSet(V, OfType(events, type)) + (IF e.type = type THEN V[e] ELSE 0)
    BY <2>1, EventAdds
  <2> QED
    BY <1>1, <2>1
<1>8. /\ SumFunctionOnSet(Out, OfType(events, "LOADING_COMPLETED")) \in Int
      /\ SumFunctionOnSet(In, OfType(events, "DELIVERY_COMPLETED")) \in Int
  <2>1. \A type : \A d \in OfType(events, type) : Out[d] \in Int /\ In[d] \in Int
    BY <1>1 DEF OfType
  <2> QED
    BY <1>2, <2>1, SumIsInteger
<1> QED
  BY <1>3, <1>4, <1>5, <1>6, <1>7, <1>8

LEMMA StartIsNat == \A p : StartOf(p) \in Nat
<1> SUFFICES ASSUME NEW p PROVE StartOf(p) \in Nat
  OBVIOUS
<1>1. \A t \in PoolTanks(p) : StartVolume[t] \in Nat
  BY ConstantTypes DEF PoolTanks
<1> QED
  BY <1>1, PoolTanksFinite, SumAtLeast DEF StartOf

LEMMA CommitOrderStock ==
  ASSUME Typed, Typed', StockSound, NEW x \in Tx, CommitApprove(x) \/ CommitCancel(x)
  PROVE  StockSound'
<1>1. /\ CommitTanks(x) /\ events' = events /\ tx[x].op \notin {"load", "deliver"}
  BY DEF CommitApprove, CommitCancel, Finished, tripVars
<1>2. ASSUME NEW p \in Pool PROVE CurrentOf(p)' = CurrentOf(p)
  <2>1. Moved(x, p) = 0
    BY <1>1 DEF Moved
  <2> QED
    BY <1>1, <2>1, CommitAdds
<1>3. StockMatchesEvents'
  BY <1>1, <1>2 DEF StockSound, StockMatchesEvents, StartOf, TakenOut, FilledIn,
     PoolTanks, VolumeOf, LoadedOf, FilledBy, DeliveredOf
<1> QED
  BY <1>1, <1>3, EndStock DEF StockSound

LEMMA CommitEventStock ==
  ASSUME Typed, Typed', EventsSound, StockSound, NEW x \in Tx,
         CommitLoading(x) \/ CommitDelivery(x)
  PROVE  StockSound'
<1> DEFINE d == tx[x].order
           type == IF tx[x].op = "load" THEN "LOADING_COMPLETED" ELSE "DELIVERY_COMPLETED"
           e == [uuid |-> tx[x].uuid, trip |-> d, type |-> type]
<1>1. /\ CommitTanks(x) /\ tx[x].op \in {"load", "deliver"}
      /\ tx[x].stage = "writing" /\ tx[x].todo = {} /\ events' = events \union {e}
  BY DEF CommitLoading, CommitDelivery, Finished, Writing, AppendEvent
<1>2. tx[x].uuid # Null /\ d \in DO
  BY <1>1, NullIsNoValue DEF Typed, RequestsNamed, Active
<1>3. e \notin events
  BY <1>2 DEF EventsSound, UuidsOwned
<1>4. e.trip = d /\ e.type = type
  OBVIOUS
<1> HIDE DEF e
<1>5. IsFiniteSet(events) /\ IsFiniteSet(events')
  BY <1>1, FS_AddElement DEF StockSound
<1>6. ASSUME NEW p \in Pool
      PROVE  CurrentOf(p)' = StartOf(p)' - TakenOut(p)' + FilledIn(p)'
  <2>1. CurrentOf(p) = StartOf(p) - TakenOut(p) + FilledIn(p)
    BY DEF StockSound, StockMatchesEvents
  <2>2. CurrentOf(p)' = CurrentOf(p) + Moved(x, p) /\ CurrentOf(p) \in Int
    BY <1>1, CommitAdds
  <2>3. /\ TakenOut(p)' = TakenOut(p) + (IF type = "LOADING_COMPLETED"
                                          THEN VolumeOf(LoadedOf(d), p) ELSE 0)
        /\ FilledIn(p)' = FilledIn(p) + (IF type = "DELIVERY_COMPLETED"
                                          THEN VolumeOf(FilledBy(d), p) ELSE 0)
        /\ TakenOut(p) \in Int /\ FilledIn(p) \in Int
    BY <1>1, <1>3, <1>4, <1>5, EventsAddUp
  <2>4. StartOf(p)' = StartOf(p) /\ StartOf(p) \in Nat
    BY StartIsNat DEF StartOf, PoolTanks
  <2>5. VolumeOf(LoadedOf(d), p) \in Nat /\ VolumeOf(FilledBy(d), p) \in Nat
    BY EffectsTyped
  <2>6. CASE tx[x].op = "load"
    <3>1. Due(x) = LoadedOf(d) /\ VolumeOf({}, p) = 0
      BY <1>1, <2>6, NoVolume DEF Due
    <3>2. Moved(x, p) = 0 - VolumeOf(LoadedOf(d), p)
      BY <1>1, <2>6, <3>1 DEF Moved
    <3>3. type = "LOADING_COMPLETED" /\ type # "DELIVERY_COMPLETED"
      BY <2>6
    <3> QED
      BY <2>1, <2>2, <2>3, <2>4, <2>5, <3>2, <3>3
  <2>7. CASE tx[x].op = "deliver"
    <3>1. Due(x) = FilledBy(d) /\ VolumeOf({}, p) = 0
      BY <1>1, <1>2, <2>7, NoVolume, ConstantTypes DEF Due, FilledBy
    <3>2. Moved(x, p) = VolumeOf(FilledBy(d), p)
      BY <1>1, <2>5, <2>7, <3>1 DEF Moved
    <3>3. type # "LOADING_COMPLETED" /\ type = "DELIVERY_COMPLETED"
      BY <2>7
    <3> QED
      BY <2>1, <2>2, <2>3, <2>4, <2>5, <3>2, <3>3
  <2> QED
    BY <1>1, <2>6, <2>7
<1>7. StockMatchesEvents'
  BY <1>6 DEF StockMatchesEvents
<1> QED
  BY <1>1, <1>5, <1>7, EndStock DEF StockSound

LEMMA StepStock == Typed /\ EventsSound /\ StockSound /\ [Next]_vars => StockSound'
<1> SUFFICES ASSUME Typed, EventsSound, StockSound, [Next]_vars PROVE StockSound'
  OBVIOUS
<1>0. Typed'
  BY StepTyped
<1>1. CASE UNCHANGED <<tank, dirty, holder, events, tx>>
  <2>1. \A x \in Tx : \A p \in Pool : Moved(x, p)' = Moved(x, p)
    BY <1>1, MovedKept
  <2>2. TodoIsDue'
    BY <1>1, MovedKept DEF StockSound, TodoIsDue
  <2> QED
    BY <1>1, <2>1, <2>2, BooksKept
<1>2. ASSUME NEW d \in DO, NEW u \in Uuid, RecordOtherEvent(d, u) PROVE StockSound'
  <2> DEFINE e == [uuid |-> u, trip |-> d, type |-> "OTHER"]
  <2>1. /\ events' = events \union {e} /\ UNCHANGED <<tank, dirty, holder, tx>>
        /\ e \notin events /\ e.type \notin {"LOADING_COMPLETED", "DELIVERY_COMPLETED"}
    BY <1>2 DEF RecordOtherEvent, UuidFree, tankVars
  <2> HIDE DEF e
  <2>2. IsFiniteSet(events) /\ IsFiniteSet(events')
    BY <2>1, FS_AddElement DEF StockSound
  <2>3. ASSUME NEW p \in Pool
        PROVE  CurrentOf(p)' = StartOf(p)' - TakenOut(p)' + FilledIn(p)'
    <3>1. TakenOut(p)' = TakenOut(p) + 0 /\ FilledIn(p)' = FilledIn(p) + 0
          /\ TakenOut(p) \in Int /\ FilledIn(p) \in Int
      BY <2>1, <2>2, EventsAddUp
    <3>2. CurrentOf(p)' = CurrentOf(p) /\ StartOf(p)' = StartOf(p)
      BY <2>1 DEF CurrentOf, StartOf, PoolTanks
    <3> QED
      BY <3>1, <3>2 DEF StockSound, StockMatchesEvents
  <2>4. ASSUME NEW y \in Tx, NEW p \in Pool PROVE Written(y, p)' = Moved(y, p)'
    <3>1. Change(y)' = Change(y)
      BY <2>1 DEF Change
    <3>2. Written(y, p)' = Written(y, p)
      BY <3>1, WrittenKept
    <3> QED
      BY <2>1, <3>2, MovedKept DEF StockSound, WrittenIsMoved
  <2>5. TodoIsDue'
    BY <2>1, MovedKept DEF StockSound, TodoIsDue
  <2>6. UnheldAreClean'
    BY <2>1 DEF StockSound, UnheldAreClean
  <2> QED
    BY <2>2, <2>3, <2>4, <2>5, <2>6 DEF StockSound, StockMatchesEvents, WrittenIsMoved
<1>3. ASSUME NEW d \in DO, OrderStep(d)
      PROVE  \/ UNCHANGED <<tank, dirty, holder, events, tx>>
             \/ \E u \in Uuid : RecordOtherEvent(d, u)
  BY <1>3 DEF OrderStep, CreateDeliveryOrder, SubmitForApproval, AssignVehicleAndDriver,
     CreateTrip, UploadTripPhoto, tripVars, tankVars
<1>4. ASSUME \/ \E l \in Line : CreateItem(l)
             \/ \E r \in Reading : \/ CreateWeightBridge(r) \/ ApproveWeightBridge(r)
                                   \/ EscalateWeightBridgeReading(r)
             \/ \E c \in Compartment, v \in Variance : MeasureCompartment(c, v)
             \/ UNCHANGED vars
      PROVE  UNCHANGED <<tank, dirty, holder, events, tx>>
  BY <1>4 DEF CreateItem, CreateWeightBridge, ApproveWeightBridge,
     EscalateWeightBridgeReading, MeasureCompartment, vars, tripVars, tankVars
<1>5. ASSUME NEW x \in Tx, StartTx(x) PROVE StockSound'
  BY <1>0, <1>5, StartStock
<1>6. ASSUME NEW x \in Tx, CancelUpdate(x) PROVE StockSound'
  BY <1>6, CancelUpdateStock
<1>7. ASSUME NEW x \in Tx, JudgeCompartments(x) PROVE StockSound'
  BY <1>7, JudgeStock
<1>8. ASSUME NEW x \in Tx, UpdateStatuses(x) PROVE StockSound'
  BY <1>0, <1>8, UpdateStatusesStock
<1>9. ASSUME NEW x \in Tx, UpdateTank(x) PROVE StockSound'
  BY <1>0, <1>9, UpdateTankStock
<1>10. ASSUME NEW x \in Tx, Commit(x) PROVE StockSound'
  BY <1>0, <1>10, CommitOrderStock, CommitEventStock DEF Commit
<1>11. ASSUME NEW x \in Tx, FailCancel(x) \/ FailUpdate(x) \/ DeadlockAbort(x) \/ Disconnect(x)
       PROVE  StockSound'
  <2>1. Rollback(x)
    BY <1>11 DEF FailCancel, FailUpdate, DeadlockAbort, Disconnect
  <2> QED
    BY <1>0, <2>1, RollbackStock
<1> QED
  BY <1>1, <1>2, <1>3, <1>4, <1>5, <1>6, <1>7, <1>8, <1>9, <1>10, <1>11 DEF Next, ContinueTx

LEMMA InitStock == Init => StockSound
<1> SUFFICES ASSUME Init PROVE StockSound
  OBVIOUS
<1>1. UnheldAreClean /\ TodoIsDue /\ IsFiniteSet(events)
  BY FS_EmptySet DEF Init, UnheldAreClean, TodoIsDue, Idle
<1>2. ASSUME NEW x \in Tx, NEW p \in Pool PROVE Written(x, p) = Moved(x, p)
  <2>1. \A t \in PoolTanks(p) : Change(x)[t] = 0
    BY NullIsNoValue DEF Init, Change, PoolTanks
  <2>2. Written(x, p) = 0
    BY <2>1, PoolTanksFinite, SumOfZeros DEF Written
  <2> QED
    BY <2>2 DEF Init, Moved, Idle
<1>3. ASSUME NEW p \in Pool PROVE CurrentOf(p) = StartOf(p) - TakenOut(p) + FilledIn(p)
  <2>1. CurrentOf(p) = StartOf(p)
    <3> DEFINE f == [t \in Tank |-> tank[t].current]
    <3>1. \A t \in PoolTanks(p) : f[t] = StartVolume[t]
      BY DEF Init, PoolTanks
    <3> HIDE DEF f
    <3>2. SumFunctionOnSet(f, PoolTanks(p)) = SumFunctionOnSet(StartVolume, PoolTanks(p))
      BY <3>1, PoolTanksFinite, SumsOfEquals
    <3> QED
      BY <3>2 DEF CurrentOf, StartOf, f
  <2>2. \A type : {e \in events : e.type = type} = {}
    BY DEF Init
  <2>3. TakenOut(p) = 0 /\ FilledIn(p) = 0
    BY <2>2, SumOfNothing DEF TakenOut, FilledIn
  <2> QED
    BY <2>1, <2>3, StartIsNat
<1> QED
  BY <1>1, <1>2, <1>3 DEF StockSound, WrittenIsMoved, StockMatchesEvents

\* The stock of every pool is what the recorded events made of it, for any
\* number of tanks, orders and requests served at once: a request's uncommitted
\* rows are exactly what its order has left the books to move, so a commit
\* publishes the whole effect of its event and a rollback none of it.
THEOREM StockFollowsEvents == Spec => []StockMatchesEvents
<1>1. StockSound => StockMatchesEvents
  BY DEF StockSound
<1> QED
  BY <1>1, InitTyped, InitEventsSound, InitStock, StepTyped, StepEventsSound, StepStock, PTL
  DEF Spec

-----------------------------------------------------------------------------
(* Callers that keep to the order of the state machines. *)

Waiting == {"APPROVED", "ASSIGNED"}

\* While requests do not overlap on an order, its status stays what the
\* request that is served on it was begun for.
StatusKept ==
    \A x \in Tx :
        LET status == doStatus[tx[x].order] IN
        /\ tx[x].op = "approve" =>
               tx[x].stage = "writing" /\ status = "PENDING_APPROVAL"
        /\ tx[x].op = "cancel" =>
               /\ status \notin {"NONE", "DISPUTED"}
               /\ status \in Waiting <=> tx[x].seen \in Waiting
        /\ tx[x].op = "load" => status = "ASSIGNED"
        /\ tx[x].op = "deliver" => status = "IN_PROGRESS"

OneEach ==
    \A x, y \in Tx : Active(x) /\ Active(y) /\ tx[x].order = tx[y].order => x = y

\* A loading takes what the order asked for.
LoadsItems ==
    \A x \in Tx : tx[x].op = "load" =>
        \A p \in Pool : VolumeOf(LoadedOf(tx[x].order), p) = VolumeOf(ItemsOf(tx[x].order), p)

InStep == StatusKept /\ OneEach /\ LoadsItems

\* What a disciplined request finds when it begins.
LEMMA StartInStep ==
  ASSUME Typed, NEW x \in Tx, StartTx(x), OneRequestPerOrder, EventsInStep
  PROVE  /\ ~Active(x)
         /\ \A y \in Tx \ {x} : Active(y) => tx[y].order # tx'[x].order
         /\ tx'[x].op \in {"approve", "cancel", "load", "deliver"}
         /\ tx'[x].op = "approve" =>
                /\ tx'[x].stage = "writing"
                /\ doStatus[tx'[x].order] = "PENDING_APPROVAL"
                /\ tx'[x].todo = ItemsOf(tx'[x].order)
         /\ tx'[x].op = "cancel" =>
                /\ doStatus[tx'[x].order] \notin {"NONE", "DISPUTED"}
                /\ tx'[x].seen = doStatus[tx'[x].order]
                /\ tx'[x].todo = {} /\ tx'[x].stage = "reading"
         /\ tx'[x].op = "load" =>
                /\ doStatus[tx'[x].order] = "ASSIGNED"
                /\ \A p \in Pool : VolumeOf(LoadedOf(tx'[x].order), p)
                                     = VolumeOf(ItemsOf(tx'[x].order), p)
                /\ tx'[x].todo = {} /\ tx'[x].stage = "reading"
         /\ tx'[x].op = "deliver" => doStatus[tx'[x].order] = "IN_PROGRESS"
<1> USE DEF Idle
<1> PICK d \in DO :
      \/ ApproveDeliveryOrder(x, d) \/ CancelDeliveryOrder(x, d)
      \/ \E u \in Uuid : RecordLoadingCompleted(x, d, u) \/ RecordDeliveryCompleted(x, d, u)
  BY DEF StartTx
<1>1. ASSUME NEW w, Begin(x, w) PROVE tx'[x] = w /\ ~Active(x)
  BY <1>1 DEF Begin, Typed, TypeOK
<1>2. ASSUME tx'[x].op # "idle", ~Active(x)
      PROVE  /\ \A y \in Tx \ {x} : Active(y) => tx[y].order # tx'[x].order
             /\ tx'[x].op = "load" =>
                    /\ doStatus[tx'[x].order] = "ASSIGNED"
                    /\ \A p \in Pool : VolumeOf(LoadedOf(tx'[x].order), p)
                                         = VolumeOf(ItemsOf(tx'[x].order), p)
             /\ tx'[x].op = "deliver" => doStatus[tx'[x].order] = "IN_PROGRESS"
             /\ tx'[x].op = "cancel" => doStatus[tx'[x].order] # "DISPUTED"
  BY <1>2 DEF OneRequestPerOrder, EventsInStep, Begins
<1>3. CASE ApproveDeliveryOrder(x, d)
  <2> DEFINE w == [Idle EXCEPT !.op = "approve", !.stage = "writing",
                               !.order = d, !.todo = ItemsOf(d)]
  <2>1. w.op = "approve" /\ w.stage = "writing" /\ w.order = d /\ w.todo = ItemsOf(d)
    OBVIOUS
  <2>2. Begin(x, w) /\ doStatus[d] = "PENDING_APPROVAL"
    BY <1>3 DEF ApproveDeliveryOrder
  <2> HIDE DEF w
  <2>3. tx'[x] = w /\ ~Active(x)
    BY <1>1, <2>2
  <2> QED
    BY <1>2, <2>1, <2>2, <2>3
<1>4. CASE CancelDeliveryOrder(x, d)
  <2> DEFINE w == [Idle EXCEPT !.op = "cancel", !.order = d, !.seen = doStatus[d]]
  <2>1. /\ w.op = "cancel" /\ w.order = d /\ w.seen = doStatus[d]
        /\ w.todo = {} /\ w.stage = "reading"
    OBVIOUS
  <2>2. Begin(x, w) /\ doStatus[d] # "NONE"
    BY <1>4 DEF CancelDeliveryOrder
  <2> HIDE DEF w
  <2>3. tx'[x] = w /\ ~Active(x)
    BY <1>1, <2>2
  <2> QED
    BY <1>2, <2>1, <2>2, <2>3
<1>5. CASE \E u \in Uuid : RecordLoadingCompleted(x, d, u)
  <2> PICK u \in Uuid : RecordLoadingCompleted(x, d, u)
    BY <1>5
  <2> DEFINE w == [Idle EXCEPT !.op = "load", !.order = d, !.uuid = u]
  <2>1. w.op = "load" /\ w.order = d /\ w.todo = {} /\ w.stage = "reading"
    OBVIOUS
  <2>2. Begin(x, w)
    BY DEF RecordLoadingCompleted
  <2> HIDE DEF w
  <2>3. tx'[x] = w /\ ~Active(x)
    BY <1>1, <2>2
  <2> QED
    BY <1>2, <2>1, <2>2, <2>3
<1>6. CASE \E u \in Uuid : RecordDeliveryCompleted(x, d, u)
  <2> PICK u \in Uuid : RecordDeliveryCompleted(x, d, u)
    BY <1>6
  <2> DEFINE w == [Idle EXCEPT !.op = "deliver", !.stage = "filling", !.order = d,
                     !.uuid = u,
                     !.todo = IF Destination[d] = "STATION" THEN DeliveredOf(d) ELSE {}]
  <2>1. w.op = "deliver" /\ w.order = d
    OBVIOUS
  <2>2. Begin(x, w)
    BY DEF RecordDeliveryCompleted
  <2> HIDE DEF w
  <2>3. tx'[x] = w /\ ~Active(x)
    BY <1>1, <2>2
  <2> QED
    BY <1>2, <2>1, <2>2, <2>3
<1> QED
  BY <1>3, <1>4, <1>5, <1>6

\* What the steps of a served request leave alone.
LEMMA ContinueKeeps ==
  ASSUME Typed, NEW x \in Tx,
         UpdateTank(x) \/ CancelUpdate(x) \/ UpdateStatuses(x) \/ JudgeCompartments(x)
  PROVE  /\ UNCHANGED <<orderVars, tripVars>>
         /\ \A y \in Tx : /\ tx'[y].op = tx[y].op /\ tx'[y].order = tx[y].order
                          /\ tx'[y].seen = tx[y].seen
                          /\ tx[y].stage = "writing" /\ tx[y].op = "approve" =>
                                 tx'[y].stage = "writing"
<1>1. CASE UpdateTank(x)
  <2>1. PICK l \in Line : /\ tx' = [tx EXCEPT ![x].todo = @ \ {l}]
                          /\ UNCHANGED <<orderVars, tripVars>>
    BY <1>1 DEF UpdateTank, ReserveStorageTankVolume, ReleaseStorageTankReservation,
       DeductStorageTankVolume, FillTank, WriteRow
  <2> QED
    BY <2>1 DEF Typed, TypeOK, Work
<1>2. CASE CancelUpdate(x) \/ UpdateStatuses(x)
  BY <1>2 DEF CancelUpdate, UpdateStatuses, Typed, TypeOK, Work
<1>3. CASE JudgeCompartments(x)
  BY <1>3 DEF JudgeCompartments, Typed, TypeOK, Work, RequestsNamed
<1> QED
  BY <1>1, <1>2, <1>3

\* Steps that write neither orders nor items, and at most end a request.
LEMMA QuietInStep ==
  ASSUME InStep, UNCHANGED <<doStatus, items>>,
         \A y \in Tx : \/ tx'[y] = Idle
                       \/ /\ tx'[y].op = tx[y].op /\ tx'[y].order = tx[y].order
                          /\ tx'[y].seen = tx[y].seen
                          /\ tx[y].stage = "writing" /\ tx[y].op = "approve" =>
                                 tx'[y].stage = "writing"
  PROVE  InStep'
<1>1. StatusKept' /\ OneEach'
  BY DEF InStep, StatusKept, OneEach, Active, Idle
<1>2. \A d : ItemsOf(d)' = ItemsOf(d) /\ LoadedOf(d)' = LoadedOf(d)
  BY DEF ItemsOf, LoadedOf
<1>3. LoadsItems'
  BY <1>2 DEF InStep, LoadsItems, Idle, VolumeOf
<1> QED
  BY <1>1, <1>3 DEF InStep

LEMMA StartKeepsInStep ==
  ASSUME Typed, InStep, NEW x \in Tx, StartTx(x), OneRequestPerOrder, EventsInStep
  PROVE  InStep'
<1>1. UNCHANGED <<doStatus, items>> /\ \A y \in Tx \ {x} : tx'[y] = tx[y]
  BY StartKeeps DEF orderVars
<1>2. StatusKept'
  <2>1. ASSUME NEW y \in Tx \ {x}
        PROVE  LET status == doStatus'[tx'[y].order] IN
               /\ tx'[y].op = "approve" =>
                      tx'[y].stage = "writing" /\ status = "PENDING_APPROVAL"
               /\ tx'[y].op = "cancel" =>
                      /\ status \notin {"NONE", "DISPUTED"}
                      /\ status \in Waiting <=> tx'[y].seen \in Waiting
               /\ tx'[y].op = "load" => status = "ASSIGNED"
               /\ tx'[y].op = "deliver" => status = "IN_PROGRESS"
    BY <1>1 DEF InStep, StatusKept
  <2>2. LET status == doStatus'[tx'[x].order] IN
        /\ tx'[x].op = "approve" =>
               tx'[x].stage = "writing" /\ status = "PENDING_APPROVAL"
        /\ tx'[x].op = "cancel" =>
               /\ status \notin {"NONE", "DISPUTED"}
               /\ status \in Waiting <=> tx'[x].seen \in Waiting
        /\ tx'[x].op = "load" => status = "ASSIGNED"
        /\ tx'[x].op = "deliver" => status = "IN_PROGRESS"
    BY <1>1, StartInStep
  <2> QED
    BY <2>1, <2>2 DEF StatusKept
<1>3. OneEach'
  BY <1>1, StartInStep DEF InStep, OneEach, Active
<1>4. \A d : ItemsOf(d)' = ItemsOf(d) /\ LoadedOf(d)' = LoadedOf(d)
  BY <1>1 DEF ItemsOf, LoadedOf
<1>5. LoadsItems'
  <2> SUFFICES ASSUME NEW y \in Tx, tx'[y].op = "load", NEW p \in Pool
               PROVE  VolumeOf(LoadedOf(tx'[y].order), p) = VolumeOf(ItemsOf(tx'[y].order), p)
    BY <1>4 DEF LoadsItems, VolumeOf
  <2>1. CASE y = x
    BY <2>1, StartInStep
  <2>2. CASE y # x
    BY <1>1, <2>2 DEF InStep, LoadsItems
  <2> QED
    BY <2>1, <2>2
<1> QED
  BY <1>2, <1>3, <1>5 DEF InStep

LEMMA OrderStepInStep ==
  ASSUME Typed, InStep, NEW d \in DO, OrderStep(d)
  PROVE  InStep'
<1>1. CASE CreateDeliveryOrder(d) \/ SubmitForApproval(d) \/ AssignVehicleAndDriver(d)
  <2>1. /\ UNCHANGED <<items, tx>>
        /\ \E s : doStatus' = [doStatus EXCEPT ![d] = s]
                  /\ <<doStatus[d], s>> \in {<<"NONE", "DRAFT">>, <<"DRAFT", "PENDING_APPROVAL">>,
                                             <<"APPROVED", "ASSIGNED">>}
    BY <1>1 DEF CreateDeliveryOrder, SubmitForApproval, AssignVehicleAndDriver
  <2>2. PICK s : doStatus' = [doStatus EXCEPT ![d] = s]
                  /\ <<doStatus[d], s>> \in {<<"NONE", "DRAFT">>, <<"DRAFT", "PENDING_APPROVAL">>,
                                             <<"APPROVED", "ASSIGNED">>}
    BY <2>1
  <2>3. \A e \in DO : doStatus'[e] = IF e = d THEN s ELSE doStatus[e]
    BY <2>2 DEF Typed, TypeOK
  <2>4. ASSUME NEW x \in Tx
        PROVE  LET status == doStatus'[tx[x].order] IN
               /\ tx[x].op = "approve" =>
                      tx[x].stage = "writing" /\ status = "PENDING_APPROVAL"
               /\ tx[x].op = "cancel" =>
                      /\ status \notin {"NONE", "DISPUTED"}
                      /\ status \in Waiting <=> tx[x].seen \in Waiting
               /\ tx[x].op = "load" => status = "ASSIGNED"
               /\ tx[x].op = "deliver" => status = "IN_PROGRESS"
    <3>1. Active(x) => tx[x].order \in DO
      BY DEF Typed, RequestsNamed
    <3>2. CASE Active(x) /\ tx[x].order = d
      BY <2>2, <2>3, <3>2 DEF InStep, StatusKept, Waiting
    <3>3. CASE Active(x) /\ tx[x].order # d
      <4>1. doStatus'[tx[x].order] = doStatus[tx[x].order]
        BY <2>3, <3>1, <3>3
      <4> QED
        BY <4>1 DEF InStep, StatusKept
    <3> QED
      BY <3>2, <3>3 DEF Active
  <2>5. StatusKept'
    BY <2>1, <2>4 DEF StatusKept
  <2>6. OneEach' /\ LoadsItems'
    BY <2>1 DEF InStep, OneEach, LoadsItems, Active, ItemsOf, LoadedOf, VolumeOf
  <2> QED
    BY <2>5, <2>6 DEF InStep
<1>2. CASE UNCHANGED <<doStatus, items, tx>>
  BY <1>2, QuietInStep
<1> QED
  BY <1>1, <1>2 DEF OrderStep, CreateTrip, UploadTripPhoto, RecordOtherEvent, orderVars

\* A commit writes the status of its own order, which no other request is on.
LEMMA CommitInStep ==
  ASSUME Typed, InStep, NEW x \in Tx, Commit(x)
  PROVE  InStep'
<1> DEFINE d == tx[x].order
<1>1. /\ CommitTanks(x) /\ Active(x) /\ d \in DO
      /\ UNCHANGED items
      /\ \E s : doStatus' = [doStatus EXCEPT ![d] = s]
  BY DEF Commit, CommitApprove, CommitCancel, CommitLoading, CommitDelivery, SetStatus,
     Finished, Writing, Typed, RequestsNamed
<1>2. tx'[x] = Idle /\ \A y \in Tx \ {x} : tx'[y] = tx[y]
  BY <1>1, EndKeeps
<1>3. \A y \in Tx \ {x} : Active(y) => doStatus'[tx[y].order] = doStatus[tx[y].order]
  BY <1>1 DEF InStep, OneEach, Typed, TypeOK, RequestsNamed
<1>4. StatusKept'
  BY <1>2, <1>3 DEF InStep, StatusKept, Active, Idle
<1>5. OneEach' /\ LoadsItems'
  BY <1>1, <1>2 DEF InStep, OneEach, LoadsItems, Active, Idle, ItemsOf, LoadedOf, VolumeOf
<1> QED
  BY <1>4, <1>5 DEF InStep

LEMMA CreateItemInStep ==
  ASSUME Typed, InStep, NEW l \in Line, CreateItem(l), ItemsWhileDraft
  PROVE  InStep'
<1>1. /\ items' = items \union {l} /\ l \notin items /\ UNCHANGED <<doStatus, tx>>
      /\ doStatus[LineOrder[l]] = "DRAFT"
  BY DEF CreateItem, ItemsWhileDraft
<1>2. \A d \in DO : doStatus[d] # "DRAFT" => ItemsOf(d)' = ItemsOf(d)
  BY <1>1 DEF ItemsOf
<1>3. StatusKept' /\ OneEach'
  BY <1>1 DEF InStep, StatusKept, OneEach, Active
<1>4. LoadsItems'
  <2> SUFFICES ASSUME NEW x \in Tx, tx[x].op = "load", NEW p \in Pool
               PROVE  (VolumeOf(LoadedOf(tx[x].order), p) = VolumeOf(ItemsOf(tx[x].order), p))'
    BY <1>1 DEF LoadsItems, LoadedOf, ItemsOf, VolumeOf
  <2>1. ItemsOf(tx[x].order)' = ItemsOf(tx[x].order)
    BY <1>1, <1>2 DEF InStep, StatusKept, Typed, RequestsNamed, Active, ItemsOf
  <2>2. VolumeOf(LoadedOf(tx[x].order), p) = VolumeOf(ItemsOf(tx[x].order), p)
    BY DEF InStep, LoadsItems
  <2> QED
    BY <1>1, <2>1, <2>2 DEF VolumeOf, LoadedOf
<1> QED
  BY <1>3, <1>4 DEF InStep

LEMMA StepInStep == Typed /\ InStep /\ [DisciplinedNext]_vars => InStep'
<1> SUFFICES ASSUME Typed, InStep, [DisciplinedNext]_vars PROVE InStep'
  OBVIOUS
<1>1. CASE UNCHANGED vars
  BY <1>1, QuietInStep DEF vars, orderVars
<1>2. CASE DisciplinedNext
  <2> USE <1>2 DEF DisciplinedNext
  <2>1. ASSUME NEW d \in DO, OrderStep(d) PROVE InStep'
    BY <2>1, OrderStepInStep
  <2>2. ASSUME NEW l \in Line, CreateItem(l) PROVE InStep'
    BY <2>2, CreateItemInStep
  <2>3. ASSUME \/ \E r \in Reading : \/ CreateWeightBridge(r) \/ ApproveWeightBridge(r)
                                     \/ EscalateWeightBridgeReading(r)
               \/ \E c \in Compartment, v \in Variance : MeasureCompartment(c, v)
        PROVE  InStep'
    <3>1. UNCHANGED <<doStatus, items, tx>>
      BY <2>3 DEF CreateWeightBridge, ApproveWeightBridge, EscalateWeightBridgeReading,
         MeasureCompartment, orderVars
    <3> QED
      BY <3>1 DEF InStep, StatusKept, OneEach, LoadsItems, Active, ItemsOf, LoadedOf, VolumeOf
  <2>4. ASSUME NEW x \in Tx, StartTx(x) PROVE InStep'
    BY <2>4, StartKeepsInStep
  <2>5. ASSUME NEW x \in Tx,
               UpdateTank(x) \/ CancelUpdate(x) \/ UpdateStatuses(x) \/ JudgeCompartments(x)
        PROVE  InStep'
    BY <2>5, ContinueKeeps, QuietInStep DEF orderVars
  <2>6. ASSUME NEW x \in Tx, Commit(x) PROVE InStep'
    BY <2>6, CommitInStep
  <2>7. ASSUME NEW x \in Tx, FailCancel(x) \/ FailUpdate(x) \/ DeadlockAbort(x) \/ Disconnect(x)
        PROVE  InStep'
    <3>1. Rollback(x)
      BY <2>7 DEF FailCancel, FailUpdate, DeadlockAbort, Disconnect
    <3>2. UNCHANGED <<doStatus, items>>
      BY <3>1 DEF Rollback, orderVars
    <3>3. tx'[x] = Idle /\ \A y \in Tx \ {x} : tx'[y] = tx[y]
      BY <3>1, EndKeeps
    <3> QED
      BY <3>2, <3>3, QuietInStep
  <2> QED
    BY <2>1, <2>2, <2>3, <2>4, <2>5, <2>6, <2>7 DEF Next, ContinueTx
<1> QED
  BY <1>1, <1>2

LEMMA InitInStep == Init => InStep
  BY DEF Init, InStep, StatusKept, OneEach, LoadsItems, Active, Idle

LEMMA DisciplinedIsNext == [DisciplinedNext]_vars => [Next]_vars
  BY DEF DisciplinedNext

\* The status of an order moves along the edges of its state machine.
Follows == \A d \in DO : doStatus[d] # doStatus'[d] =>
               <<doStatus[d], doStatus'[d]>> \in Lifecycle

LEMMA StepFollows == Typed /\ InStep /\ OrdersAgree /\ [Next]_vars => [Follows]_doStatus
<1> SUFFICES ASSUME Typed, InStep, OrdersAgree, [Next]_vars, doStatus' # doStatus
             PROVE  Follows
  OBVIOUS
<1>1. ASSUME NEW d \in DO, OrderStep(d) PROVE Follows
  BY <1>1 DEF OrderStep, CreateDeliveryOrder, SubmitForApproval, AssignVehicleAndDriver,
     CreateTrip, UploadTripPhoto, RecordOtherEvent, Follows, Lifecycle, Typed, TypeOK, orderVars
<1>2. ASSUME NEW x \in Tx, Commit(x) PROVE Follows
  <2> DEFINE d == tx[x].order
  <2>1. d \in DO /\ doStatus[d] \in OrderStatus /\ Writing(x)
    BY <1>2 DEF Commit, CommitApprove, CommitCancel, CommitLoading, CommitDelivery,
       Finished, Writing, Typed, TypeOK, RequestsNamed
  <2>2. PICK s : /\ doStatus' = [doStatus EXCEPT ![d] = s]
                 /\ \/ tx[x].op = "approve" /\ s = "APPROVED"
                    \/ tx[x].op = "cancel" /\ s = "CANCELLED"
                    \/ tx[x].op = "load" /\ s = "IN_PROGRESS"
                    \/ tx[x].op = "deliver" /\ s \in {"DELIVERED", "DISPUTED"}
    BY <1>2 DEF Commit, CommitApprove, CommitCancel, CommitLoading, CommitDelivery,
       Finished, SetStatus
  <2>3. doStatus[d] # s => <<doStatus[d], s>> \in Lifecycle
    BY <2>1, <2>2 DEF InStep, StatusKept, OrdersAgree, OrderLocked, Cancellable, Lifecycle,
       OrderStatus
  <2> QED
    BY <2>1, <2>2, <2>3 DEF Follows, Typed, TypeOK
<1>3. ASSUME NEW x \in Tx,
             \/ StartTx(x) \/ UpdateTank(x) \/ CancelUpdate(x) \/ UpdateStatuses(x)
             \/ JudgeCompartments(x) \/ FailCancel(x) \/ FailUpdate(x) \/ DeadlockAbort(x)
             \/ Disconnect(x)
      PROVE  UNCHANGED doStatus
  <2>1. CASE Rollback(x)
    BY <2>1 DEF Rollback, orderVars
  <2> QED
    BY <1>3, <2>1, StartKeeps, ContinueKeeps
    DEF orderVars, FailCancel, FailUpdate, DeadlockAbort, Disconnect
<1>4. ASSUME \/ \E l \in Line : CreateItem(l)
             \/ \E r \in Reading : \/ CreateWeightBridge(r) \/ ApproveWeightBridge(r)
                                   \/ EscalateWeightBridgeReading(r)
             \/ \E c \in Compartment, v \in Variance : MeasureCompartment(c, v)
             \/ UNCHANGED vars
      PROVE  UNCHANGED doStatus
  BY <1>4 DEF CreateItem, CreateWeightBridge, ApproveWeightBridge,
     EscalateWeightBridgeReading, MeasureCompartment, vars, orderVars
<1> QED
  BY <1>1, <1>2, <1>3, <1>4 DEF Next, ContinueTx

\* Callers that send one request per order at a time, each in its step, never
\* see an order skip a status or come back from a later one.
THEOREM OrdersFollowLifecycle == DisciplinedSpec => OrderFollowsLifecycle
<1>1. Follows <=> \A d \in DO : doStatus[d] # doStatus'[d] =>
                      <<doStatus[d], doStatus'[d]>> \in Lifecycle
  BY DEF Follows
<1>2. Init => OrdersAgree
  BY DEF Init, OrdersAgree, TripMatchesOrder, OrderLocked, Writing, Active, Idle
<1> QED
  BY <1>1, <1>2, InitTyped, InitInStep, StepTyped, StepInStep, StepAgrees, StepFollows,
     DisciplinedIsNext, PTL DEF DisciplinedSpec, OrderFollowsLifecycle

-----------------------------------------------------------------------------
(* Reservations follow the orders. *)

\* With two tanks in a pool a release can meet one that reserved nothing, and
\* what it does not clear there stays reserved in the other.
OneTankPerPool == \A s, t \in Tank : TankPool[s] = TankPool[t] => s = t

\* The lines whose reservation a request makes or clears in its stage, and how
\* far it has come with them.
Reserving(x) ==
    IF tx[x].op = "approve" THEN ItemsOf(tx[x].order)
    ELSE IF tx[x].op = "cancel" /\ tx[x].stage = "writing" /\ tx[x].seen \in Waiting
         THEN ItemsOf(tx[x].order)
    ELSE IF tx[x].op = "load" /\ tx[x].stage = "writing" THEN LoadedOf(tx[x].order)
    ELSE {}

Promising(x, p) ==
    IF tx[x].op = "approve" THEN VolumeOf(Reserving(x), p) - VolumeOf(tx[x].todo, p)
    ELSE IF tx[x].op \in {"cancel", "load"}
         THEN VolumeOf(tx[x].todo, p) - VolumeOf(Reserving(x), p)
    ELSE 0

ReservedChange(x) ==
    [t \in Tank |-> IF holder[t] = x THEN dirty[t].reserved - tank[t].reserved ELSE 0]
ReservedBy(x, p) == SumFunctionOnSet(ReservedChange(x), PoolTanks(p))

TodoIsReserved ==
    \A x \in Tx : tx[x].op \in {"approve", "cancel", "load"} =>
        tx[x].todo \subseteq Reserving(x)

ReservedIsPromised == \A x \in Tx : \A p \in Pool : ReservedBy(x, p) = Promising(x, p)

PromisesSound ==
    UnheldAreClean /\ TodoIsReserved /\ ReservedIsPromised /\ ReservationsMatchOrders

LEMMA ReservedChangeTyped ==
  ASSUME Typed, NEW x \in Tx
  PROVE  \A t \in Tank : ReservedChange(x)[t] \in Int
  BY DEF ReservedChange, Typed, TypeOK, Row

LEMMA ReservedByKept ==
  ASSUME NEW x \in Tx, NEW p,
         \A t \in PoolTanks(p) : ReservedChange(x)'[t] = ReservedChange(x)[t]
  PROVE  ReservedBy(x, p)' = ReservedBy(x, p)
<1>1. SumFunctionOnSet(ReservedChange(x)', PoolTanks(p))
        = SumFunctionOnSet(ReservedChange(x), PoolTanks(p))
  BY PoolTanksFinite, SumsOfEquals
<1> QED
  BY <1>1 DEF ReservedBy, PoolTanks

LEMMA NothingReserved ==
  ASSUME NEW x \in Tx, \A t \in Tank : holder'[t] # x
  PROVE  \A p : ReservedBy(x, p)' = 0
<1> SUFFICES ASSUME NEW p PROVE ReservedBy(x, p)' = 0
  OBVIOUS
<1>1. \A t \in PoolTanks(p) : ReservedChange(x)'[t] = 0
  BY DEF ReservedChange, PoolTanks
<1>2. SumFunctionOnSet(ReservedChange(x)', PoolTanks(p)) = 0
  BY <1>1, PoolTanksFinite, SumOfZeros
<1> QED
  BY <1>2 DEF ReservedBy, PoolTanks

LEMMA PromisingPrimed ==
  ASSUME NEW x \in Tx, NEW p
  PROVE  Promising(x, p)' =
           IF tx'[x].op = "approve" THEN VolumeOf(Reserving(x)', p) - VolumeOf(tx'[x].todo, p)
           ELSE IF tx'[x].op \in {"cancel", "load"}
                THEN VolumeOf(tx'[x].todo, p) - VolumeOf(Reserving(x)', p)
           ELSE 0
  BY DEF Promising, VolumeOf

\* The items of an order that somebody works on do not change.
LEMMA ReservingKept ==
  ASSUME NEW x \in Tx, tx'[x] = tx[x],
         Active(x) => ItemsOf(tx[x].order)' = ItemsOf(tx[x].order)
  PROVE  /\ Reserving(x)' = Reserving(x)
         /\ \A p : Promising(x, p)' = Promising(x, p)
<1>1. CASE Active(x)
  <2>1. Reserving(x)' = Reserving(x)
    BY <1>1 DEF Reserving, LoadedOf, ItemsOf
  <2> QED
    BY <2>1, PromisingPrimed DEF Promising
<1>2. CASE ~Active(x)
  <2>1. Reserving(x)' = Reserving(x)
    BY <1>2 DEF Reserving, Active
  <2> QED
    BY <2>1, PromisingPrimed DEF Promising
<1> QED
  BY <1>1, <1>2

LEMMA ReservingIsLines ==
  ASSUME Typed, NEW x \in Tx
  PROVE  Reserving(x) \in SUBSET Line /\ tx[x].todo \in SUBSET Line
  BY DEF Reserving, LoadedOf, ItemsOf, Typed, TypeOK, Work

LEMMA NothingPromised ==
  ASSUME Typed, Typed', NEW x \in Tx,
         tx'[x].op \in {"approve", "cancel", "load"} => tx'[x].todo = Reserving(x)'
  PROVE  \A p : Promising(x, p)' = 0
<1> SUFFICES ASSUME NEW p PROVE Promising(x, p)' = 0
  OBVIOUS
<1>1. tx'[x].todo \in SUBSET Line
  BY DEF Typed, TypeOK, Work
<1>2. VolumeOf(tx'[x].todo, p) \in Nat
  BY <1>1, VolumeIsNat
<1> QED
  BY <1>2, PromisingPrimed

\* A step that touches no tank, and leaves every promise as it was, keeps the
\* reservations balanced.
LEMMA PromisesKept ==
  ASSUME PromisesSound, UNCHANGED <<tank, dirty, holder>>,
         \A x \in Tx : \A p \in Pool : Promising(x, p)' = Promising(x, p),
         \A p \in Pool : Promised(p)' = Promised(p),
         TodoIsReserved'
  PROVE  PromisesSound'
<1>1. ASSUME NEW y \in Tx, NEW p \in Pool PROVE ReservedBy(y, p)' = Promising(y, p)'
  <2>1. ReservedChange(y)' = ReservedChange(y)
    BY DEF ReservedChange
  <2>2. ReservedBy(y, p)' = ReservedBy(y, p)
    BY <2>1, ReservedByKept
  <2> QED
    BY <2>2 DEF PromisesSound, ReservedIsPromised
<1>2. \A p \in Pool : ReservedOf(p)' = ReservedOf(p)
  BY DEF ReservedOf, PoolTanks
<1> QED
  BY <1>1, <1>2 DEF PromisesSound, UnheldAreClean, ReservedIsPromised, ReservationsMatchOrders

\* The promise is a sum over orders: their items are apart.
PromisedTo(W) == UNION {ItemsOf(d) : d \in W}

LEMMA PromisedGrows ==
  ASSUME Typed, NEW W \in SUBSET DO, NEW d \in DO, d \notin W, NEW p
  PROVE  /\ VolumeOf(PromisedTo(W \union {d}), p)
              = VolumeOf(PromisedTo(W), p) + VolumeOf(ItemsOf(d), p)
         /\ VolumeOf(PromisedTo(W), p) \in Nat /\ VolumeOf(ItemsOf(d), p) \in Nat
<1> DEFINE S == {l \in PromisedTo(W) : LinePool[l] = p}
           T == {l \in ItemsOf(d) : LinePool[l] = p}
           U == {l \in PromisedTo(W \union {d}) : LinePool[l] = p}
<1>1. PromisedTo(W) \in SUBSET Line /\ ItemsOf(d) \in SUBSET Line
  BY DEF PromisedTo, ItemsOf, Typed, TypeOK
<1>2. IsFiniteSet(S) /\ IsFiniteSet(T)
  BY <1>1, VolumeIsNat
<1>3. U = S \union T /\ S \cap T = {}
  BY DEF PromisedTo, ItemsOf
<1>4. \A l \in S \union T : LineVolume[l] \in Int
  BY <1>1, ConstantTypes
<1>5. /\ VolumeOf(PromisedTo(W), p) \in Nat /\ VolumeOf(ItemsOf(d), p) \in Nat
  BY <1>1, VolumeIsNat
<1>6. /\ VolumeOf(PromisedTo(W), p) = SumFunctionOnSet(LineVolume, S)
      /\ VolumeOf(ItemsOf(d), p) = SumFunctionOnSet(LineVolume, T)
      /\ VolumeOf(PromisedTo(W \union {d}), p) = SumFunctionOnSet(LineVolume, U)
  BY DEF VolumeOf
<1> HIDE DEF S, T, U
<1>7. SumFunctionOnSet(LineVolume, S \union T)
        = SumFunctionOnSet(LineVolume, S) + SumFunctionOnSet(LineVolume, T)
  BY <1>2, <1>3, <1>4, SumOfDisjoint
<1>8. SumFunctionOnSet(LineVolume, U) = SumFunctionOnSet(LineVolume, S \union T)
  BY <1>3
<1> QED
  BY <1>5, <1>6, <1>7, <1>8

\* A waiting order's items are among what is promised.
LEMMA WaitingIsPromised ==
  ASSUME Typed, NEW d \in WaitingOrders, NEW p
  PROVE  /\ VolumeOf(ItemsOf(d), p) <= Promised(p)
         /\ VolumeOf(ItemsOf(d), p) \in Nat /\ Promised(p) \in Nat
         /\ Promised(p) - VolumeOf(ItemsOf(d), p) = VolumeOf(PromisedTo(WaitingOrders \ {d}), p)
<1> DEFINE W == WaitingOrders \ {d}
<1>1. d \in DO /\ W \in SUBSET DO /\ d \notin W /\ W \union {d} = WaitingOrders
  BY DEF WaitingOrders
<1>2. Promised(p) = VolumeOf(PromisedTo(WaitingOrders), p)
  BY DEF Promised, PromisedTo
<1>3. VolumeOf(PromisedTo(W \union {d}), p) = VolumeOf(PromisedTo(WaitingOrders), p)
  BY <1>1
<1> HIDE DEF W
<1>4. /\ VolumeOf(PromisedTo(W \union {d}), p)
              = VolumeOf(PromisedTo(W), p) + VolumeOf(ItemsOf(d), p)
      /\ VolumeOf(PromisedTo(W), p) \in Nat /\ VolumeOf(ItemsOf(d), p) \in Nat
  BY <1>1, PromisedGrows
<1>5. Promised(p) = VolumeOf(PromisedTo(W), p) + VolumeOf(ItemsOf(d), p)
  BY <1>2, <1>3, <1>4
<1> QED
  BY <1>4, <1>5 DEF W

\* What is reserved covers what a cancelling or loading request has still to
\* clear, so that no reservation is cut off at zero.
LEMMA StillReserved ==
  ASSUME OneTankPerPool, Typed, InStep, PromisesSound, NEW x \in Tx,
         tx[x].op \in {"cancel", "load"}, NEW l \in tx[x].todo, NEW t \in Candidates(l),
         TankFree(x, t)
  PROVE  dirty[t].reserved >= LineVolume[l]
<1> DEFINE d == tx[x].order
           p == LinePool[l]
<1>1. /\ tx[x].todo \in SUBSET Line /\ Reserving(x) \in SUBSET Line
      /\ l \in Line /\ t \in Tank /\ p \in Pool /\ PoolTanks(p) = {t}
      /\ LineVolume[l] \in Nat
  BY ReservingIsLines, ConstantTypes DEF Candidates, PoolTanks, OneTankPerPool
<1>2. Reserving(x) # {} /\ d \in WaitingOrders
  BY <1>1 DEF PromisesSound, TodoIsReserved, Reserving, InStep, StatusKept, WaitingOrders,
     Waiting, Typed, RequestsNamed, Active
<1>3. VolumeOf(Reserving(x), p) = VolumeOf(ItemsOf(d), p)
  <2>1. CASE tx[x].op = "cancel"
    BY <1>2, <2>1 DEF Reserving
  <2>2. CASE tx[x].op = "load"
    BY <1>1, <1>2, <2>2 DEF Reserving, InStep, LoadsItems
  <2> QED
    BY <2>1, <2>2
<1>4. LineVolume[l] <= VolumeOf(tx[x].todo, p)
  <2>1. VolumeOf(tx[x].todo \ {l}, p) = VolumeOf(tx[x].todo, p) - LineVolume[l]
    BY <1>1, VolumeTakesOut
  <2>2. VolumeOf(tx[x].todo \ {l}, p) \in Nat /\ VolumeOf(tx[x].todo, p) \in Nat
    BY <1>1, VolumeIsNat
  <2> QED
    BY <1>1, <2>1, <2>2
<1>5. ASSUME NEW f, f[t] \in Int PROVE SumFunctionOnSet(f, PoolTanks(p)) = f[t]
  <2>1. IsFiniteSet({t}) /\ {t} \ {t} = {} /\ t \in {t} /\ \A s \in {t} : f[s] \in Int
    BY <1>5, FS_Singleton
  <2>2. SumFunctionOnSet(f, {t}) = f[t] + SumFunctionOnSet(f, {t} \ {t})
    BY <2>1, SumTakesOut
  <2>3. SumFunctionOnSet(f, {t} \ {t}) = 0
    BY <2>1, SumOfNothing
  <2> QED
    BY <1>1, <1>5, <2>2, <2>3
<1>6. tank[t].reserved = Promised(p)
  <2> DEFINE f == [s \in Tank |-> tank[s].reserved]
  <2>1. f[t] = tank[t].reserved /\ f[t] \in Int
    BY <1>1 DEF Typed, TypeOK, Row
  <2>2. ReservedOf(p) = SumFunctionOnSet(f, PoolTanks(p))
    BY DEF ReservedOf
  <2> HIDE DEF f
  <2> QED
    BY <1>1, <1>5, <2>1, <2>2 DEF PromisesSound, ReservationsMatchOrders
<1>7. dirty[t].reserved - tank[t].reserved = Promising(x, p)
  <2>1. ReservedChange(x)[t] \in Int
    BY <1>1, ReservedChangeTyped
  <2>2. ReservedBy(x, p) = ReservedChange(x)[t]
    BY <1>5, <2>1 DEF ReservedBy
  <2>3. ReservedChange(x)[t] = dirty[t].reserved - tank[t].reserved
    <3>1. CASE holder[t] = Null
      BY <1>1, <3>1, NullIsNoValue
      DEF PromisesSound, UnheldAreClean, ReservedChange, Typed, TypeOK, Row
    <3>2. CASE holder[t] = x
      BY <1>1, <3>2 DEF ReservedChange
    <3> QED
      BY <3>1, <3>2 DEF TankFree
  <2> QED
    BY <1>1, <2>2, <2>3 DEF PromisesSound, ReservedIsPromised
<1>8. /\ VolumeOf(ItemsOf(d), p) <= Promised(p)
      /\ VolumeOf(ItemsOf(d), p) \in Nat /\ Promised(p) \in Nat
  BY <1>2, WaitingIsPromised
<1>9. /\ VolumeOf(tx[x].todo, p) \in Nat
      /\ dirty[t].reserved \in Int /\ tank[t].reserved \in Int
  BY <1>1, VolumeIsNat DEF Typed, TypeOK, Row
<1>10. Promising(x, p) = VolumeOf(tx[x].todo, p) - VolumeOf(ItemsOf(d), p)
  BY <1>3 DEF Promising
<1> HIDE DEF d, p
<1> QED
  BY <1>1, <1>4, <1>6, <1>7, <1>8, <1>9, <1>10

LEMMA StartPromises ==
  ASSUME Typed, Typed', PromisesSound, NEW x \in Tx, StartTx(x),
         OneRequestPerOrder, EventsInStep
  PROVE  PromisesSound'
<1>1. /\ UNCHANGED <<tank, dirty, holder, doStatus, items>>
      /\ \A y \in Tx \ {x} : tx'[y] = tx[y]
      /\ tx[x].op = "idle"
  BY StartIsDue DEF tankVars, orderVars
<1>2. \A d : ItemsOf(d)' = ItemsOf(d)
  BY <1>1 DEF ItemsOf
<1>3. tx'[x].op \in {"approve", "cancel", "load"} => tx'[x].todo = Reserving(x)'
  BY <1>2, StartInStep DEF Reserving, ItemsOf
<1>4. \A y \in Tx : \A p \in Pool : Promising(y, p)' = Promising(y, p)
  <2>1. \A p : Promising(x, p)' = 0 /\ Promising(x, p) = 0
    BY <1>1, <1>3, NothingPromised DEF Promising
  <2> QED
    BY <1>1, <1>2, <2>1, ReservingKept
<1>5. TodoIsReserved'
  <2> SUFFICES ASSUME NEW y \in Tx, tx'[y].op \in {"approve", "cancel", "load"}
               PROVE  tx'[y].todo \subseteq Reserving(y)'
    BY DEF TodoIsReserved
  <2>1. CASE y = x
    BY <1>3, <2>1
  <2>2. CASE y # x
    BY <1>1, <1>2, <2>2, ReservingKept DEF PromisesSound, TodoIsReserved
  <2> QED
    BY <2>1, <2>2
<1>6. \A p \in Pool : Promised(p)' = Promised(p)
  BY <1>1 DEF Promised, WaitingOrders, ItemsOf, VolumeOf
<1> QED
  BY <1>1, <1>4, <1>5, <1>6, PromisesKept

\* Taking the order's row lock is where a cancellation and a loading get the
\* lines whose reservations they clear.
LEMMA LockPromises ==
  ASSUME Typed, Typed', PromisesSound, NEW x \in Tx,
         CancelUpdate(x) \/ UpdateStatuses(x) \/ JudgeCompartments(x)
  PROVE  PromisesSound'
<1>1. /\ UNCHANGED <<tank, dirty, holder, doStatus, items>>
      /\ \A y \in Tx \ {x} : tx'[y] = tx[y]
      /\ tx'[x].op = tx[x].op
  BY LockKeeps, JudgeKeeps
  DEF CancelUpdate, UpdateStatuses, JudgeCompartments, tankVars, orderVars
<1>2. \A d : ItemsOf(d)' = ItemsOf(d)
  BY <1>1 DEF ItemsOf
<1>3. \/ tx[x].op \in {"cancel", "load"} /\ tx[x].stage = "reading"
      \/ tx[x].op = "deliver"
  BY DEF CancelUpdate, UpdateStatuses, JudgeCompartments, Typed, RequestsNamed
<1>4. tx'[x].op \in {"approve", "cancel", "load"} => tx'[x].todo = Reserving(x)'
  <2>1. CASE CancelUpdate(x)
    <3>1. /\ tx'[x].op = "cancel" /\ tx'[x].stage = "writing"
          /\ tx'[x].order = tx[x].order /\ tx'[x].seen = tx[x].seen
          /\ tx'[x].todo = IF tx[x].seen \in {"APPROVED", "ASSIGNED"}
                           THEN ItemsOf(tx[x].order) ELSE {}
      BY <2>1 DEF CancelUpdate, Typed, TypeOK, Work
    <3>2. Reserving(x)' = IF tx[x].seen \in Waiting THEN ItemsOf(tx[x].order)' ELSE {}
      BY <3>1 DEF Reserving, ItemsOf, Waiting
    <3> QED
      BY <1>2, <3>1, <3>2 DEF Waiting
  <2>2. CASE UpdateStatuses(x)
    <3>1. /\ tx'[x].op = tx[x].op /\ tx'[x].stage = "writing"
          /\ tx'[x].order = tx[x].order
          /\ tx[x].op = "load" => tx'[x].todo = LoadedOf(tx[x].order)
      BY <2>2 DEF UpdateStatuses, Typed, TypeOK, Work
    <3>2. tx[x].op = "load" => Reserving(x)' = LoadedOf(tx[x].order)
      BY <3>1 DEF Reserving, LoadedOf
    <3> QED
      BY <2>2, <3>1, <3>2 DEF UpdateStatuses
  <2>3. CASE JudgeCompartments(x)
    BY <1>1, <1>3, <2>3 DEF JudgeCompartments, Typed, RequestsNamed
  <2> QED
    BY <2>1, <2>2, <2>3
<1>5. \A p \in Pool : Promising(x, p) = 0
  <2>1. tx[x].op # "deliver" => tx[x].todo = {} /\ Reserving(x) = {}
    BY <1>3 DEF PromisesSound, TodoIsReserved, Reserving
  <2> QED
    BY <1>3, <2>1, NoVolume DEF Promising
<1>6. \A y \in Tx : \A p \in Pool : Promising(y, p)' = Promising(y, p)
  <2>1. \A p : Promising(x, p)' = 0
    BY <1>4, NothingPromised
  <2> QED
    BY <1>1, <1>2, <1>5, <2>1, ReservingKept
<1>7. TodoIsReserved'
  <2> SUFFICES ASSUME NEW y \in Tx, tx'[y].op \in {"approve", "cancel", "load"}
               PROVE  tx'[y].todo \subseteq Reserving(y)'
    BY DEF TodoIsReserved
  <2>1. CASE y = x
    BY <1>4, <2>1
  <2>2. CASE y # x
    BY <1>1, <1>2, <2>2, ReservingKept DEF PromisesSound, TodoIsReserved
  <2> QED
    BY <2>1, <2>2
<1>8. \A p \in Pool : Promised(p)' = Promised(p)
  BY <1>1 DEF Promised, WaitingOrders, ItemsOf, VolumeOf
<1> QED
  BY <1>1, <1>6, <1>7, <1>8, PromisesKept

LEMMA WriteRowPromises ==
  ASSUME Typed, Typed', PromisesSound, NEW x \in Tx, NEW l \in Line, NEW t \in Tank,
         NEW row \in Row, WriteRow(x, l, t, row),
         row.reserved - dirty[t].reserved =
             IF tx[x].op = "approve" THEN LineVolume[l]
             ELSE IF tx[x].op \in {"cancel", "load"} THEN 0 - LineVolume[l] ELSE 0
  PROVE  PromisesSound'
<1> DEFINE gain == IF tx[x].op = "approve" THEN LineVolume[l]
                   ELSE IF tx[x].op \in {"cancel", "load"} THEN 0 - LineVolume[l] ELSE 0
<1>1. /\ UNCHANGED <<tank, doStatus, items>> /\ l \in tx[x].todo
      /\ TankPool[t] = LinePool[l] /\ holder[t] \in {Null, x}
      /\ dirty' = [dirty EXCEPT ![t] = row] /\ holder' = [holder EXCEPT ![t] = x]
      /\ tx' = [tx EXCEPT ![x].todo = @ \ {l}]
  BY DEF WriteRow, Candidates, TankFree, orderVars
<1>2. /\ tx'[x].op = tx[x].op /\ tx'[x].stage = tx[x].stage /\ tx'[x].seen = tx[x].seen
      /\ tx'[x].order = tx[x].order /\ tx'[x].todo = tx[x].todo \ {l}
      /\ \A y \in Tx \ {x} : tx'[y] = tx[y]
  BY <1>1 DEF Typed, TypeOK, Work
<1>3. Reserving(x)' = Reserving(x) /\ \A d : ItemsOf(d)' = ItemsOf(d)
  BY <1>1, <1>2 DEF Reserving, LoadedOf, ItemsOf
<1>4. UnheldAreClean'
  BY <1>1, NullIsNoValue DEF PromisesSound, UnheldAreClean, Typed, TypeOK
<1>5. TodoIsReserved'
  BY <1>2, <1>3, ReservingKept DEF PromisesSound, TodoIsReserved
<1>6. LineVolume[l] \in Nat /\ gain \in Int
  BY ConstantTypes
<1>7. ASSUME NEW p \in Pool PROVE Promising(x, p)' =
                Promising(x, p) + (IF LinePool[l] = p THEN gain ELSE 0)
  <2>1. /\ tx[x].todo \in SUBSET Line /\ Reserving(x) \in SUBSET Line
    BY ReservingIsLines
  <2>2. VolumeOf(tx[x].todo, p) \in Nat /\ VolumeOf(Reserving(x), p) \in Nat
    BY <2>1, VolumeIsNat
  <2>3. VolumeOf(tx[x].todo \ {l}, p) =
           VolumeOf(tx[x].todo, p) - (IF LinePool[l] = p THEN LineVolume[l] ELSE 0)
    BY <1>1, <2>1, VolumeTakesOut
  <2> QED
    BY <1>2, <1>3, <1>6, <2>2, <2>3, PromisingPrimed DEF Promising
<1>8. ASSUME NEW p \in Pool PROVE ReservedBy(x, p)' =
                ReservedBy(x, p) + (IF LinePool[l] = p THEN gain ELSE 0)
  <2>1. \A s \in Tank \ {t} : ReservedChange(x)'[s] = ReservedChange(x)[s]
    BY <1>1 DEF ReservedChange, Typed, TypeOK
  <2>2. CASE LinePool[l] = p
    <3>1. t \in PoolTanks(p) /\ PoolTanks(p) \in SUBSET Tank /\ IsFiniteSet(PoolTanks(p))
      BY <1>1, <2>2, PoolTanksFinite DEF PoolTanks
    <3>2. ReservedChange(x)'[t] = ReservedChange(x)[t] + gain
      <4>1. ReservedChange(x)[t] = dirty[t].reserved - tank[t].reserved
        <5>1. CASE holder[t] = Null
          BY <5>1, NullIsNoValue
          DEF PromisesSound, UnheldAreClean, ReservedChange, Typed, TypeOK, Row
        <5>2. CASE holder[t] = x
          BY <5>2 DEF ReservedChange
        <5> QED
          BY <1>1, <5>1, <5>2
      <4>2. ReservedChange(x)'[t] = row.reserved - tank[t].reserved
        BY <1>1 DEF ReservedChange, Typed, TypeOK
      <4>3. row.reserved \in Int /\ dirty[t].reserved \in Int /\ tank[t].reserved \in Int
        BY DEF Typed, TypeOK, Row
      <4> QED
        BY <1>6, <4>1, <4>2, <4>3
    <3>3. \A s \in Tank : ReservedChange(x)[s] \in Int /\ ReservedChange(x)'[s] \in Int
      BY <1>6, <2>1, <3>2, ReservedChangeTyped
    <3>4. SumFunctionOnSet(ReservedChange(x)', PoolTanks(p))
            = SumFunctionOnSet(ReservedChange(x), PoolTanks(p))
              + (ReservedChange(x)'[t] - ReservedChange(x)[t])
      <4> DEFINE S == PoolTanks(p)
                 f == ReservedChange(x)
                 g == ReservedChange(x)'
      <4>1. \A s \in S : f[s] \in Int /\ g[s] \in Int
        BY <3>1, <3>3
      <4>2. \A s \in S \ {t} : g[s] = f[s]
        BY <2>1, <3>1
      <4>3. t \in S /\ IsFiniteSet(S)
        BY <3>1
      <4> HIDE DEF S, f, g
      <4>4. SumFunctionOnSet(g, S) = SumFunctionOnSet(f, S) + (g[t] - f[t])
        BY <4>1, <4>2, <4>3, SumChangesAt
      <4> QED
        BY <4>4 DEF S, f, g
    <3>5. ReservedBy(x, p)' = SumFunctionOnSet(ReservedChange(x)', PoolTanks(p))
      BY DEF ReservedBy, PoolTanks
    <3>6. ReservedChange(x)'[t] - ReservedChange(x)[t] = gain
      BY <1>6, <3>2, <3>3
    <3> QED
      BY <2>2, <3>4, <3>5, <3>6 DEF ReservedBy
  <2>3. CASE LinePool[l] # p
    <3>1. \A s \in PoolTanks(p) : ReservedChange(x)'[s] = ReservedChange(x)[s]
      BY <1>1, <2>1, <2>3 DEF PoolTanks
    <3>2. \A s \in PoolTanks(p) : ReservedChange(x)[s] \in Int
      BY ReservedChangeTyped DEF PoolTanks
    <3>3. ReservedBy(x, p) \in Int
      BY <3>2, PoolTanksFinite, SumIsInteger DEF ReservedBy
    <3> QED
      BY <2>3, <3>1, <3>3, ReservedByKept
  <2> QED
    BY <2>2, <2>3
<1>9. ASSUME NEW y \in Tx \ {x}, NEW p \in Pool PROVE ReservedBy(y, p)' = ReservedBy(y, p)
  <2>1. \A s \in Tank : ReservedChange(y)'[s] = ReservedChange(y)[s]
    BY <1>1, NullIsNoValue DEF ReservedChange, Typed, TypeOK
  <2> QED
    BY <2>1, ReservedByKept DEF PoolTanks
<1>10. ReservedIsPromised'
  <2> SUFFICES ASSUME NEW y \in Tx, NEW p \in Pool PROVE ReservedBy(y, p)' = Promising(y, p)'
    BY DEF ReservedIsPromised
  <2>1. ReservedBy(y, p) = Promising(y, p)
    BY DEF PromisesSound, ReservedIsPromised
  <2>2. CASE y = x
    BY <1>7, <1>8, <2>1, <2>2
  <2>3. CASE y # x
    BY <1>2, <1>3, <1>9, <2>1, <2>3, ReservingKept
  <2> QED
    BY <2>2, <2>3
<1>11. ReservationsMatchOrders'
  BY <1>1 DEF PromisesSound, ReservationsMatchOrders, ReservedOf, Promised, PoolTanks, VolumeOf,
     ItemsOf, WaitingOrders
<1> QED
  BY <1>4, <1>5, <1>10, <1>11 DEF PromisesSound

LEMMA UpdateTankPromises ==
  ASSUME OneTankPerPool, Typed, Typed', InStep, PromisesSound, NEW x \in Tx, UpdateTank(x)
  PROVE  PromisesSound'
<1> PICK l \in Line, t \in Tank :
      \/ ReserveStorageTankVolume(x, l, t) \/ ReleaseStorageTankReservation(x, l, t)
      \/ DeductStorageTankVolume(x, l, t) \/ FillTank(x, l, t)
  BY DEF UpdateTank
<1>1. dirty[t] \in Row /\ LineVolume[l] \in Nat
  BY ConstantTypes DEF Typed, TypeOK
<1>2. CASE ReserveStorageTankVolume(x, l, t)
  <2> DEFINE row == [dirty[t] EXCEPT !.reserved = @ + LineVolume[l]]
  <2>1. row \in Row /\ row.reserved - dirty[t].reserved = LineVolume[l]
    BY <1>1 DEF Row
  <2>2. WriteRow(x, l, t, row) /\ tx[x].op = "approve"
    BY <1>2 DEF ReserveStorageTankVolume
  <2> HIDE DEF row
  <2> QED
    BY <2>1, <2>2, WriteRowPromises
<1>3. CASE ReleaseStorageTankReservation(x, l, t)
  <2> DEFINE row == [dirty[t] EXCEPT !.reserved = Clamp(@ - LineVolume[l])]
  <2>1. WriteRow(x, l, t, row) /\ tx[x].op = "cancel"
    BY <1>3 DEF ReleaseStorageTankReservation
  <2>2. dirty[t].reserved >= LineVolume[l]
    BY <2>1, StillReserved DEF WriteRow
  <2>3. row \in Row /\ row.reserved - dirty[t].reserved = 0 - LineVolume[l]
    BY <1>1, <2>2 DEF Row, Clamp
  <2> HIDE DEF row
  <2> QED
    BY <2>1, <2>3, WriteRowPromises
<1>4. CASE DeductStorageTankVolume(x, l, t)
  <2> DEFINE row == [current  |-> dirty[t].current - LineVolume[l],
                     reserved |-> Clamp(dirty[t].reserved - LineVolume[l])]
  <2>1. WriteRow(x, l, t, row) /\ tx[x].op = "load"
    BY <1>4 DEF DeductStorageTankVolume
  <2>2. dirty[t].reserved >= LineVolume[l]
    BY <2>1, StillReserved DEF WriteRow
  <2>3. row \in Row /\ row.reserved - dirty[t].reserved = 0 - LineVolume[l]
    BY <1>1, <2>2 DEF Row, Clamp
  <2> HIDE DEF row
  <2> QED
    BY <2>1, <2>3, WriteRowPromises
<1>5. CASE FillTank(x, l, t)
  <2> DEFINE row == [dirty[t] EXCEPT !.current = @ + LineVolume[l]]
  <2>1. row \in Row /\ row.reserved - dirty[t].reserved = 0
    BY <1>1 DEF Row
  <2>2. WriteRow(x, l, t, row) /\ tx[x].op = "deliver"
    BY <1>5 DEF FillTank
  <2> HIDE DEF row
  <2> QED
    BY <2>1, <2>2, WriteRowPromises
<1> QED
  BY <1>2, <1>3, <1>4, <1>5

\* However a transaction ends, it holds no row and has reserved nothing more.
LEMMA EndPromises ==
  ASSUME Typed, Typed', PromisesSound, NEW x \in Tx, CommitTanks(x) \/ Rollback(x),
         UNCHANGED items
  PROVE  UnheldAreClean' /\ TodoIsReserved' /\ ReservedIsPromised'
<1>1. /\ tx'[x] = Idle /\ \A y \in Tx \ {x} : tx'[y] = tx[y]
      /\ \A d : ItemsOf(d)' = ItemsOf(d)
  BY EndKeeps DEF ItemsOf
<1>2. holder' = [t \in Tank |-> IF holder[t] = x THEN Null ELSE holder[t]]
  BY DEF CommitTanks, Rollback
<1>3. \A t \in Tank : holder'[t] # x
  BY <1>2, NullIsNoValue
<1>4. UnheldAreClean'
  BY <1>2 DEF CommitTanks, Rollback, PromisesSound, UnheldAreClean, Typed, TypeOK
<1>5. tx'[x].op = "idle"
  BY <1>1 DEF Idle
<1>6. TodoIsReserved'
  <2> SUFFICES ASSUME NEW y \in Tx, tx'[y].op \in {"approve", "cancel", "load"}
               PROVE  tx'[y].todo \subseteq Reserving(y)'
    BY DEF TodoIsReserved
  <2>1. y # x
    BY <1>5
  <2> QED
    BY <1>1, <2>1, ReservingKept DEF PromisesSound, TodoIsReserved
<1>7. ASSUME NEW y \in Tx \ {x}, NEW p \in Pool PROVE ReservedBy(y, p)' = ReservedBy(y, p)
  <2>1. \A s \in Tank : ReservedChange(y)'[s] = ReservedChange(y)[s]
    BY <1>2, NullIsNoValue DEF ReservedChange, CommitTanks, Rollback, Typed, TypeOK
  <2> QED
    BY <2>1, ReservedByKept DEF PoolTanks
<1>8. ASSUME NEW y \in Tx, NEW p \in Pool PROVE ReservedBy(y, p)' = Promising(y, p)'
  <2>1. CASE y = x
    <3>1. Promising(x, p)' = 0
      BY <1>5, PromisingPrimed
    <3> QED
      BY <1>3, <2>1, <3>1, NothingReserved
  <2>2. CASE y # x
    BY <1>1, <1>7, <2>2, ReservingKept DEF PromisesSound, ReservedIsPromised
  <2> QED
    BY <2>1, <2>2
<1> QED
  BY <1>4, <1>6, <1>8 DEF ReservedIsPromised

LEMMA RollbackPromises ==
  ASSUME Typed, Typed', PromisesSound, NEW x \in Tx, Rollback(x)
  PROVE  PromisesSound'
<1>1. UNCHANGED <<tank, doStatus, items>>
  BY DEF Rollback, orderVars
<1>2. ReservationsMatchOrders'
  BY <1>1 DEF PromisesSound, ReservationsMatchOrders, ReservedOf, Promised, PoolTanks, VolumeOf,
     ItemsOf, WaitingOrders
<1> QED
  BY <1>1, <1>2, EndPromises DEF PromisesSound

\* A commit adds to the reservations of each pool what the request reserved.
LEMMA CommitReserves ==
  ASSUME Typed, Typed', PromisesSound, NEW x \in Tx, CommitTanks(x), NEW p \in Pool
  PROVE  ReservedOf(p)' = Promised(p) + Promising(x, p)
<1> DEFINE f == [t \in Tank |-> tank[t].reserved]
           g == ReservedChange(x)
           h == [t \in Tank |-> tank'[t].reserved]
           S == PoolTanks(p)
<1>1. S \in SUBSET Tank /\ IsFiniteSet(S)
  BY PoolTanksFinite
<1>2. \A t \in S : f[t] \in Int /\ g[t] \in Int /\ h[t] = f[t] + g[t]
  BY <1>1 DEF ReservedChange, CommitTanks, Typed, TypeOK, Row
<1>3. /\ ReservedOf(p) = SumFunctionOnSet(f, S) /\ ReservedBy(x, p) = SumFunctionOnSet(g, S)
      /\ ReservedOf(p)' = SumFunctionOnSet(h, S)
  BY DEF ReservedOf, ReservedBy, PoolTanks
<1> HIDE DEF f, g, h, S
<1>4. SumFunctionOnSet(h, S) = SumFunctionOnSet(f, S) + SumFunctionOnSet(g, S)
  BY <1>1, <1>2, SumOfSums
<1> QED
  BY <1>3, <1>4 DEF PromisesSound, ReservedIsPromised, ReservationsMatchOrders

\* What is promised follows the set of waiting orders.
LEMMA PromisedPrimed ==
  ASSUME UNCHANGED items, NEW p
  PROVE  Promised(p)' = VolumeOf(PromisedTo(WaitingOrders'), p)
  BY DEF Promised, PromisedTo, VolumeOf, ItemsOf

\* At its commit a request has done with its lines; the reservations it leaves
\* are those of the orders that wait after it.
LEMMA CommitPromises ==
  ASSUME Typed, Typed', InStep, PromisesSound, NEW x \in Tx, Commit(x)
  PROVE  PromisesSound'
<1> DEFINE d == tx[x].order
           items_d == ItemsOf(tx[x].order)
<1>1. /\ CommitTanks(x) /\ Active(x) /\ d \in DO /\ UNCHANGED items
      /\ tx[x].stage = "writing" /\ tx[x].todo = {}
  BY DEF Commit, CommitApprove, CommitCancel, CommitLoading, CommitDelivery,
     Finished, Writing, Typed, RequestsNamed
<1>2. PICK s : /\ doStatus' = [doStatus EXCEPT ![d] = s]
               /\ \/ tx[x].op = "approve" /\ s = "APPROVED"
                  \/ tx[x].op = "cancel" /\ s = "CANCELLED"
                  \/ tx[x].op = "load" /\ s = "IN_PROGRESS"
                  \/ tx[x].op = "deliver" /\ s \in {"DELIVERED", "DISPUTED"}
  BY DEF Commit, CommitApprove, CommitCancel, CommitLoading, CommitDelivery, Finished, SetStatus
<1>3. \A e \in DO : doStatus'[e] = IF e = d THEN s ELSE doStatus[e]
  BY <1>1, <1>2 DEF Typed, TypeOK
<1>4. ASSUME NEW p \in Pool PROVE ReservedOf(p)' = Promised(p)'
  <2>1. /\ ReservedOf(p)' = Promised(p) + Promising(x, p)
        /\ Promised(p)' = VolumeOf(PromisedTo(WaitingOrders'), p)
        /\ VolumeOf(tx[x].todo, p) = 0
    BY <1>1, CommitReserves, PromisedPrimed, NoVolume
  <2>2. /\ WaitingOrders \in SUBSET DO
        /\ Promised(p) = VolumeOf(PromisedTo(WaitingOrders), p)
        /\ Reserving(x) \in SUBSET Line
    BY ReservingIsLines DEF WaitingOrders, Promised, PromisedTo
  <2>3. VolumeOf(Reserving(x), p) \in Nat
    BY <2>2, VolumeIsNat
  <2>4. CASE tx[x].op = "approve"
    <3>1. WaitingOrders' = WaitingOrders \union {d} /\ d \notin WaitingOrders
      BY <1>1, <1>2, <1>3, <2>4 DEF WaitingOrders, InStep, StatusKept
    <3>2. Promising(x, p) = VolumeOf(ItemsOf(d), p)
      BY <2>1, <2>3, <2>4 DEF Promising, Reserving
    <3>3. VolumeOf(PromisedTo(WaitingOrders \union {d}), p)
            = VolumeOf(PromisedTo(WaitingOrders), p) + VolumeOf(ItemsOf(d), p)
      BY <1>1, <2>2, <3>1, PromisedGrows
    <3> QED
      BY <2>1, <2>2, <3>1, <3>2, <3>3
  <2>5. CASE tx[x].op \in {"cancel", "load"} /\ d \in WaitingOrders
    <3>1. WaitingOrders' = WaitingOrders \ {d}
      BY <1>1, <1>2, <1>3, <2>5 DEF WaitingOrders
    <3>2. VolumeOf(Reserving(x), p) = VolumeOf(ItemsOf(d), p)
      BY <1>1, <2>5 DEF Reserving, InStep, StatusKept, LoadsItems, WaitingOrders, Waiting
    <3>3. Promising(x, p) = 0 - VolumeOf(ItemsOf(d), p)
      BY <2>1, <2>3, <2>5, <3>2 DEF Promising
    <3>4. /\ VolumeOf(ItemsOf(d), p) \in Nat /\ Promised(p) \in Nat
          /\ Promised(p) - VolumeOf(ItemsOf(d), p) = VolumeOf(PromisedTo(WaitingOrders \ {d}), p)
      BY <2>5, WaitingIsPromised
    <3> HIDE DEF d
    <3> QED
      BY <2>1, <3>1, <3>3, <3>4
  <2>6. CASE tx[x].op \in {"cancel", "deliver"} /\ d \notin WaitingOrders
    <3>1. WaitingOrders' = WaitingOrders
      BY <1>1, <1>2, <1>3, <2>6 DEF WaitingOrders
    <3>2. Reserving(x) = {}
      BY <1>1, <2>6 DEF Reserving, InStep, StatusKept, WaitingOrders, Waiting
    <3>3. Promising(x, p) = 0
      BY <2>1, <2>6, <3>2, NoVolume DEF Promising
    <3>4. Promised(p) \in Nat
      <4>1. PromisedTo(WaitingOrders) \in SUBSET Line
        BY DEF PromisedTo, ItemsOf, Typed, TypeOK
      <4> QED
        BY <2>2, <4>1, VolumeIsNat
    <3> QED
      BY <2>1, <2>2, <3>1, <3>3, <3>4
  <2> QED
    BY <1>1, <1>2, <2>4, <2>5, <2>6 DEF InStep, StatusKept, WaitingOrders
<1> QED
  BY <1>1, <1>4, EndPromises DEF PromisesSound, ReservationsMatchOrders

\* A step outside the requests leaves every waiting order waiting.
LEMMA QuietPromises ==
  ASSUME PromisesSound, UNCHANGED <<tank, dirty, holder, items, tx>>,
         WaitingOrders' = WaitingOrders
  PROVE  PromisesSound'
<1>1. \A x \in Tx : Reserving(x)' = Reserving(x)
  BY DEF Reserving, ItemsOf, LoadedOf
<1>2. \A x \in Tx : \A p \in Pool : Promising(x, p)' = Promising(x, p)
  BY <1>1, PromisingPrimed DEF Promising
<1>3. \A p \in Pool : Promised(p)' = Promised(p)
  BY PromisedPrimed DEF Promised, PromisedTo
<1>4. TodoIsReserved'
  BY <1>1 DEF PromisesSound, TodoIsReserved
<1> QED
  BY <1>2, <1>3, <1>4, PromisesKept

LEMMA OrderStepPromises ==
  ASSUME Typed, PromisesSound, NEW d \in DO, OrderStep(d)
  PROVE  PromisesSound'
<1>1. UNCHANGED <<tank, dirty, holder, items, tx>>
  BY DEF OrderStep, CreateDeliveryOrder, SubmitForApproval, AssignVehicleAndDriver,
     CreateTrip, UploadTripPhoto, RecordOtherEvent, tankVars, orderVars
<1>2. WaitingOrders' = WaitingOrders
  BY DEF OrderStep, CreateDeliveryOrder, SubmitForApproval, AssignVehicleAndDriver,
     CreateTrip, UploadTripPhoto, RecordOtherEvent, orderVars, WaitingOrders, Typed, TypeOK
<1> QED
  BY <1>1, <1>2, QuietPromises

\* A draft's new item is promised to nobody yet.
LEMMA CreateItemPromises ==
  ASSUME Typed, InStep, PromisesSound, NEW l \in Line, CreateItem(l), ItemsWhileDraft
  PROVE  PromisesSound'
<1>1. /\ items' = items \union {l} /\ UNCHANGED <<doStatus, tank, dirty, holder, tx>>
      /\ doStatus[LineOrder[l]] = "DRAFT"
  BY DEF CreateItem, ItemsWhileDraft, tankVars
<1>2. \A d : doStatus[d] # "DRAFT" => ItemsOf(d)' = ItemsOf(d)
  BY <1>1 DEF ItemsOf
<1>3. ASSUME NEW x \in Tx PROVE Reserving(x)' = Reserving(x)
  <2>1. CASE doStatus[tx[x].order] # "DRAFT"
    <3>1. ItemsOf(tx[x].order)' = ItemsOf(tx[x].order)
      BY <1>1, <1>2, <2>1 DEF ItemsOf
    <3> QED
      BY <1>1, <3>1, ReservingKept
  <2>2. CASE doStatus[tx[x].order] = "DRAFT"
    <3>1. /\ tx[x].op \notin {"approve", "load"}
          /\ tx[x].op = "cancel" => tx[x].seen \notin Waiting
      BY <2>2 DEF InStep, StatusKept, Waiting
    <3> QED
      BY <1>1, <3>1 DEF Reserving
  <2> QED
    BY <2>1, <2>2
<1>4. \A x \in Tx : \A p \in Pool : Promising(x, p)' = Promising(x, p)
  BY <1>1, <1>3, PromisingPrimed DEF Promising
<1>5. \A p \in Pool : Promised(p)' = Promised(p)
  <2>1. /\ \A d \in WaitingOrders : ItemsOf(d)' = ItemsOf(d)
        /\ WaitingOrders' = WaitingOrders
    BY <1>1, <1>2 DEF WaitingOrders
  <2>2. PromisedTo(WaitingOrders)' = PromisedTo(WaitingOrders)
    BY <2>1 DEF PromisedTo
  <2> QED
    BY <2>2 DEF Promised, PromisedTo, VolumeOf
<1>6. TodoIsReserved'
  BY <1>1, <1>3 DEF PromisesSound, TodoIsReserved
<1> QED
  BY <1>1, <1>4, <1>5, <1>6, PromisesKept

LEMMA StepPromises ==
  OneTankPerPool /\ Typed /\ InStep /\ PromisesSound /\ [DisciplinedNext]_vars => PromisesSound'
<1> SUFFICES ASSUME OneTankPerPool, Typed, InStep, PromisesSound, [DisciplinedNext]_vars
             PROVE  PromisesSound'
  OBVIOUS
<1>0. Typed'
  BY StepTyped, DisciplinedIsNext
<1>1. CASE UNCHANGED vars
  BY <1>1, QuietPromises DEF vars, tankVars, orderVars, WaitingOrders
<1>2. CASE DisciplinedNext
  <2> USE <1>2 DEF DisciplinedNext
  <2>1. ASSUME NEW d \in DO, OrderStep(d) PROVE PromisesSound'
    BY <2>1, OrderStepPromises
  <2>2. ASSUME NEW l \in Line, CreateItem(l) PROVE PromisesSound'
    BY <2>2, CreateItemPromises
  <2>3. ASSUME \/ \E r \in Reading : \/ CreateWeightBridge(r) \/ ApproveWeightBridge(r)
                                     \/ EscalateWeightBridgeReading(r)
               \/ \E c \in Compartment, v \in Variance : MeasureCompartment(c, v)
        PROVE  PromisesSound'
    <3>1. UNCHANGED <<doStatus, items, tank, dirty, holder, tx>>
      BY <2>3 DEF CreateWeightBridge, ApproveWeightBridge, EscalateWeightBridgeReading,
         MeasureCompartment, orderVars, tankVars
    <3> QED
      BY <3>1, QuietPromises DEF WaitingOrders
  <2>4. ASSUME NEW x \in Tx, StartTx(x) PROVE PromisesSound'
    BY <1>0, <2>4, StartPromises
  <2>5. ASSUME NEW x \in Tx, CancelUpdate(x) \/ UpdateStatuses(x) \/ JudgeCompartments(x)
        PROVE  PromisesSound'
    BY <1>0, <2>5, LockPromises
  <2>6. ASSUME NEW x \in Tx, UpdateTank(x) PROVE PromisesSound'
    BY <1>0, <2>6, UpdateTankPromises
  <2>7. ASSUME NEW x \in Tx, Commit(x) PROVE PromisesSound'
    BY <1>0, <2>7, CommitPromises
  <2>8. ASSUME NEW x \in Tx, FailCancel(x) \/ FailUpdate(x) \/ DeadlockAbort(x) \/ Disconnect(x)
        PROVE  PromisesSound'
    <3>1. Rollback(x)
      BY <2>8 DEF FailCancel, FailUpdate, DeadlockAbort, Disconnect
    <3> QED
      BY <1>0, <3>1, RollbackPromises
  <2> QED
    BY <2>1, <2>2, <2>3, <2>4, <2>5, <2>6, <2>7, <2>8 DEF Next, ContinueTx
<1> QED
  BY <1>1, <1>2

LEMMA InitPromises == Init => PromisesSound
<1> SUFFICES ASSUME Init PROVE PromisesSound
  OBVIOUS
<1>1. UnheldAreClean /\ TodoIsReserved
  BY DEF Init, UnheldAreClean, TodoIsReserved, Idle
<1>2. ASSUME NEW x \in Tx, NEW p \in Pool PROVE ReservedBy(x, p) = Promising(x, p)
  <2>1. \A t \in PoolTanks(p) : ReservedChange(x)[t] = 0
    BY NullIsNoValue DEF Init, ReservedChange, PoolTanks
  <2>2. ReservedBy(x, p) = 0
    BY <2>1, PoolTanksFinite, SumOfZeros DEF ReservedBy
  <2> QED
    BY <2>2 DEF Init, Promising, Idle
<1>3. ASSUME NEW p \in Pool PROVE ReservedOf(p) = Promised(p)
  <2>1. ReservedOf(p) = 0
    <3> DEFINE f == [t \in Tank |-> tank[t].reserved]
    <3>1. \A t \in PoolTanks(p) : f[t] = 0
      BY DEF Init, PoolTanks
    <3> HIDE DEF f
    <3>2. SumFunctionOnSet(f, PoolTanks(p)) = 0
      BY <3>1, PoolTanksFinite, SumOfZeros
    <3> QED
      BY <3>2 DEF ReservedOf, f
  <2>2. UNION {ItemsOf(d) : d \in WaitingOrders} = {}
    BY DEF Init, ItemsOf
  <2> QED
    BY <2>1, <2>2, NoVolume DEF Promised
<1> QED
  BY <1>1, <1>2, <1>3 DEF PromisesSound, ReservedIsPromised, ReservationsMatchOrders

LEMMA PromisesAreSound ==
  ASSUME OneTankPerPool
  PROVE  DisciplinedSpec => [](Typed /\ InStep /\ PromisesSound)
<1>1. Typed /\ InStep /\ PromisesSound /\ [DisciplinedNext]_vars => PromisesSound'
  BY StepPromises
<1> QED
  BY <1>1, InitTyped, InitInStep, InitPromises, StepTyped, StepInStep,
     DisciplinedIsNext, PTL DEF DisciplinedSpec

\* While callers keep to the steps of the orders, and each pool is one tank,
\* what is reserved is exactly what the approved and assigned orders asked for:
\* no cancellation, loading, refusal or rollback leaves a reservation behind or
\* clears one that is somebody else's.
THEOREM ReservationsFollowOrders == OneTankPerPool /\ DisciplinedSpec => []ReservationsMatchOrders
<1> SUFFICES ASSUME OneTankPerPool PROVE DisciplinedSpec => []ReservationsMatchOrders
  OBVIOUS
<1>1. PromisesSound => ReservationsMatchOrders
  BY DEF PromisesSound
<1> QED
  BY <1>1, PromisesAreSound, PTL

\* Under the same rules an order that was approved is never refused its fuel
\* at the loading bay: the deduction's WHERE clause finds what was reserved.
THEOREM ReservedFuelStays == OneTankPerPool /\ DisciplinedSpec => []ReservedFuelIsThere
<1> SUFFICES ASSUME OneTankPerPool PROVE DisciplinedSpec => []ReservedFuelIsThere
  OBVIOUS
<1>1. Typed /\ InStep /\ PromisesSound /\ TanksSound => ReservedFuelIsThere
  <2> SUFFICES ASSUME Typed, InStep, PromisesSound, TanksSound,
                      NEW x \in Tx, tx[x].op = "load", NEW l \in tx[x].todo,
                      NEW t \in Candidates(l), TankFree(x, t)
               PROVE  ~Refused(x, l, t)
    BY DEF ReservedFuelIsThere
  <2>1. dirty[t].reserved >= LineVolume[l]
    BY StillReserved
  <2>2. /\ dirty[t].reserved <= dirty[t].current
        /\ dirty[t].reserved \in Int /\ dirty[t].current \in Int /\ LineVolume[l] \in Int
    BY ConstantTypes DEF TanksSound, Sound, Candidates, Typed, TypeOK, Row, Work
  <2> QED
    BY <2>1, <2>2 DEF Refused
<1>2. Init => TanksSound
  BY ConstantTypes, StartWithinCapacity DEF Init, TanksSound, Sound
<1> QED
  BY <1>1, <1>2, PromisesAreSound, InitTyped, StepTyped, StepSound, DisciplinedIsNext, PTL
  DEF DisciplinedSpec

=============================================================================
