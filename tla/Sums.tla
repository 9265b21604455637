-------------------------------- MODULE Sums --------------------------------
(***************************************************************************)
(* What the sum of a function over a finite set is.  SumFunctionOnSet is   *)
(* defined by recursion over the subsets of the set, in the order in which *)
(* CHOOSE takes the elements.  The facts below say that this is a          *)
(* definition, that the order does not matter, and what a sum becomes when *)
(* an element is added, left out, or gets another value.  Induction is by  *)
(* the least counterexample (SmallestMember).                              *)
(***************************************************************************)
EXTENDS Integers, FiniteSets, Functions, FiniteSetTheorems,
        WellFoundedInduction, TLAPS

Pick(s) == CHOOSE x \in s : TRUE

\* One step of the recursion, g being the sums of the smaller sets.
SumStep(g, f, s) == IF s = {} THEN 0 ELSE f[Pick(s)] + g[s \ {Pick(s)}]

\* g is the sums of the subsets of S, as the recursion has them.
AreSums(g, f, S) == g = [s \in SUBSET S |-> SumStep(g, f, s)]

\* g is right on the subsets that have no more than n elements.
RightUpTo(g, f, S, n) ==
    /\ g \in [SUBSET S -> Int]
    /\ \A s \in SUBSET S : Cardinality(s) <= n => g[s] = SumStep(g, f, s)

Numbers(f, S) == \A x \in S : f[x] \in Int

-----------------------------------------------------------------------------
(* The recursion defines a function.                                       *)

LEMMA SmallestMember ==
    ASSUME NEW T \in SUBSET Nat, T # {}
    PROVE  \E n \in T : \A m \in T : n <= m
<1>1. PICK n \in T : \A m \in T : <<m, n>> \notin OpToRel(<, Nat)
  BY NatLessThanWellFounded, WFMin
<1>2. \A m \in Nat : m < n => <<m, n>> \in OpToRel(<, Nat)
  BY DEF OpToRel
<1>3. \A m \in T : ~(m < n) /\ m \in Nat /\ n \in Nat
  BY <1>1, <1>2
<1> QED
  BY <1>3

LEMMA PickIn == ASSUME NEW s, s # {} PROVE Pick(s) \in s
  BY DEF Pick

LEMMA OneLess ==
    ASSUME NEW S, IsFiniteSet(S), NEW x \in S
    PROVE  /\ IsFiniteSet(S \ {x})
           /\ Cardinality(S) \in Nat /\ Cardinality(S \ {x}) \in Nat
           /\ Cardinality(S \ {x}) = Cardinality(S) - 1
  BY FS_RemoveElement, FS_CardinalityType

LEMMA SumsUpTo ==
    ASSUME NEW S, IsFiniteSet(S), NEW f, Numbers(f, S), NEW n \in Nat
    PROVE  \E g : RightUpTo(g, f, S, n)
<1> DEFINE Wrong == {k \in Nat : ~ \E g : RightUpTo(g, f, S, k)}
<1> SUFFICES ASSUME Wrong # {} PROVE FALSE
  OBVIOUS
<1>1. PICK k \in Wrong : \A m \in Wrong : k <= m
  BY SmallestMember
<1>2. CASE k = 0
  <2> DEFINE g == [s \in SUBSET S |-> 0]
  <2>1. g \in [SUBSET S -> Int]
    OBVIOUS
  <2>2. \A s \in SUBSET S : Cardinality(s) <= 0 => g[s] = SumStep(g, f, s)
    BY FS_Subset, FS_EmptySet, FS_CardinalityType DEF SumStep
  <2> QED
    BY <2>1, <2>2, <1>2 DEF RightUpTo
<1>3. CASE k # 0
  <2>1. k - 1 \in Nat /\ k - 1 \notin Wrong
    BY <1>1, <1>3
  <2>2. PICK g : RightUpTo(g, f, S, k - 1)
    BY <2>1
  <2> DEFINE h == [s \in SUBSET S |->
                     IF Cardinality(s) <= k - 1 THEN g[s] ELSE SumStep(g, f, s)]
  <2>3. \A s \in SUBSET S : s # {} =>
            /\ Pick(s) \in s /\ s \ {Pick(s)} \in SUBSET S
            /\ IsFiniteSet(s) /\ Cardinality(s) \in Nat
            /\ Cardinality(s \ {Pick(s)}) = Cardinality(s) - 1
    BY PickIn, FS_Subset, OneLess
  <2>4. ASSUME NEW s \in SUBSET S
        PROVE  SumStep(g, f, s) \in Int
    <3>1. CASE s = {}
      BY <3>1 DEF SumStep
    <3>2. CASE s # {}
      <4>1. f[Pick(s)] \in Int /\ g[s \ {Pick(s)}] \in Int
        BY <2>2, <2>3, <3>2 DEF RightUpTo, Numbers
      <4> QED
        BY <3>2, <4>1 DEF SumStep
    <3> QED
      BY <3>1, <3>2
  <2>5. h \in [SUBSET S -> Int]
    BY <2>2, <2>4 DEF RightUpTo
  <2>6. ASSUME NEW s \in SUBSET S, Cardinality(s) <= k
        PROVE  h[s] = SumStep(h, f, s)
    <3>1. h[s] = SumStep(g, f, s)
      BY <2>2 DEF RightUpTo
    <3>2. CASE s = {}
      BY <3>1, <3>2 DEF SumStep
    <3>3. CASE s # {}
      <4>1. h[s \ {Pick(s)}] = g[s \ {Pick(s)}]
        BY <2>3, <2>6, <3>3
      <4> QED
        BY <3>1, <3>3, <4>1 DEF SumStep
    <3> QED
      BY <3>2, <3>3
  <2> QED
    BY <2>5, <2>6 DEF RightUpTo
<1> QED
  BY <1>2, <1>3

LEMMA SumsExist ==
    ASSUME NEW S, IsFiniteSet(S), NEW f, Numbers(f, S)
    PROVE  \E g \in [SUBSET S -> Int] : AreSums(g, f, S)
<1>1. PICK g : RightUpTo(g, f, S, Cardinality(S))
  BY SumsUpTo, FS_CardinalityType
<1>2. \A s \in SUBSET S : Cardinality(s) <= Cardinality(S)
  BY FS_Subset
<1>3. g = [s \in SUBSET S |-> g[s]]
  BY <1>1 DEF RightUpTo
<1>4. AreSums(g, f, S)
  BY <1>1, <1>2, <1>3 DEF RightUpTo, AreSums
<1> QED
  BY <1>1, <1>4 DEF RightUpTo

LEMMA SumIsSum ==
    ASSUME NEW S, IsFiniteSet(S), NEW f, Numbers(f, S)
    PROVE  \E g : AreSums(g, f, S) /\ SumFunctionOnSet(f, S) = g[S]
<1> DEFINE g == CHOOSE g : AreSums(g, f, S)
<1>1. AreSums(g, f, S)
  BY SumsExist
<1>2. SumFunctionOnSet(f, S) = g[S]
  BY DEF SumFunctionOnSet, FoldFunctionOnSet, MapThenFoldSet, AreSums, SumStep, Pick
<1> QED
  BY <1>1, <1>2

-----------------------------------------------------------------------------
(* The value of a sum does not depend on the set whose subsets are summed. *)

LEMMA SumsAgree ==
    ASSUME NEW S, IsFiniteSet(S), NEW T, IsFiniteSet(T), NEW f, NEW g, NEW h,
           AreSums(g, f, S), AreSums(h, f, T),
           NEW s, s \subseteq S, s \subseteq T
    PROVE  g[s] = h[s]
<1> DEFINE Differ == {x \in SUBSET (S \cap T) : g[x] # h[x]}
           Wrong == {Cardinality(x) : x \in Differ}
<1> SUFFICES ASSUME Differ # {} PROVE FALSE
  OBVIOUS
<1>1. \A x \in Differ : IsFiniteSet(x) /\ Cardinality(x) \in Nat
  BY FS_Subset, FS_CardinalityType
<1>2. Wrong \in SUBSET Nat /\ Wrong # {}
  BY <1>1
<1> HIDE DEF Wrong
<1>3. PICK k \in Wrong : \A m \in Wrong : k <= m
  BY <1>2, SmallestMember
<1>4. PICK x \in Differ : Cardinality(x) = k
  BY <1>3 DEF Wrong
<1>5. x \in SUBSET S /\ x \in SUBSET T
  OBVIOUS
<1>6. g[x] = SumStep(g, f, x) /\ h[x] = SumStep(h, f, x)
  BY <1>5 DEF AreSums
<1>7. x # {}
  BY <1>6 DEF SumStep
<1> DEFINE y == x \ {Pick(x)}
<1>8. Pick(x) \in x /\ Cardinality(y) = Cardinality(x) - 1
        /\ Cardinality(x) \in Nat /\ Cardinality(y) \in Nat
  BY <1>1, <1>7, PickIn, OneLess
<1>9. y \notin Differ
  BY <1>3, <1>4, <1>8 DEF Wrong
<1>10. g[y] = h[y]
  BY <1>9
<1> QED
  BY <1>6, <1>7, <1>10 DEF SumStep

LEMMA SumEmpty == ASSUME NEW f PROVE SumFunctionOnSet(f, {}) = 0
<1>1. IsFiniteSet({}) /\ Numbers(f, {})
  BY FS_EmptySet DEF Numbers
<1>2. PICK g : AreSums(g, f, {}) /\ SumFunctionOnSet(f, {}) = g[{}]
  BY <1>1, SumIsSum
<1> QED
  BY <1>2 DEF AreSums, SumStep

LEMMA SumOneStep ==
    ASSUME NEW S, IsFiniteSet(S), S # {}, NEW f, Numbers(f, S)
    PROVE  SumFunctionOnSet(f, S) = f[Pick(S)] + SumFunctionOnSet(f, S \ {Pick(S)})
<1> DEFINE T == S \ {Pick(S)}
<1>1. IsFiniteSet(T) /\ Numbers(f, T)
  BY FS_Subset DEF Numbers
<1>2. PICK g : AreSums(g, f, S) /\ SumFunctionOnSet(f, S) = g[S]
  BY SumIsSum
<1>3. PICK h : AreSums(h, f, T) /\ SumFunctionOnSet(f, T) = h[T]
  BY <1>1, SumIsSum
<1>4. g[T] = h[T]
  BY <1>1, <1>2, <1>3, SumsAgree
<1>5. g[S] = f[Pick(S)] + g[T]
  BY <1>2 DEF AreSums, SumStep
<1> QED
  BY <1>2, <1>3, <1>4, <1>5

-----------------------------------------------------------------------------
(* Facts to cite.                                                          *)

\* A least counterexample to a statement on finite sets: it is not empty and
\* the statement holds for what is left without any of its elements.
LEMMA SmallestSet ==
    ASSUME NEW W, W # {}, \A s \in W : IsFiniteSet(s)
    PROVE  \E s \in W : \A x \in s : s \ {x} \notin W
<1> DEFINE Sizes == {Cardinality(s) : s \in W}
<1>1. Sizes \in SUBSET Nat /\ Sizes # {}
  BY FS_CardinalityType
<1> HIDE DEF Sizes
<1>2. PICK k \in Sizes : \A m \in Sizes : k <= m
  BY <1>1, SmallestMember
<1>3. PICK s \in W : Cardinality(s) = k
  BY <1>2 DEF Sizes
<1>4. ASSUME NEW x \in s, s \ {x} \in W
      PROVE  FALSE
  <2>1. k <= Cardinality(s \ {x})
    BY <1>2, <1>4 DEF Sizes
  <2>2. /\ Cardinality(s) \in Nat /\ Cardinality(s \ {x}) \in Nat
        /\ Cardinality(s \ {x}) = Cardinality(s) - 1
    BY OneLess
  <2> QED
    BY <1>3, <2>1, <2>2
<1> QED
  BY <1>3, <1>4

LEMMA SumType ==
    ASSUME NEW S, IsFiniteSet(S), NEW f, Numbers(f, S)
    PROVE  SumFunctionOnSet(f, S) \in Int
<1>1. PICK g \in [SUBSET S -> Int] : AreSums(g, f, S)
  BY SumsExist
<1>2. PICK h : AreSums(h, f, S) /\ SumFunctionOnSet(f, S) = h[S]
  BY SumIsSum
<1>3. g[S] = h[S]
  BY <1>1, <1>2, SumsAgree
<1> QED
  BY <1>1, <1>2, <1>3

LEMMA SumWithout ==
    ASSUME NEW S, IsFiniteSet(S), NEW f, Numbers(f, S), NEW x \in S
    PROVE  SumFunctionOnSet(f, S) = f[x] + SumFunctionOnSet(f, S \ {x})
<1> DEFINE W == {s \in SUBSET S :
                   \E y \in s : SumFunctionOnSet(f, s)
                                  # f[y] + SumFunctionOnSet(f, s \ {y})}
<1> SUFFICES ASSUME W # {} PROVE FALSE
  OBVIOUS
<1>1. \A s \in SUBSET S : IsFiniteSet(s) /\ Numbers(f, s)
  BY FS_Subset DEF Numbers
<1>2. PICK s \in W : \A y \in s : s \ {y} \notin W
  BY <1>1, SmallestSet
<1>3. PICK y \in s : SumFunctionOnSet(f, s) # f[y] + SumFunctionOnSet(f, s \ {y})
  OBVIOUS
<1> DEFINE c == Pick(s)
<1>4. c \in s /\ s \in SUBSET S
  BY PickIn
<1>5. SumFunctionOnSet(f, s) = f[c] + SumFunctionOnSet(f, s \ {c})
  BY <1>1, <1>4, SumOneStep
<1>6. c # y
  BY <1>3, <1>5
<1>7. SumFunctionOnSet(f, s \ {c}) = f[y] + SumFunctionOnSet(f, (s \ {c}) \ {y})
  BY <1>2, <1>4, <1>6
<1>8. SumFunctionOnSet(f, s \ {y}) = f[c] + SumFunctionOnSet(f, (s \ {y}) \ {c})
  BY <1>2, <1>4, <1>6
<1>9. (s \ {c}) \ {y} = (s \ {y}) \ {c}
  OBVIOUS
<1>10. f[c] \in Int /\ f[y] \in Int /\ SumFunctionOnSet(f, (s \ {y}) \ {c}) \in Int
  <2>1. (s \ {y}) \ {c} \in SUBSET S
    OBVIOUS
  <2> QED
    BY <1>1, <1>4, <2>1, SumType DEF Numbers
<1>11. f[c] + (f[y] + SumFunctionOnSet(f, (s \ {y}) \ {c}))
         = f[y] + (f[c] + SumFunctionOnSet(f, (s \ {y}) \ {c}))
  BY <1>10
<1> QED
  BY <1>3, <1>5, <1>7, <1>8, <1>9, <1>11

LEMMA SumWith ==
    ASSUME NEW S, IsFiniteSet(S), NEW f, NEW x, x \notin S, Numbers(f, S \cup {x})
    PROVE  SumFunctionOnSet(f, S \cup {x}) = SumFunctionOnSet(f, S) + f[x]
<1>1. IsFiniteSet(S \cup {x}) /\ (S \cup {x}) \ {x} = S /\ Numbers(f, S)
  BY FS_AddElement DEF Numbers
<1>2. SumFunctionOnSet(f, S \cup {x}) = f[x] + SumFunctionOnSet(f, S)
  BY <1>1, SumWithout
<1> QED
  BY <1>1, <1>2, SumType DEF Numbers

LEMMA SumSame ==
    ASSUME NEW S, IsFiniteSet(S), NEW f, NEW g, Numbers(f, S),
           \A x \in S : g[x] = f[x]
    PROVE  SumFunctionOnSet(g, S) = SumFunctionOnSet(f, S)
<1> DEFINE W == {s \in SUBSET S : SumFunctionOnSet(g, s) # SumFunctionOnSet(f, s)}
<1> SUFFICES ASSUME W # {} PROVE FALSE
  OBVIOUS
<1>1. \A s \in SUBSET S : IsFiniteSet(s) /\ Numbers(f, s) /\ Numbers(g, s)
  BY FS_Subset DEF Numbers
<1>2. PICK s \in W : \A y \in s : s \ {y} \notin W
  BY <1>1, SmallestSet
<1>3. s # {}
  BY SumEmpty
<1>4. PICK y \in s : TRUE
  BY <1>3
<1>5. /\ SumFunctionOnSet(g, s) = g[y] + SumFunctionOnSet(g, s \ {y})
      /\ SumFunctionOnSet(f, s) = f[y] + SumFunctionOnSet(f, s \ {y})
  BY <1>1, SumWithout
<1>6. SumFunctionOnSet(g, s \ {y}) = SumFunctionOnSet(f, s \ {y}) /\ g[y] = f[y]
  BY <1>2
<1> QED
  BY <1>5, <1>6

\* The value at one place changes.
LEMMA SumChanged ==
    ASSUME NEW S, IsFiniteSet(S), NEW f, NEW g, Numbers(f, S), NEW x \in S,
           g[x] \in Int, \A y \in S \ {x} : g[y] = f[y]
    PROVE  SumFunctionOnSet(g, S) = SumFunctionOnSet(f, S) - f[x] + g[x]
<1>1. IsFiniteSet(S \ {x}) /\ Numbers(f, S \ {x}) /\ Numbers(g, S)
  BY FS_Subset DEF Numbers
<1>2. /\ SumFunctionOnSet(f, S) = f[x] + SumFunctionOnSet(f, S \ {x})
      /\ SumFunctionOnSet(g, S) = g[x] + SumFunctionOnSet(g, S \ {x})
  BY <1>1, SumWithout
<1>3. SumFunctionOnSet(g, S \ {x}) = SumFunctionOnSet(f, S \ {x})
  BY <1>1, SumSame
<1>4. f[x] \in Int /\ SumFunctionOnSet(f, S \ {x}) \in Int
  BY <1>1, SumType DEF Numbers
<1> QED
  BY <1>2, <1>3, <1>4

\* A sum over two disjoint sets.
LEMMA SumParts ==
    ASSUME NEW S, IsFiniteSet(S), NEW T \in SUBSET S, NEW f, Numbers(f, S)
    PROVE  SumFunctionOnSet(f, S) = SumFunctionOnSet(f, T) + SumFunctionOnSet(f, S \ T)
<1> DEFINE W == {s \in SUBSET T : SumFunctionOnSet(f, S)
                   # SumFunctionOnSet(f, S \ s) + SumFunctionOnSet(f, s)}
<1> SUFFICES W = {}
  <2>1. IsFiniteSet(T) /\ IsFiniteSet(S \ T) /\ Numbers(f, T) /\ Numbers(f, S \ T)
    BY FS_Subset DEF Numbers
  <2>2. SumFunctionOnSet(f, T) \in Int /\ SumFunctionOnSet(f, S \ T) \in Int
    BY <2>1, SumType
  <2> QED
    BY <2>2
<1> SUFFICES ASSUME W # {} PROVE FALSE
  OBVIOUS
<1>1. \A s \in SUBSET S :
        IsFiniteSet(s) /\ Numbers(f, s) /\ SumFunctionOnSet(f, s) \in Int
  BY FS_Subset, SumType DEF Numbers
<1>2. PICK s \in W : \A y \in s : s \ {y} \notin W
  BY <1>1, SmallestSet
<1>3. s # {}
  <2>1. /\ S \ {} = S /\ S \in SUBSET S
        /\ SumFunctionOnSet(f, S) = SumFunctionOnSet(f, S) + 0
    BY <1>1
  <2> QED
    BY <2>1, SumEmpty
<1>4. PICK y \in s : TRUE
  BY <1>3
<1>5. SumFunctionOnSet(f, S)
        = SumFunctionOnSet(f, S \ (s \ {y})) + SumFunctionOnSet(f, s \ {y})
  BY <1>2
<1>6. (S \ (s \ {y})) \ {y} = S \ s /\ y \in S /\ y \in S \ (s \ {y})
  OBVIOUS
<1>7. SumFunctionOnSet(f, S \ (s \ {y})) = f[y] + SumFunctionOnSet(f, S \ s)
  BY <1>1, <1>6, SumWithout
<1>8. SumFunctionOnSet(f, s) = f[y] + SumFunctionOnSet(f, s \ {y})
  BY <1>1, SumWithout
<1>9. /\ f[y] \in Int /\ SumFunctionOnSet(f, S \ s) \in Int
      /\ SumFunctionOnSet(f, s \ {y}) \in Int
  BY <1>1, <1>6 DEF Numbers
<1>10. (f[y] + SumFunctionOnSet(f, S \ s)) + SumFunctionOnSet(f, s \ {y})
         = SumFunctionOnSet(f, S \ s) + (f[y] + SumFunctionOnSet(f, s \ {y}))
  BY <1>9
<1>11. SumFunctionOnSet(f, S) = SumFunctionOnSet(f, S \ s) + SumFunctionOnSet(f, s)
  BY <1>5, <1>7, <1>8, <1>10
<1> QED
  BY <1>2, <1>11

\* Nothing negative is summed.
LEMMA SumNatural ==
    ASSUME NEW S, IsFiniteSet(S), NEW f, \A x \in S : f[x] \in Nat
    PROVE  SumFunctionOnSet(f, S) \in Nat
<1> DEFINE W == {s \in SUBSET S : SumFunctionOnSet(f, s) \notin Nat}
<1> SUFFICES ASSUME W # {} PROVE FALSE
  OBVIOUS
<1>1. \A s \in SUBSET S : IsFiniteSet(s) /\ Numbers(f, s)
  BY FS_Subset DEF Numbers
<1>2. PICK s \in W : \A y \in s : s \ {y} \notin W
  BY <1>1, SmallestSet
<1>3. s # {}
  BY SumEmpty
<1>4. PICK y \in s : TRUE
  BY <1>3
<1>5. SumFunctionOnSet(f, s) = f[y] + SumFunctionOnSet(f, s \ {y})
  BY <1>1, SumWithout
<1>6. SumFunctionOnSet(f, s \ {y}) \in Nat /\ f[y] \in Nat
  BY <1>2
<1> QED
  BY <1>5, <1>6

\* Nothing is added but zeros.
LEMMA SumZero ==
    ASSUME NEW S, IsFiniteSet(S), NEW f, \A x \in S : f[x] = 0
    PROVE  SumFunctionOnSet(f, S) = 0
<1> DEFINE W == {s \in SUBSET S : SumFunctionOnSet(f, s) # 0}
<1> SUFFICES ASSUME W # {} PROVE FALSE
  OBVIOUS
<1>1. \A s \in SUBSET S : IsFiniteSet(s) /\ Numbers(f, s)
  BY FS_Subset DEF Numbers
<1>2. PICK s \in W : \A y \in s : s \ {y} \notin W
  BY <1>1, SmallestSet
<1>3. s # {}
  BY SumEmpty
<1>4. PICK y \in s : TRUE
  BY <1>3
<1>5. SumFunctionOnSet(f, s) = f[y] + SumFunctionOnSet(f, s \ {y})
  BY <1>1, SumWithout
<1>6. SumFunctionOnSet(f, s \ {y}) = 0 /\ f[y] = 0
  BY <1>2
<1> QED
  BY <1>5, <1>6
\* Every number summed changes its sign.
LEMMA SumNegated ==
    ASSUME NEW S, IsFiniteSet(S), NEW f, NEW g, Numbers(f, S),
           \A x \in S : g[x] = -f[x]
    PROVE  SumFunctionOnSet(g, S) = -SumFunctionOnSet(f, S)
<1> DEFINE W == {s \in SUBSET S : SumFunctionOnSet(g, s) # -SumFunctionOnSet(f, s)}
<1> SUFFICES ASSUME W # {} PROVE FALSE
  OBVIOUS
<1>1. \A s \in SUBSET S : IsFiniteSet(s) /\ Numbers(f, s) /\ Numbers(g, s)
  BY FS_Subset DEF Numbers
<1>2. PICK s \in W : \A y \in s : s \ {y} \notin W
  BY <1>1, SmallestSet
<1>3. s # {}
  BY SumEmpty
<1>4. PICK y \in s : TRUE
  BY <1>3
<1>5. /\ SumFunctionOnSet(g, s) = g[y] + SumFunctionOnSet(g, s \ {y})
      /\ SumFunctionOnSet(f, s) = f[y] + SumFunctionOnSet(f, s \ {y})
  BY <1>1, SumWithout
<1>6. SumFunctionOnSet(g, s \ {y}) = -SumFunctionOnSet(f, s \ {y}) /\ g[y] = -f[y]
  BY <1>2
<1>7. f[y] \in Int /\ SumFunctionOnSet(f, s \ {y}) \in Int
  BY <1>1, SumType DEF Numbers
<1> QED
  BY <1>5, <1>6, <1>7

\* T has the elements of S under other names, one each.
Renames(h, S, T) ==
    /\ \A x \in S : h[x] \in T
    /\ \A t \in T : \E x \in S : t = h[x]
    /\ \A x, y \in S : h[x] = h[y] => x = y

LEMMA SumImage ==
    ASSUME NEW S, IsFiniteSet(S), NEW T, NEW h, Renames(h, S, T),
           NEW f, NEW g, Numbers(g, S), \A x \in S : f[h[x]] = g[x]
    PROVE  SumFunctionOnSet(f, T) = SumFunctionOnSet(g, S) /\ IsFiniteSet(T)
<1> DEFINE Image(s) == {t \in T : \E x \in s : t = h[x]}
           Right(s) == /\ SumFunctionOnSet(f, Image(s)) = SumFunctionOnSet(g, s)
                       /\ IsFiniteSet(Image(s))
           W == {s \in SUBSET S : ~Right(s)}
<1> SUFFICES W = {}
  <2>1. Image(S) = T /\ S \in SUBSET S
    BY DEF Renames
  <2> QED
    BY <2>1
<1> SUFFICES ASSUME W # {} PROVE FALSE
  OBVIOUS
<1>1. \A s \in SUBSET S : IsFiniteSet(s) /\ Numbers(g, s)
  BY FS_Subset DEF Numbers
<1>2. PICK s \in W : \A y \in s : s \ {y} \notin W
  BY <1>1, SmallestSet
<1>3. Image({}) = {} /\ IsFiniteSet({})
  BY FS_EmptySet
<1>4. s # {}
  BY <1>3, SumEmpty
<1>5. PICK y \in s : TRUE
  BY <1>4
<1> DEFINE r == s \ {y}
           A == Image(r)
           z == h[y]
<1>6. SumFunctionOnSet(f, A) = SumFunctionOnSet(g, r) /\ IsFiniteSet(A)
  BY <1>2
<1>7. Image(s) = A \cup {z} /\ z \notin A /\ f[z] = g[y]
  BY DEF Renames
<1>8. SumFunctionOnSet(g, s) = g[y] + SumFunctionOnSet(g, r)
  BY <1>1, SumWithout
<1>9. Numbers(f, A \cup {z})
  BY <1>7 DEF Numbers
<1>10. g[y] \in Int /\ SumFunctionOnSet(g, r) \in Int
  BY <1>1, SumType DEF Numbers
<1>11. Right(s)
  <2> HIDE DEF A, z, r
  <2>1. SumFunctionOnSet(f, A \cup {z}) = SumFunctionOnSet(f, A) + f[z]
    BY <1>6, <1>7, <1>9, SumWith
  <2>2. IsFiniteSet(A \cup {z})
    BY <1>6, FS_AddElement
  <2>3. SumFunctionOnSet(f, A \cup {z}) = SumFunctionOnSet(g, s)
    BY <1>6, <1>7, <1>8, <1>10, <2>1
  <2> QED
    BY <1>7, <2>2, <2>3
<1> QED
  BY <1>11

\* A sum of equal numbers.
LEMMA SumConstant ==
    ASSUME NEW S, IsFiniteSet(S), NEW f, NEW c \in Int, \A x \in S : f[x] = c
    PROVE  SumFunctionOnSet(f, S) = c * Cardinality(S)
<1> DEFINE W == {s \in SUBSET S : SumFunctionOnSet(f, s) # c * Cardinality(s)}
<1> SUFFICES ASSUME W # {} PROVE FALSE
  OBVIOUS
<1>1. \A s \in SUBSET S : IsFiniteSet(s) /\ Numbers(f, s)
  BY FS_Subset DEF Numbers
<1>2. PICK s \in W : \A y \in s : s \ {y} \notin W
  <2>1. \A s \in W : IsFiniteSet(s)
    BY <1>1
  <2> HIDE DEF W
  <2> QED
    BY <2>1, SmallestSet
<1>3. s # {}
  <2>1. SumFunctionOnSet(f, {}) = 0 /\ Cardinality({}) = 0 /\ c * 0 = 0
    BY SumEmpty, FS_EmptySet
  <2> QED
    BY <1>2, <2>1
<1>4. PICK x \in s : TRUE
  BY <1>3
<1>5. SumFunctionOnSet(f, s \ {x}) = c * Cardinality(s \ {x})
  BY <1>2, <1>4
<1>6. SumFunctionOnSet(f, s) = f[x] + SumFunctionOnSet(f, s \ {x})
  BY <1>1, <1>2, <1>4, SumWithout
<1>7. /\ Cardinality(s) \in Nat /\ Cardinality(s \ {x}) \in Nat
      /\ Cardinality(s) = Cardinality(s \ {x}) + 1
  <2>1. IsFiniteSet(s)
    BY <1>1, <1>2
  <2> HIDE DEF W
  <2>2. /\ Cardinality(s) \in Nat /\ Cardinality(s \ {x}) \in Nat
        /\ Cardinality(s \ {x}) = Cardinality(s) - 1
    BY <1>4, <2>1, OneLess
  <2> QED
    BY <2>2
<1>8. c * Cardinality(s) = c + c * Cardinality(s \ {x})
  <2> DEFINE n == Cardinality(s \ {x})
  <2>1. n \in Nat /\ Cardinality(s) = n + 1
    BY <1>7
  <2> HIDE DEF n
  <2>2. c * (n + 1) = c + c * n
    BY <2>1
  <2> QED
    BY <2>1, <2>2 DEF n
<1>9. f[x] = c
  BY <1>2, <1>4
<1> QED
  BY <1>2, <1>5, <1>6, <1>8, <1>9

\* The sum of a function is its sum over its domain.
LEMMA SumFunctionOf ==
    ASSUME NEW S, IsFiniteSet(S), NEW f, Numbers(f, S)
    PROVE  SumFunction([x \in S |-> f[x]]) = SumFunctionOnSet(f, S)
<1> DEFINE g == [x \in S |-> f[x]]
<1>1. SumFunction(g) = SumFunctionOnSet(g, S) /\ \A x \in S : g[x] = f[x]
  BY DEF SumFunction
<1> HIDE DEF g
<1>2. SumFunctionOnSet(g, S) = SumFunctionOnSet(f, S)
  BY <1>1, SumSame
<1> QED
  BY <1>1, <1>2 DEF g
=============================================================================
