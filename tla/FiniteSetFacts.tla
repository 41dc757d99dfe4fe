--------------------------- MODULE FiniteSetFacts ---------------------------
(***************************************************************************)
(* What the proofs use of the libraries of theorems on numbers and finite  *)
(* sets.  A proof module takes SetFacts as an assumption of its lemmas and *)
(* proves it at its end, where it brings the libraries into scope: what    *)
(* comes before is then checked without some hundred theorems that it does *)
(* not use.                                                                *)
(***************************************************************************)
EXTENDS Integers, FiniteSets

\* A set of natural numbers that is not empty has a least element.
LeastNumbers == \A S \in SUBSET Nat : S # {} => \E x \in S : \A y \in S : x <= y

\* A finite set has a number of elements, and its subsets are finite and no larger.
FiniteSubsets ==
    \A S : IsFiniteSet(S) =>
        /\ Cardinality(S) \in Nat
        /\ \A T \in SUBSET S : /\ IsFiniteSet(T) /\ Cardinality(T) \in Nat
                               /\ Cardinality(T) <= Cardinality(S)
                               /\ Cardinality(T) = Cardinality(S) => T = S

FiniteEmpty ==
    /\ IsFiniteSet({}) /\ Cardinality({}) = 0
    /\ \A S : IsFiniteSet(S) => (Cardinality(S) = 0 <=> S = {})

FiniteSingletons == \A x : IsFiniteSet({x}) /\ Cardinality({x}) = 1

FiniteAdd ==
    \A S, x : IsFiniteSet(S) =>
        /\ IsFiniteSet(S \cup {x})
        /\ Cardinality(S \cup {x}) = IF x \in S THEN Cardinality(S) ELSE Cardinality(S) + 1

FiniteRemove ==
    \A S, x : IsFiniteSet(S) =>
        /\ IsFiniteSet(S \ {x})
        /\ Cardinality(S \ {x}) = IF x \in S THEN Cardinality(S) - 1 ELSE Cardinality(S)

FiniteUnions ==
    \A S, T : IsFiniteSet(S) /\ IsFiniteSet(T) =>
        /\ IsFiniteSet(S \cup T)
        /\ Cardinality(S \cup T) = Cardinality(S) + Cardinality(T) - Cardinality(S \cap T)

FiniteUNION == \A S : IsFiniteSet(S) /\ (\A T \in S : IsFiniteSet(T)) => IsFiniteSet(UNION S)

FiniteProducts ==
    \A S, T : IsFiniteSet(S) /\ IsFiniteSet(T) =>
        IsFiniteSet(S \X T) /\ Cardinality(S \X T) = Cardinality(S) * Cardinality(T)

FiniteIntervals ==
    \A a, b \in Int :
        IsFiniteSet(a .. b) /\ Cardinality(a .. b) = IF a > b THEN 0 ELSE b - a + 1

\* The values of a function on a finite set are finitely many, and as many as the
\* set has elements when no two are equal.
FiniteImages ==
    \A S, T : \A f \in [S -> T] :
        IsFiniteSet(S) /\ (\A y \in T : \E x \in S : f[x] = y) =>
            /\ IsFiniteSet(T)
            /\ (\A x, y \in S : f[x] = f[y] => x = y) => Cardinality(T) = Cardinality(S)

SetFacts ==
    /\ LeastNumbers /\ FiniteSubsets /\ FiniteEmpty /\ FiniteSingletons /\ FiniteAdd
    /\ FiniteRemove /\ FiniteUnions /\ FiniteUNION /\ FiniteProducts /\ FiniteIntervals
    /\ FiniteImages
=============================================================================
