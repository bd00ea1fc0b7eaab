------------------------------ MODULE SumLaws ------------------------------
(***************************************************************************)
(* The laws of SumOver and Cardinality that the accounting proofs use, for *)
(* every function with integer values and every finite set: the sum of an  *)
(* empty set, of one element more or less, of a function changed at one    *)
(* point, and of two functions added.                                      *)
(*                                                                         *)
(* SumOver is the fold of the community modules, a function on sets        *)
(* defined by recursion with CHOOSE. Two things have to be shown before    *)
(* any law: that a function with that recursion exists, and that it is     *)
(* unique. Both need induction over finite sets, which is used in the form *)
(* of a set: the collection of the sets that satisfy the claim contains    *)
(* every set whose strict subsets it contains, so it contains every subset *)
(* of a finite set. That follows from the well-foundedness of < on the     *)
(* naturals, applied to the length of an enumeration of the set.           *)
(* Cardinality is the sum of ones.                                         *)
(***************************************************************************)
EXTENDS Sums, Sequences, WellFoundedInduction, TLAPS

(* The empty set is finite. *)
LEMMA FiniteEmpty == IsFiniteSet({})
<1>1. <<>> \in Seq({}) /\ \A s \in {} : \E n \in 1..Len(<<>>) : <<>>[n] = s
  OBVIOUS
<1> QED
  BY ZenonT(20), <1>1 DEF IsFiniteSet

(* A subset of a finite set is finite: the members of a committee, the days *)
(* of a batch.                                                              *)
LEMMA FiniteSubset ==
  ASSUME NEW S, IsFiniteSet(S), NEW T \in SUBSET S
  PROVE  IsFiniteSet(T)
<1>1. PICK seq \in Seq(S) : \A s \in S : \E n \in 1..Len(seq) : seq[n] = s
  BY DEF IsFiniteSet
<1>2. CASE T = {}
  BY <1>2, FiniteEmpty
<1>3. CASE T # {}
  <2>1. PICK t : t \in T
    BY <1>3
  <2> DEFINE q == [i \in 1..Len(seq) |-> IF seq[i] \in T THEN seq[i] ELSE t]
  <2>2. q \in Seq(T) /\ Len(q) = Len(seq)
    BY <2>1
  <2>3. \A s \in T : \E n \in 1..Len(q) : q[n] = s
    <3> TAKE s \in T
    <3>1. PICK n \in 1..Len(seq) : seq[n] = s
      BY <1>1
    <3>2. q[n] = s /\ n \in 1..Len(q)
      BY <2>2, <3>1
    <3> QED
      BY <3>2
  <2> HIDE DEF q
  <2> QED
    BY <2>2, <2>3 DEF IsFiniteSet
<1> QED
  BY <1>2, <1>3

(* A finite set with one element more is finite. *)
LEMMA FiniteAdd ==
  ASSUME NEW S, IsFiniteSet(S), NEW x
  PROVE  IsFiniteSet(S \cup {x})
<1>1. PICK seq \in Seq(S) : \A s \in S : \E n \in 1..Len(seq) : seq[n] = s
  BY DEF IsFiniteSet
<1> DEFINE q == [i \in 1..(Len(seq) + 1) |-> IF i = Len(seq) + 1 THEN x ELSE seq[i]]
<1>2. q \in Seq(S \cup {x}) /\ Len(q) = Len(seq) + 1
  <2>1. \A i \in 1..(Len(seq) + 1) : q[i] \in S \cup {x}
    OBVIOUS
  <2> QED
    BY <2>1
<1>3. \A s \in S \cup {x} : \E n \in 1..Len(q) : q[n] = s
  <2> TAKE s \in S \cup {x}
  <2>1. CASE s = x
    <3>1. q[Len(seq) + 1] = x /\ Len(seq) + 1 \in 1..Len(q)
      BY <1>2
    <3> QED
      BY <3>1, <2>1
  <2>2. CASE s # x
    <3>1. PICK n \in 1..Len(seq) : seq[n] = s
      BY <1>1, <2>2
    <3>2. q[n] = s /\ n \in 1..Len(q)
      BY <1>2, <3>1
    <3> QED
      BY <3>2
  <2> QED
    BY ZenonT(20), <2>1, <2>2
<1> HIDE DEF q
<1> QED
  BY ZenonT(20), <1>2, <1>3 DEF IsFiniteSet

(* The blocks and the days of an instance, which are intervals, are finite. *)
LEMMA FiniteInterval ==
  ASSUME NEW a \in Nat, NEW b \in Nat
  PROVE  IsFiniteSet(a..b)
<1>1. CASE a > b
  BY <1>1, FiniteEmpty
<1>2. CASE a <= b
  <2> DEFINE q == [i \in 1..(b - a + 1) |-> a + i - 1]
  <2>1. q \in Seq(a..b) /\ Len(q) = b - a + 1
    BY <1>2
  <2>2. \A s \in a..b : \E n \in 1..Len(q) : q[n] = s
    <3> TAKE s \in a..b
    <3>1. s - a + 1 \in 1..Len(q) /\ q[s - a + 1] = s
      BY <2>1, <1>2
    <3> QED
      BY <3>1
  <2> HIDE DEF q
  <2> QED
    BY ZenonT(20), <2>1, <2>2 DEF IsFiniteSet
<1> QED
  BY <1>1, <1>2

(* Induction over the naturals, with the claim as a set. *)
LEMMA NatSetInduction ==
  ASSUME NEW B, 0 \in B, \A n \in Nat : n \in B => n + 1 \in B
  PROVE  Nat \subseteq B
<1> DEFINE Bad == {n \in Nat : n \notin B}
           R == OpToRel(<, Nat)
<1>1. IsWellFoundedOn(R, Nat)
  BY NatLessThanWellFounded DEF OpToRel
<1>2. CASE Bad # {}
  <2> HIDE DEF R
  <2>1. PICK n \in Bad : \A m \in Bad : ~(<<m, n>> \in R)
    <3>1. Bad \subseteq Nat
      OBVIOUS
    <3> HIDE DEF Bad
    <3> QED
      BY ZenonT(20), <1>1, <1>2, <3>1, WFMin
  <2>2. n # 0 /\ n - 1 \in Nat /\ n - 1 < n /\ n = (n - 1) + 1
    BY <2>1
  <2>3. <<n - 1, n>> \in R
    BY <2>1, <2>2 DEF R, OpToRel
  <2>4. n - 1 \in B
    BY <2>1, <2>2, <2>3
  <2> QED
    BY <2>1, <2>2, <2>4
<1> QED
  BY <1>2

(* Strong induction over the subsets of a finite set, with the claim as a   *)
(* set.                                                                     *)
LEMMA SubsetStrongInduction ==
  ASSUME NEW S, IsFiniteSet(S), NEW B,
         \A T \in SUBSET S : (\A U \in SUBSET T : U # T => U \in B) => T \in B
  PROVE  SUBSET S \subseteq B
<1> DEFINE Covers(f, n, T) == \A t \in T : \E i \in 1..n : f[i] = t
           G == {n \in Nat : \A T \in SUBSET S : \A f : Covers(f, n, T) => T \in B}
<1>1. 0 \in G
  <2>1. ASSUME NEW T \in SUBSET S, NEW f, Covers(f, 0, T) PROVE T \in B
    <3>1. \A t \in T : FALSE
      <4> TAKE t \in T
      <4>1. \E i \in 1..0 : f[i] = t
        BY <2>1
      <4> QED
        BY <4>1
    <3>2. \A U \in SUBSET T : U = T
      BY ZenonT(20), <3>1
    <3> QED
      BY <3>2
  <2> HIDE DEF Covers
  <2> QED
    BY <2>1
<1>2. ASSUME NEW n \in Nat, n \in G PROVE n + 1 \in G
  <2> SUFFICES ASSUME NEW T \in SUBSET S, NEW f, Covers(f, n + 1, T) PROVE T \in B
    <3> HIDE DEF Covers
    <3> QED
      OBVIOUS
  <2>1. ASSUME NEW U \in SUBSET T, U # T PROVE U \in B
    <3>1. PICK t \in T : t \notin U
      BY <2>1
    <3>2. PICK k \in 1..(n + 1) : f[k] = t
      OBVIOUS
    <3> DEFINE g == [i \in 1..n |-> IF i = k THEN f[n + 1] ELSE f[i]]
    <3>3. ASSUME NEW u \in U PROVE \E i \in 1..n : g[i] = u
      <4>1. PICK j \in 1..(n + 1) : f[j] = u
        OBVIOUS
      <4>2. j # k
        BY <3>1, <3>2, <4>1
      <4>3. CASE j = n + 1
        <5>1. k \in 1..n /\ g[k] = u
          BY <4>1, <4>2, <4>3
        <5> QED
          BY <5>1
      <4>4. CASE j # n + 1
        <5>1. j \in 1..n /\ g[j] = u
          BY <4>1, <4>2, <4>4
        <5> QED
          BY <5>1
      <4> QED
        BY <4>3, <4>4
    <3>4. U \in SUBSET S /\ Covers(g, n, U)
      BY <3>3
    <3> HIDE DEF g, Covers
    <3> QED
      BY <1>2, <3>4
  <2> QED
    BY <2>1
<1>3. Nat \subseteq G
  <2> HIDE DEF G
  <2> QED
    BY <1>1, <1>2, NatSetInduction
<1>4. PICK seq \in Seq(S) : \A s \in S : \E n \in 1..Len(seq) : seq[n] = s
  BY DEF IsFiniteSet
<1>5. \A T \in SUBSET S : Covers(seq, Len(seq), T)
  BY <1>4
<1>6. Len(seq) \in G
  <2> HIDE DEF G
  <2> QED
    BY <1>3
<1> HIDE DEF Covers
<1> QED
  BY ZenonT(20), <1>5, <1>6

(* A collection that contains the empty set and is closed under adding an   *)
(* element of S contains every subset of the finite set S.                  *)
LEMMA SubsetInduction ==
  ASSUME NEW S, IsFiniteSet(S), NEW B, {} \in B,
         \A T \in SUBSET S : \A x \in S \ T : T \in B => T \cup {x} \in B
  PROVE  SUBSET S \subseteq B
<1>1. ASSUME NEW T \in SUBSET S, \A U \in SUBSET T : U # T => U \in B PROVE T \in B
  <2>1. CASE T # {}
    <3>1. PICK x : x \in T
      BY <2>1
    <3>2. T \ {x} \in SUBSET S /\ x \in S \ (T \ {x}) /\ (T \ {x}) \cup {x} = T
      BY <3>1
    <3>3. T \ {x} \in B
      BY <3>1, <1>1
    <3>4. (T \ {x}) \cup {x} \in B
      BY <3>2, <3>3
    <3> QED
      BY ZenonT(20), <3>2, <3>4
  <2> QED
    BY ZenonT(20), <2>1
<1> QED
  BY <1>1, SubsetStrongInduction

(* The element of a set that the fold takes first. *)
Pick(s) == CHOOSE x \in s : TRUE

(* It is an element of the set. *)
LEMMA PickMember == ASSUME NEW s, s # {} PROVE Pick(s) \in s
BY DEF Pick

(* g is the function on the sets of D that the fold of f defines. *)
SumRec(g, f, D) == g = [s \in D |-> IF s = {} THEN 0 ELSE f[Pick(s)] + g[s \ {Pick(s)}]]

(* Such a function at one set. *)
LEMMA SumRecAt ==
  ASSUME NEW S, NEW f, NEW g, SumRec(g, f, SUBSET S), NEW s \in SUBSET S
  PROVE  g[s] = IF s = {} THEN 0 ELSE f[Pick(s)] + g[s \ {Pick(s)}]
BY ZenonT(20) DEF SumRec

(* Two such functions agree where both are defined. *)
LEMMA SumRecUnique ==
  ASSUME NEW S, IsFiniteSet(S), NEW f, NEW g, NEW h, NEW T \in SUBSET S,
         SumRec(g, f, SUBSET S), SumRec(h, f, SUBSET T)
  PROVE  g[T] = h[T]
<1> DEFINE B == {s \in SUBSET T : g[s] = h[s]}
<1>1. ASSUME NEW s \in SUBSET T, \A u \in SUBSET s : u # s => u \in B
      PROVE  s \in B
  <2>1. g[s] = (IF s = {} THEN 0 ELSE f[Pick(s)] + g[s \ {Pick(s)}])
    BY SumRecAt
  <2>2. h[s] = (IF s = {} THEN 0 ELSE f[Pick(s)] + h[s \ {Pick(s)}])
    BY SumRecAt
  <2>3. CASE s # {}
    <3>1. s \ {Pick(s)} \in SUBSET s /\ s \ {Pick(s)} # s
      BY <2>3, PickMember
    <3>2. g[s \ {Pick(s)}] = h[s \ {Pick(s)}]
      BY <3>1, <1>1
    <3> QED
      BY <2>1, <2>2, <2>3, <3>2
  <2> QED
    BY <2>1, <2>2, <2>3
<1>2. SUBSET T \subseteq B
  <2>1. IsFiniteSet(T)
    BY FiniteSubset
  <2> HIDE DEF B
  <2> QED
    BY <1>1, <2>1, SubsetStrongInduction
<1> QED
  BY <1>2

(* Such a function exists on the subsets of a finite set. *)
LEMMA SumRecExists ==
  ASSUME NEW S, IsFiniteSet(S), NEW f
  PROVE  \E g : SumRec(g, f, SUBSET S)
<1> DEFINE B == {T \in SUBSET S : \E g : SumRec(g, f, SUBSET T)}
           G(u) == CHOOSE g : SumRec(g, f, SUBSET u)
<1>1. ASSUME NEW T \in SUBSET S, \A U \in SUBSET T : U # T => U \in B
      PROVE  T \in B
  <2> DEFINE h == [s \in SUBSET T |->
                     IF s = {} THEN 0 ELSE f[Pick(s)] + G(s \ {Pick(s)})[s \ {Pick(s)}]]
  <2>1. ASSUME NEW u \in SUBSET T, u # T PROVE SumRec(G(u), f, SUBSET u)
    <3>1. u \in B
      BY ZenonT(20), <1>1, <2>1
    <3>2. \E g : SumRec(g, f, SUBSET u)
      BY ZenonT(20), <3>1
    <3> QED
      BY ZenonT(20), <3>2
  <2>2. ASSUME NEW u \in SUBSET T, u # T PROVE h[u] = G(u)[u]
    <3> DEFINE g == G(u)
               r == u \ {Pick(u)}
               k == G(r)
    <3>1. SumRec(g, f, SUBSET u)
      BY ZenonT(20), <2>1, <2>2
    <3>2. CASE u = {}
      <4>1. g[u] = 0
        <5> HIDE DEF g
        <5> QED
          BY ZenonT(20), <3>1, <3>2, SumRecAt
      <4> QED
        BY <3>2, <4>1
    <3>3. CASE u # {}
      <4>1. r \in SUBSET u /\ r \in SUBSET T /\ r # T
        BY <2>2
      <4>2. SumRec(k, f, SUBSET r)
        <5> HIDE DEF r
        <5> QED
          BY ZenonT(20), <2>1, <4>1
      <4>3. IsFiniteSet(u)
        BY FiniteSubset
      <4>4. h[u] = f[Pick(u)] + k[r]
        BY <3>3
      <4> HIDE DEF g, k, r, h
      <4>5. g[r] = k[r]
        BY <3>1, <4>1, <4>2, <4>3, SumRecUnique
      <4>6. g[u] = f[Pick(u)] + g[r]
        BY <3>1, <3>3, SumRecAt DEF r
      <4> QED
        BY <4>4, <4>5, <4>6 DEF g
    <3> QED
      BY <3>2, <3>3
  <2>3. ASSUME NEW s \in SUBSET T
        PROVE  h[s] = IF s = {} THEN 0 ELSE f[Pick(s)] + h[s \ {Pick(s)}]
    <3>1. CASE s = {}
      BY <3>1
    <3>2. CASE s # {}
      <4> DEFINE u == s \ {Pick(s)}
      <4>1. u \in SUBSET T /\ u # T
        BY <3>2, PickMember
      <4>2. h[u] = G(u)[u]
        <5> HIDE DEF u, h, G
        <5> QED
          BY <2>2, <4>1
      <4>3. h[s] = f[Pick(s)] + G(u)[u]
        BY <3>2
      <4> HIDE DEF h
      <4> QED
        BY <3>2, <4>2, <4>3
    <3> QED
      BY <3>1, <3>2
  <2>4. SumRec(h, f, SUBSET T)
    <3>1. h = [s \in SUBSET T |-> h[s]]
      OBVIOUS
    <3> HIDE DEF h
    <3> QED
      BY ZenonT(20), <2>3, <3>1 DEF SumRec
  <2> QED
    BY <2>4
<1>2. SUBSET S \subseteq B
  <2> HIDE DEF B
  <2> QED
    BY <1>1, SubsetStrongInduction
<1> QED
  BY ZenonT(20), <1>2


(* SumOver is the recursive function of the fold, taken at the set itself.    *)
LEMMA SumOverIter ==
  ASSUME NEW S, IsFiniteSet(S), NEW f
  PROVE  \E g : SumRec(g, f, SUBSET S) /\ SumOver(f, S) = g[S]
<1>1. \E g : SumRec(g, f, SUBSET S)
  BY ZenonT(20), SumRecExists
<1>2. SumOver(f, S) = (CHOOSE g : SumRec(g, f, SUBSET S))[S]
  BY DEF SumOver, MapThenFoldSet, SumRec, Pick
<1> QED
  BY ZenonT(20), <1>1, <1>2

(* One step of the recursion: the total is the entry taken next and the total *)
(* of the rest.                                                               *)
LEMMA SumUnfold ==
  ASSUME NEW S, IsFiniteSet(S), NEW f
  PROVE  SumOver(f, S) = IF S = {} THEN 0
                         ELSE f[Pick(S)] + SumOver(f, S \ {Pick(S)})
<1>1. PICK g : SumRec(g, f, SUBSET S) /\ SumOver(f, S) = g[S]
  BY ZenonT(20), SumOverIter
<1>2. g[S] = IF S = {} THEN 0 ELSE f[Pick(S)] + g[S \ {Pick(S)}]
  BY ZenonT(20), <1>1 DEF SumRec
<1> DEFINE T == S \ {Pick(S)}
<1>3. T \in SUBSET S /\ IsFiniteSet(T)
  BY FiniteSubset
<1>4. PICK h : SumRec(h, f, SUBSET T) /\ SumOver(f, T) = h[T]
  BY ZenonT(20), <1>3, SumOverIter
<1>5. g[T] = h[T]
  <2>1. SumRec(g, f, SUBSET S) /\ SumRec(h, f, SUBSET T)
    BY <1>1, <1>4
  <2> HIDE DEF T
  <2> QED
    BY <1>3, <2>1, SumRecUnique
<1> QED
  BY <1>1, <1>2, <1>4, <1>5

-----------------------------------------------------------------------------
(* The order of the elements does not matter.                                 *)

(* The total of integer entries is an integer.                                *)
LEMMA SumInt ==
  ASSUME NEW S, IsFiniteSet(S), NEW f, \A x \in S : f[x] \in Int
  PROVE  \A T \in SUBSET S : SumOver(f, T) \in Int
<1> DEFINE B == {T \in SUBSET S : SumOver(f, T) \in Int}
<1>1. ASSUME NEW T \in SUBSET S, \A U \in SUBSET T : U # T => U \in B
      PROVE  T \in B
  <2>1. SumOver(f, T) = IF T = {} THEN 0 ELSE f[Pick(T)] + SumOver(f, T \ {Pick(T)})
    BY ZenonT(20), FiniteSubset, SumUnfold
  <2>2. CASE T # {}
    <3>1. Pick(T) \in T
      BY <2>2, PickMember
    <3>2. SumOver(f, T \ {Pick(T)}) \in Int
      BY <3>1, <1>1
    <3> QED
      BY <2>1, <2>2, <3>1, <3>2
  <2> QED
    BY <2>1, <2>2
<1>2. SUBSET S \subseteq B
  <2> HIDE DEF B
  <2> QED
    BY <1>1, SubsetStrongInduction
<1> QED
  BY <1>2

(* Any entry can be taken out of a total first, not only the one that the     *)
(* fold takes: a loop of the contracts over validators, days or blocks may    *)
(* visit them in any order.                                                   *)
LEMMA SumRemove ==
  ASSUME NEW S, IsFiniteSet(S), NEW f, \A x \in S : f[x] \in Int
  PROVE  \A T \in SUBSET S : \A x \in T : SumOver(f, T) = f[x] + SumOver(f, T \ {x})
<1> DEFINE B == {T \in SUBSET S : \A x \in T : SumOver(f, T) = f[x] + SumOver(f, T \ {x})}
<1>1. ASSUME NEW T \in SUBSET S, \A U \in SUBSET T : U # T => U \in B
      PROVE  T \in B
  <2> SUFFICES ASSUME NEW x \in T PROVE SumOver(f, T) = f[x] + SumOver(f, T \ {x})
    OBVIOUS
  <2> DEFINE p == Pick(T)
  <2>1. p \in T
    BY PickMember
  <2>2. SumOver(f, T) = f[p] + SumOver(f, T \ {p})
    BY ZenonT(20), FiniteSubset, SumUnfold, <2>1
  <2> HIDE DEF p
  <2>3. CASE x = p
    BY <2>2, <2>3
  <2>4. CASE x # p
    <3>1. x \in T \ {p} /\ T \ {p} \in SUBSET T /\ T \ {p} # T
      BY <2>1, <2>4
    <3>2. p \in T \ {x} /\ T \ {x} \in SUBSET T /\ T \ {x} # T
      BY <2>1, <2>4
    <3>3. SumOver(f, T \ {p}) = f[x] + SumOver(f, (T \ {p}) \ {x})
      BY <3>1, <1>1
    <3>4. SumOver(f, T \ {x}) = f[p] + SumOver(f, (T \ {x}) \ {p})
      BY <3>2, <1>1
    <3>5. SumOver(f, (T \ {p}) \ {x}) = SumOver(f, (T \ {x}) \ {p})
      <4>1. (T \ {p}) \ {x} = (T \ {x}) \ {p}
        OBVIOUS
      <4> QED
        BY <4>1, Zenon
    <3>6. SumOver(f, (T \ {p}) \ {x}) \in Int /\ f[x] \in Int /\ f[p] \in Int
      <4>1. (T \ {p}) \ {x} \in SUBSET S
        OBVIOUS
      <4>2. SumOver(f, (T \ {p}) \ {x}) \in Int
        BY <4>1, SumInt
      <4> QED
        BY <4>2, <2>1
    <3> QED
      <4> DEFINE a == SumOver(f, T \ {p})
                 b == SumOver(f, T \ {x})
                 c == SumOver(f, (T \ {p}) \ {x})
      <4>1. a = f[x] + c /\ b = f[p] + c /\ SumOver(f, T) = f[p] + a
        BY <2>2, <3>3, <3>4, <3>5
      <4>2. c \in Int /\ f[x] \in Int /\ f[p] \in Int
        BY <3>6
      <4> HIDE DEF a, b, c
      <4>3. SumOver(f, T) = f[x] + b
        BY <4>1, <4>2
      <4> QED
        BY <4>3 DEF b
  <2> QED
    BY <2>3, <2>4
<1>2. SUBSET S \subseteq B
  <2> HIDE DEF B
  <2> QED
    BY <1>1, SubsetStrongInduction
<1> QED
  BY <1>2

-----------------------------------------------------------------------------
(* The laws.                                                                  *)

(* Nothing adds up to 0.                                                      *)
LEMMA SumEmpty ==
  ASSUME NEW f
  PROVE  SumOver(f, {}) = 0
BY FiniteEmpty, SumUnfold

(* One entry more.                                                            *)
LEMMA SumAdd ==
  ASSUME NEW S, IsFiniteSet(S), NEW x, x \notin S,
         NEW f, \A y \in S \cup {x} : f[y] \in Int
  PROVE  SumOver(f, S \cup {x}) = f[x] + SumOver(f, S)
<1> DEFINE T == S \cup {x}
<1>1. IsFiniteSet(T)
  BY ZenonT(20), FiniteAdd
<1>2. T \in SUBSET T /\ x \in T /\ \A y \in T : f[y] \in Int
  OBVIOUS
<1>3. T \ {x} = S
  OBVIOUS
<1> HIDE DEF T
<1>4. SumOver(f, T) = f[x] + SumOver(f, T \ {x})
  BY <1>1, <1>2, SumRemove
<1> QED
  BY <1>3, <1>4 DEF T

(* A total of integers is an integer.                                         *)
LEMMA SumType ==
  ASSUME NEW S, IsFiniteSet(S), NEW f, \A x \in S : f[x] \in Int
  PROVE  SumOver(f, S) \in Int
<1>1. S \in SUBSET S
  OBVIOUS
<1> QED
  BY <1>1, SumInt

(* A total is any one of its entries and the total of the others.             *)
LEMMA SumOne ==
  ASSUME NEW S, IsFiniteSet(S), NEW f, NEW x \in S, \A y \in S : f[y] \in Int
  PROVE  SumOver(f, S) = f[x] + SumOver(f, S \ {x})
<1>1. S \in SUBSET S
  OBVIOUS
<1> QED
  BY <1>1, SumRemove

(* Equal entries have equal totals.                                           *)
LEMMA SumEqual ==
  ASSUME NEW S, IsFiniteSet(S), NEW f, NEW g,
         \A x \in S : f[x] \in Int /\ f[x] = g[x]
  PROVE  SumOver(f, S) = SumOver(g, S)
<1> DEFINE B == {T \in SUBSET S : SumOver(f, T) = SumOver(g, T)}
<1>1. {} \in B
  BY SumEmpty
<1>2. ASSUME NEW T \in SUBSET S, NEW x \in S \ T, T \in B
      PROVE  T \cup {x} \in B
  <2>1. IsFiniteSet(T)
    BY FiniteSubset
  <2>2. \A y \in T \cup {x} : f[y] \in Int /\ g[y] \in Int
    OBVIOUS
  <2>3. SumOver(f, T \cup {x}) = f[x] + SumOver(f, T)
    BY ZenonT(20), <2>1, <2>2, SumAdd
  <2>4. SumOver(g, T \cup {x}) = g[x] + SumOver(g, T)
    BY ZenonT(20), <2>1, <2>2, SumAdd
  <2>5. f[x] = g[x] /\ SumOver(f, T) = SumOver(g, T)
    BY <1>2
  <2> QED
    BY <2>3, <2>4, <2>5
<1>3. SUBSET S \subseteq B
  <2> HIDE DEF B
  <2> QED
    BY <1>1, <1>2, SubsetInduction
<1> QED
  BY <1>3

(* A total of natural numbers is a natural number: balances do not become     *)
(* negative by being added up.                                                *)
LEMMA SumNat ==
  ASSUME NEW S, IsFiniteSet(S), NEW f, \A x \in S : f[x] \in Nat
  PROVE  SumOver(f, S) \in Nat
<1> DEFINE B == {T \in SUBSET S : SumOver(f, T) \in Nat}
<1>1. {} \in B
  BY SumEmpty
<1>2. ASSUME NEW T \in SUBSET S, NEW x \in S \ T, T \in B
      PROVE  T \cup {x} \in B
  <2>1. IsFiniteSet(T)
    BY FiniteSubset
  <2>2. \A y \in T \cup {x} : f[y] \in Int
    OBVIOUS
  <2>3. SumOver(f, T \cup {x}) = f[x] + SumOver(f, T)
    BY ZenonT(20), <2>1, <2>2, SumAdd
  <2>4. f[x] \in Nat /\ SumOver(f, T) \in Nat
    BY <1>2
  <2> QED
    BY <2>3, <2>4
<1>3. SUBSET S \subseteq B
  <2> HIDE DEF B
  <2> QED
    BY ZenonT(20), <1>1, <1>2, SubsetInduction
<1> QED
  BY <1>3

(* A total of zeros is 0.                                                     *)
LEMMA SumZero ==
  ASSUME NEW S, IsFiniteSet(S), NEW f, \A x \in S : f[x] = 0
  PROVE  SumOver(f, S) = 0
<1> DEFINE B == {T \in SUBSET S : SumOver(f, T) = 0}
<1>1. {} \in B
  BY SumEmpty
<1>2. ASSUME NEW T \in SUBSET S, NEW x \in S \ T, T \in B
      PROVE  T \cup {x} \in B
  <2>1. IsFiniteSet(T)
    BY FiniteSubset
  <2>2. \A y \in T \cup {x} : f[y] \in Int
    OBVIOUS
  <2>3. SumOver(f, T \cup {x}) = f[x] + SumOver(f, T)
    BY ZenonT(20), <2>1, <2>2, SumAdd
  <2> QED
    BY <2>3, <1>2
<1>3. SUBSET S \subseteq B
  <2> HIDE DEF B
  <2> QED
    BY <1>1, <1>2, SubsetInduction
<1> QED
  BY <1>3

(* f and g have integer values on S and differ at x only.                     *)
DifferAt(f, g, S, x) ==
  /\ x \in S
  /\ \A y \in S : f[y] \in Int /\ g[y] \in Int
  /\ \A y \in S : y # x => g[y] = f[y]

(* A write to one entry changes the total by the difference of that entry.    *)
LEMMA SumUpdate ==
  ASSUME NEW S, IsFiniteSet(S), NEW f, NEW g, NEW x, DifferAt(f, g, S, x)
  PROVE  SumOver(g, S) = SumOver(f, S) - f[x] + g[x]
<1> USE DEF DifferAt
<1> DEFINE T == S \ {x}
<1>1. IsFiniteSet(T)
  BY FiniteSubset
<1>2. SumOver(f, T) = SumOver(g, T)
  <2>1. \A y \in T : f[y] \in Int /\ f[y] = g[y]
    OBVIOUS
  <2> HIDE DEF T
  <2> QED
    BY <1>1, <2>1, SumEqual
<1>3. SumOver(f, S) = f[x] + SumOver(f, T)
  BY SumOne
<1>4. SumOver(g, S) = g[x] + SumOver(g, T)
  BY SumOne
<1>5. SumOver(f, T) \in Int
  <2>1. \A y \in T : f[y] \in Int
    OBVIOUS
  <2> HIDE DEF T
  <2> QED
    BY <1>1, <2>1, SumType
<1> QED
  BY <1>2, <1>3, <1>4, <1>5

(* The total of entrywise sums is the sum of the totals: a batch that adds to *)
(* every account adds its own total.                                          *)
LEMMA SumPlus ==
  ASSUME NEW S, IsFiniteSet(S), NEW f, NEW g, NEW h,
         \A x \in S : f[x] \in Int /\ g[x] \in Int /\ h[x] = f[x] + g[x]
  PROVE  SumOver(h, S) = SumOver(f, S) + SumOver(g, S)
<1> DEFINE B == {T \in SUBSET S : SumOver(h, T) = SumOver(f, T) + SumOver(g, T)}
<1>1. {} \in B
  BY SumEmpty
<1>2. ASSUME NEW T \in SUBSET S, NEW x \in S \ T, T \in B
      PROVE  T \cup {x} \in B
  <2>1. IsFiniteSet(T)
    BY FiniteSubset
  <2>2. \A y \in T \cup {x} : f[y] \in Int /\ g[y] \in Int /\ h[y] \in Int
    OBVIOUS
  <2>3. SumOver(f, T \cup {x}) = f[x] + SumOver(f, T)
    BY ZenonT(20), <2>1, <2>2, SumAdd
  <2>4. SumOver(g, T \cup {x}) = g[x] + SumOver(g, T)
    BY ZenonT(20), <2>1, <2>2, SumAdd
  <2>5. SumOver(h, T \cup {x}) = h[x] + SumOver(h, T)
    BY ZenonT(20), <2>1, <2>2, SumAdd
  <2>6. SumOver(f, T) \in Int /\ SumOver(g, T) \in Int
    BY <2>1, <2>2, SumType
  <2>7. SumOver(h, T) = SumOver(f, T) + SumOver(g, T) /\ h[x] = f[x] + g[x]
    BY <1>2
  <2>8. f[x] \in Int /\ g[x] \in Int
    OBVIOUS
  <2> QED
    BY <2>3, <2>4, <2>5, <2>6, <2>7, <2>8
<1>3. SUBSET S \subseteq B
  <2> HIDE DEF B
  <2> QED
    BY ZenonT(20), <1>1, <1>2, SubsetInduction
<1> QED
  BY <1>3


(* The cardinality of a finite set is the sum of ones over it. *)
LEMMA CardSum ==
  ASSUME NEW S, IsFiniteSet(S), NEW f, \A x \in S : f[x] = 1
  PROVE  Cardinality(S) = SumOver(f, S)
<1>1. \A s : (CHOOSE x : x \in s) = Pick(s)
  BY DEF Pick
<1> DEFINE Rec(g) == g = [s \in SUBSET S |-> IF s = {} THEN 0 ELSE 1 + g[s \ {CHOOSE x : x \in s}]]
<1>2. Cardinality(S) = (CHOOSE g : Rec(g))[S]
  BY DEF Cardinality
<1>3. ASSUME NEW g PROVE Rec(g) <=> SumRec(g, f, SUBSET S)
  <2>1. ASSUME NEW s \in SUBSET S
        PROVE  (IF s = {} THEN 0 ELSE 1 + g[s \ {CHOOSE x : x \in s}])
               = (IF s = {} THEN 0 ELSE f[Pick(s)] + g[s \ {Pick(s)}])
    <3>1. s # {} => f[Pick(s)] = 1
      BY PickMember
    <3> QED
      BY ZenonT(20), <1>1, <3>1
  <2> QED
    BY ZenonT(20), <2>1 DEF SumRec
<1>4. PICK h : SumRec(h, f, SUBSET S) /\ SumOver(f, S) = h[S]
  BY ZenonT(20), SumOverIter
<1> DEFINE c == CHOOSE g : Rec(g)
<1>5. SumRec(c, f, SUBSET S)
  <2>1. Rec(h)
    BY ZenonT(20), <1>3, <1>4
  <2> HIDE DEF Rec
  <2>2. Rec(c)
    BY <2>1
  <2> QED
    BY ZenonT(20), <2>2, <1>3
<1>6. c[S] = h[S]
  <2> HIDE DEF c
  <2> QED
    BY <1>4, <1>5, SumRecUnique
<1> QED
  BY <1>2, <1>4, <1>6

(* The cardinality of a finite set is a natural number. *)
LEMMA CardType ==
  ASSUME NEW S, IsFiniteSet(S)
  PROVE  Cardinality(S) \in Nat
<1> DEFINE f == [x \in S |-> 1]
<1>1. \A x \in S : f[x] = 1 /\ f[x] \in Nat
  OBVIOUS
<1> HIDE DEF f
<1> QED
  BY <1>1, CardSum, SumNat

(* The empty set has no element. *)
LEMMA CardEmpty == Cardinality({}) = 0
<1>1. \A x \in {} : [y \in {} |-> 1][x] = 1
  OBVIOUS
<1> QED
  BY <1>1, FiniteEmpty, CardSum, SumEmpty

(* One more element counts one more: a member that joins those counted. *)
LEMMA CardAdd ==
  ASSUME NEW S, IsFiniteSet(S), NEW x, x \notin S
  PROVE  Cardinality(S \cup {x}) = Cardinality(S) + 1
<1> DEFINE f == [y \in S \cup {x} |-> 1]
<1>1. \A y \in S \cup {x} : f[y] = 1 /\ f[y] \in Int
  OBVIOUS
<1>2. f[x] = 1 /\ \A y \in S : f[y] = 1
  OBVIOUS
<1> HIDE DEF f
<1>3. IsFiniteSet(S \cup {x})
  BY FiniteAdd
<1>4. Cardinality(S \cup {x}) = SumOver(f, S \cup {x}) /\ Cardinality(S) = SumOver(f, S)
  BY <1>1, <1>2, <1>3, CardSum
<1>5. SumOver(f, S \cup {x}) = f[x] + SumOver(f, S)
  BY ZenonT(20), <1>1, SumAdd
<1>6. Cardinality(S) \in Nat
  BY CardType
<1> QED
  BY <1>2, <1>4, <1>5, <1>6

(* One element less counts one less. *)
LEMMA CardRemove ==
  ASSUME NEW S, IsFiniteSet(S), NEW x \in S
  PROVE  Cardinality(S \ {x}) = Cardinality(S) - 1
<1>1. IsFiniteSet(S \ {x}) /\ (S \ {x}) \cup {x} = S /\ x \notin S \ {x}
  BY FiniteSubset
<1>2. Cardinality((S \ {x}) \cup {x}) = Cardinality(S \ {x}) + 1 /\ Cardinality(S \ {x}) \in Nat
  BY <1>1, CardAdd, CardType
<1> QED
  BY <1>1, <1>2

(* A set is counted by parts: the seats that wait and those that do not. *)
LEMMA CardSplit ==
  ASSUME NEW S, IsFiniteSet(S), NEW T
  PROVE  Cardinality(S) = Cardinality(S \cap T) + Cardinality(S \ T)
<1> DEFINE B == {U \in SUBSET S : Cardinality(U) = Cardinality(U \cap T) + Cardinality(U \ T)}
<1>1. {} \in B
  <2>1. {} \cap T = {} /\ {} \ T = {}
    OBVIOUS
  <2> QED
    BY <2>1, CardEmpty
<1>2. ASSUME NEW U \in SUBSET S, NEW x \in S \ U, U \in B PROVE U \cup {x} \in B
  <2>1. IsFiniteSet(U) /\ IsFiniteSet(U \cap T) /\ IsFiniteSet(U \ T)
    BY FiniteSubset
  <2>2. Cardinality(U \cup {x}) = Cardinality(U) + 1
    BY <2>1, CardAdd
  <2>3. Cardinality(U \cap T) \in Nat /\ Cardinality(U \ T) \in Nat
    BY <2>1, CardType
  <2>6. Cardinality(U) = Cardinality(U \cap T) + Cardinality(U \ T)
    BY <1>2
  <2>7. SUFFICES Cardinality(U \cup {x}) = Cardinality((U \cup {x}) \cap T) + Cardinality((U \cup {x}) \ T)
    OBVIOUS
  <2> HIDE DEF B
  <2>4. CASE x \in T
    <3>1. (U \cup {x}) \cap T = (U \cap T) \cup {x} /\ (U \cup {x}) \ T = U \ T /\ x \notin U \cap T
      BY <2>4
    <3>2. Cardinality((U \cap T) \cup {x}) = Cardinality(U \cap T) + 1
      BY ZenonT(20), <2>1, <3>1, CardAdd
    <3>3. /\ Cardinality((U \cup {x}) \cap T) = Cardinality(U \cap T) + 1
          /\ Cardinality((U \cup {x}) \ T) = Cardinality(U \ T)
      BY Zenon, <3>1, <3>2
    <3> QED
      BY SMT, <2>2, <2>3, <2>6, <3>3
  <2>5. CASE x \notin T
    <3>1. (U \cup {x}) \cap T = U \cap T /\ (U \cup {x}) \ T = (U \ T) \cup {x} /\ x \notin U \ T
      BY <2>5
    <3>2. Cardinality((U \ T) \cup {x}) = Cardinality(U \ T) + 1
      BY <2>1, <3>1, CardAdd
    <3>3. /\ Cardinality((U \cup {x}) \cap T) = Cardinality(U \cap T)
          /\ Cardinality((U \cup {x}) \ T) = Cardinality(U \ T) + 1
      BY Zenon, <3>1, <3>2
    <3> QED
      BY SMT, <2>2, <2>3, <2>6, <3>3
  <2> QED
    BY <2>4, <2>5
<1>3. SUBSET S \subseteq B
  <2> HIDE DEF B
  <2> QED
    BY ZenonT(20), <1>1, <1>2, SubsetInduction
<1> QED
  BY <1>3

(* A subset is not larger. *)
LEMMA CardSubset ==
  ASSUME NEW S, IsFiniteSet(S), NEW T \in SUBSET S
  PROVE  Cardinality(T) <= Cardinality(S)
<1>1. S \cap T = T /\ IsFiniteSet(T) /\ IsFiniteSet(S \ T)
  BY FiniteSubset
<1>2. Cardinality(S) = Cardinality(T) + Cardinality(S \ T)
  BY <1>1, CardSplit
<1>3. Cardinality(T) \in Nat /\ Cardinality(S \ T) \in Nat
  BY <1>1, CardType
<1> QED
  BY <1>2, <1>3

(* A set with an element has a positive cardinality: the denominator of a   *)
(* share.                                                                   *)
LEMMA CardPositive ==
  ASSUME NEW S, IsFiniteSet(S), S # {}
  PROVE  Cardinality(S) \in Nat \ {0}
<1>1. PICK x : x \in S
  OBVIOUS
<1>2. Cardinality(S \ {x}) = Cardinality(S) - 1 /\ IsFiniteSet(S \ {x})
  BY <1>1, CardRemove, FiniteSubset
<1>3. Cardinality(S \ {x}) \in Nat /\ Cardinality(S) \in Nat
  BY <1>2, CardType
<1> QED
  BY <1>2, <1>3
(* Members counted class by class are all counted, once each: the votes       *)
(* credited day by day are as many as the votes credited.                     *)
LEMMA CountByClass ==
  ASSUME NEW D, IsFiniteSet(D), NEW W, IsFiniteSet(W), NEW class, \A w \in W : class[w] \in D
  PROVE  SumOver([d \in D |-> Cardinality({w \in W : class[w] = d})], D) = Cardinality(W)
<1> DEFINE In(T, d) == {w \in T : class[w] = d}
           Count(T) == [d \in D |-> Cardinality(In(T, d))]
           B == {T \in SUBSET W : SumOver(Count(T), D) = Cardinality(T)}
<1>1. {} \in B
  <2>1. \A d \in D : In({}, d) = {}
    OBVIOUS
  <2>2. \A d \in D : Count({})[d] = 0
    BY <2>1, CardEmpty
  <2> HIDE DEF Count
  <2>3. SumOver(Count({}), D) = 0
    BY <2>2, SumZero
  <2> QED
    BY <2>3, CardEmpty
<1>2. ASSUME NEW T \in SUBSET W, NEW x \in W \ T, T \in B
      PROVE  T \cup {x} \in B
  <2> DEFINE U == T \cup {x}
             f == Count(T)
             g == Count(U)
             c == class[x]
  <2>1. IsFiniteSet(T) /\ IsFiniteSet(U) /\ Cardinality(U) = Cardinality(T) + 1
        /\ Cardinality(T) \in Nat
    BY FiniteSubset, FiniteAdd, CardAdd, CardType
  <2>2. \A d \in D : /\ IsFiniteSet(In(T, d)) /\ IsFiniteSet(In(U, d))
                     /\ Cardinality(In(T, d)) \in Nat /\ Cardinality(In(U, d)) \in Nat
    <3> TAKE d \in D
    <3>1. In(T, d) \in SUBSET T /\ In(U, d) \in SUBSET U
      OBVIOUS
    <3> QED
      BY <2>1, <3>1, FiniteSubset, CardType
  <2>3. \A d \in D : f[d] = Cardinality(In(T, d)) /\ g[d] = Cardinality(In(U, d))
    OBVIOUS
  <2>4. \A d \in D : d # c => In(U, d) = In(T, d)
    OBVIOUS
  <2>5. c \in D /\ In(U, c) = In(T, c) \cup {x} /\ x \notin In(T, c)
    OBVIOUS
  <2> HIDE DEF f, g, c, In
  <2>6. Cardinality(In(U, c)) = Cardinality(In(T, c)) + 1
    BY ZenonT(20), <2>2, <2>5, FiniteAdd, CardAdd
  <2>7. DifferAt(f, g, D, c)
    BY SMTT(30), Z3T(30), <2>2, <2>3, <2>4, <2>5 DEF DifferAt
  <2>8. SumOver(g, D) = SumOver(f, D) - f[c] + g[c]
    BY <2>7, SumUpdate
  <2>9. g[c] = f[c] + 1 /\ f[c] \in Nat
    BY ZenonT(20), <2>2, <2>3, <2>5, <2>6
  <2>10. SumOver(f, D) = Cardinality(T)
    BY <1>2 DEF f
  <2>11. SumOver(g, D) = Cardinality(U)
    BY <2>1, <2>8, <2>9, <2>10
  <2> QED
    BY <2>11 DEF g
<1> HIDE DEF B
<1>3. SUBSET W \subseteq B
  BY <1>1, <1>2, SubsetInduction
<1>4. W \in B
  BY <1>3
<1> QED
  BY <1>4 DEF B

=============================================================================
