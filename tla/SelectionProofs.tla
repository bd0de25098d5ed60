--------------------------- MODULE SelectionProofs ---------------------------
(***************************************************************************)
(* What a selection returns: the elements of the sequence that are in the  *)
(* set, all of them, each at a position of its own and in their order.     *)
(* The induction is over the length, by a least counterexample.            *)
(***************************************************************************)
EXTENDS Selection, WellFoundedInduction, TLAPS

\* A set of natural numbers that is not empty has a least element.
LEMMA LeastElement ==
    ASSUME NEW S, S \subseteq Nat, S # {}
    PROVE  \E j \in S : \A k \in S : j <= k
<1>1. \E j \in S : \A k \in S : <<k, j>> \notin OpToRel(<, Nat)
  BY NatLessThanWellFounded, WFMin
<1> PICK j \in S : \A k \in S : <<k, j>> \notin OpToRel(<, Nat)
  BY <1>1
<1>2. ASSUME NEW k \in S PROVE j <= k
  <2>1. k \in Nat /\ j \in Nat
    OBVIOUS
  <2>2. ~(k < j)
    BY <2>1 DEF OpToRel
  <2> QED
    BY <2>1, <2>2 DEF OpToRel
<1> QED
  BY <1>2


-----------------------------------------------------------------------------
(* The recursive function exists.                                          *)

\* what its definition says of the function, for the first n elements
Sieve(s, S, n, kept) ==
    [m \in 0 .. n |->
        IF m = 0 THEN <<>>
        ELSE IF s[m] \in S THEN Append(kept[m - 1], s[m]) ELSE kept[m - 1]]

\* There is a function that satisfies the definition: it is built one element on.
LEMMA SieveExists ==
   ASSUME NEW s, NEW S, NEW n \in Nat
   PROVE \E kept : kept = Sieve(s, S, n, kept)
<1> DEFINE Bad == {m \in Nat : ~\E kept : kept = Sieve(s, S, m, kept)}
<1> SUFFICES ASSUME Bad # {} PROVE FALSE
  OBVIOUS
<1> PICK m \in Bad : \A k \in Bad : m <= k
  BY LeastElement
<1>1. m \in Nat
  OBVIOUS
<1>2. m # 0
  <2> DEFINE f == [i \in 0 .. 0 |-> <<>>]
  <2>1. f = Sieve(s, S, 0, f)
    BY DEF Sieve
  <2>2. 0 \notin Bad
    BY <2>1
  <2> QED
    BY <2>2
<1>3. m - 1 \in Nat /\ m - 1 \notin Bad
  BY <1>1, <1>2
<1>4. PICK g : g = Sieve(s, S, m - 1, g)
  BY <1>3
<1> DEFINE f == [i \in 0 .. m |-> IF i < m THEN g[i]
                                  ELSE IF s[m] \in S THEN Append(g[m - 1], s[m]) ELSE g[m - 1]]
<1>5. f = Sieve(s, S, m, f)
  <2>1. ASSUME NEW i \in 0 .. m PROVE f[i] = Sieve(s, S, m, f)[i]
    <3>1. CASE i = m
      BY <1>1, <1>2, <3>1 DEF Sieve
    <3>2. CASE i # m
      <4>1. i \in 0 .. m - 1
        BY <1>1, <3>2
      <4>2. f[i] = g[i]
        BY <1>1, <4>1
      <4>3. g[i] = Sieve(s, S, m - 1, g)[i]
        BY <1>4
      <4>4. i # 0 => i - 1 \in 0 .. m /\ f[i - 1] = g[i - 1]
        BY <1>1, <4>1
      <4> QED
        BY <4>1, <4>2, <4>3, <4>4 DEF Sieve
    <3> QED
      BY <3>1, <3>2
  <2> HIDE DEF f
  <2>2. f = [i \in 0 .. m |-> f[i]]
    BY DEF f
  <2> QED
    BY <2>1, <2>2 DEF Sieve
<1> QED
  BY <1>1, <1>5

\* A selection is the last value of such a function.
LEMMA SelectedIsSieved ==
    ASSUME NEW s, NEW S, Len(s) \in Nat
    PROVE  \E kept : kept = Sieve(s, S, Len(s), kept) /\ Selected(s, S) = kept[Len(s)]
<1> DEFINE kept == CHOOSE k : k = Sieve(s, S, Len(s), k)
<1>1. Selected(s, S) = kept[Len(s)]
  BY Zenon DEF Selected, Sieve
<1>2. kept = Sieve(s, S, Len(s), kept)
  BY SieveExists, Zenon
<1> QED
  BY <1>1, <1>2, Zenon

-----------------------------------------------------------------------------
(* What it keeps.                                                          *)

\* q is the first n elements of s that are in S, at the positions pos
KeptAt(s, S, n, q, pos) ==
    /\ pos \in [1 .. Len(q) -> 1 .. n]
    /\ \A k \in 1 .. Len(q) : q[k] = s[pos[k]] /\ s[pos[k]] \in S
    /\ \A j, k \in 1 .. Len(q) : j < k => pos[j] < pos[k]
    /\ \A i \in 1 .. n : s[i] \in S => \E k \in 1 .. Len(q) : pos[k] = i

IsSelection(s, S, n, q) == Len(q) <= n /\ \E pos : KeptAt(s, S, n, q, pos)

\* One element more, which is kept.
LEMMA KeepOne ==
    ASSUME NEW T, NEW s \in Seq(T), NEW S, NEW n \in Nat \ {0}, n <= Len(s), s[n] \in S,
           NEW q \in Seq(T), IsSelection(s, S, n - 1, q)
    PROVE  Append(q, s[n]) \in Seq(T) /\ IsSelection(s, S, n, Append(q, s[n]))
<1> PICK pos : KeptAt(s, S, n - 1, q, pos)
  BY DEF IsSelection
<1> DEFINE new == Append(q, s[n])
           L == Len(q)
           at == [k \in 1 .. L + 1 |-> IF k = L + 1 THEN n ELSE pos[k]]
<1>1. s[n] \in T /\ L \in Nat
  OBVIOUS
<1>2. /\ new \in Seq(T) /\ Len(new) = L + 1 /\ new[L + 1] = s[n]
      /\ \A k \in 1 .. L : new[k] = q[k]
  BY <1>1
<1>3. pos \in [1 .. L -> 1 .. n - 1]
  BY DEF KeptAt
<1>4. /\ at \in [1 .. L + 1 -> 1 .. n] /\ at[L + 1] = n
      /\ \A k \in 1 .. L : at[k] = pos[k] /\ pos[k] \in 1 .. n - 1
  <2> HIDE DEF L
  <2>1. \A k \in 1 .. L : pos[k] \in 1 .. n - 1 /\ pos[k] \in 1 .. n /\ k \in 1 .. L + 1 /\ k # L + 1
    BY <1>1, <1>3
  <2>2. n \in 1 .. n /\ L + 1 \in 1 .. L + 1
    BY <1>1
  <2>3. \A k \in 1 .. L + 1 : k # L + 1 => k \in 1 .. L
    BY <1>1
  <2> QED
    BY <2>1, <2>2, <2>3
<1> HIDE DEF new, at, L
<1>5. \A k \in 1 .. L + 1 : k \in 1 .. L \/ k = L + 1
  BY <1>1
<1>6. \A k \in 1 .. L + 1 : new[k] = s[at[k]] /\ s[at[k]] \in S
  BY <1>2, <1>4, <1>5 DEF KeptAt, L
<1>7. \A j, k \in 1 .. L + 1 : j < k => at[j] < at[k]
  <2> SUFFICES ASSUME NEW j \in 1 .. L + 1, NEW k \in 1 .. L + 1, j < k PROVE at[j] < at[k]
    OBVIOUS
  <2>1. j \in 1 .. L /\ at[j] = pos[j] /\ pos[j] \in 1 .. n - 1
    BY <1>1, <1>4
  <2>2. CASE k = L + 1
    BY <1>4, <2>1, <2>2
  <2>3. CASE k \in 1 .. L
    BY <1>4, <2>1, <2>3 DEF KeptAt, L
  <2> QED
    BY <1>5, <2>2, <2>3
<1>8. \A i \in 1 .. n : s[i] \in S => \E k \in 1 .. L + 1 : at[k] = i
  <2> SUFFICES ASSUME NEW i \in 1 .. n, s[i] \in S PROVE \E k \in 1 .. L + 1 : at[k] = i
    OBVIOUS
  <2>1. CASE i = n
    <3>1. L + 1 \in 1 .. L + 1
      BY <1>1
    <3> QED
      BY <1>4, <2>1, <3>1
  <2>2. CASE i # n
    <3>1. i \in 1 .. n - 1
      BY <2>2
    <3> PICK k \in 1 .. L : pos[k] = i
      BY <3>1 DEF KeptAt, L
    <3>2. k \in 1 .. L + 1
      BY <1>1
    <3> QED
      BY <1>4, <3>2
  <2> QED
    BY <2>1, <2>2
<1>9. KeptAt(s, S, n, new, at)
  BY <1>2, <1>4, <1>6, <1>7, <1>8 DEF KeptAt
<1>10. Len(new) <= n
  BY <1>1, <1>2 DEF IsSelection, L
<1> QED
  BY <1>2, <1>9, <1>10 DEF IsSelection, new

\* One element more, which is dropped.
LEMMA DropOne ==
    ASSUME NEW T, NEW s \in Seq(T), NEW S, NEW n \in Nat \ {0}, s[n] \notin S,
           NEW q \in Seq(T), IsSelection(s, S, n - 1, q)
    PROVE  IsSelection(s, S, n, q)
<1> PICK pos : KeptAt(s, S, n - 1, q, pos)
  BY DEF IsSelection
<1>1. pos \in [1 .. Len(q) -> 1 .. n]
  BY DEF KeptAt
<1>2. \A i \in 1 .. n : s[i] \in S => i \in 1 .. n - 1
  OBVIOUS
<1>3. KeptAt(s, S, n, q, pos)
  BY <1>1, <1>2 DEF KeptAt
<1> QED
  BY <1>3 DEF IsSelection

\* The first n elements are sieved as they should be, for every n.
LEMMA SievedIsSelection ==
    ASSUME NEW T, NEW s \in Seq(T), NEW S, NEW kept, kept = Sieve(s, S, Len(s), kept)
    PROVE  \A n \in 0 .. Len(s) : kept[n] \in Seq(T) /\ IsSelection(s, S, n, kept[n])
<1> DEFINE Right(n) == kept[n] \in Seq(T) /\ IsSelection(s, S, n, kept[n])
           Wrong == {n \in 0 .. Len(s) : ~Right(n)}
<1> SUFFICES ASSUME Wrong # {} PROVE FALSE
  OBVIOUS
<1>0. Wrong \subseteq Nat
  OBVIOUS
<1> HIDE DEF Wrong
<1> PICK n \in Wrong : \A m \in Wrong : n <= m
  BY <1>0, LeastElement
<1> USE DEF Wrong
<1>1. n \in 0 .. Len(s) /\ ~Right(n)
  OBVIOUS
<1>2. kept[0] = <<>>
  BY DEF Sieve
<1>3. Right(0)
  <2>1. KeptAt(s, S, 0, <<>>, [k \in 1 .. 0 |-> 1])
    BY DEF KeptAt
  <2>2. IsSelection(s, S, 0, <<>>)
    BY <2>1 DEF IsSelection
  <2> QED
    BY <1>2, <2>2
<1>4. n # 0
  BY <1>1, <1>3
<1>5. n - 1 \in 0 .. Len(s) /\ Right(n - 1)
  BY <1>1, <1>4
<1>6. kept[n] = IF s[n] \in S THEN Append(kept[n - 1], s[n]) ELSE kept[n - 1]
  BY <1>1, <1>4 DEF Sieve
<1>7. Right(n)
  BY <1>1, <1>4, <1>5, <1>6, KeepOne, DropOne
<1> QED
  BY <1>1, <1>7

\* A selection keeps, at increasing positions, what is in the set and all of it.
LEMMA SelectedIsSelection ==
    ASSUME NEW T, NEW s \in Seq(T), NEW S
    PROVE  Selected(s, S) \in Seq(T) /\ IsSelection(s, S, Len(s), Selected(s, S))
<1>1. Len(s) \in Nat
  OBVIOUS
<1> PICK kept : kept = Sieve(s, S, Len(s), kept) /\ Selected(s, S) = kept[Len(s)]
  BY <1>1, SelectedIsSieved
<1> QED
  BY <1>1, SievedIsSelection

\* What is selected: no more elements than there were, exactly those in the set,
\* and none twice if none was there twice.
LEMMA SelectedElements ==
    ASSUME NEW T, NEW s \in Seq(T), NEW S, NEW q, q = Selected(s, S)
    PROVE  /\ q \in Seq(T) /\ Len(q) <= Len(s)
           /\ \A k \in DOMAIN q : q[k] \in S /\ \E i \in DOMAIN s : q[k] = s[i]
           /\ \A i \in DOMAIN s : s[i] \in S => \E k \in DOMAIN q : q[k] = s[i]
           /\ (\A i, j \in DOMAIN s : s[i] = s[j] => i = j) =>
                \A i, j \in DOMAIN q : q[i] = q[j] => i = j
<1>1. q \in Seq(T) /\ IsSelection(s, S, Len(s), q)
  BY SelectedIsSelection
<1> PICK pos : KeptAt(s, S, Len(s), q, pos)
  BY <1>1 DEF IsSelection
<1>2. DOMAIN q = 1 .. Len(q) /\ DOMAIN s = 1 .. Len(s) /\ Len(q) <= Len(s)
  BY <1>1 DEF IsSelection
<1>3. ASSUME NEW i \in DOMAIN q, NEW j \in DOMAIN q, pos[i] = pos[j] PROVE i = j
  <2>1. i \in 1 .. Len(q) /\ j \in 1 .. Len(q) /\ pos[i] \in Nat
    BY <1>2 DEF KeptAt
  <2>2. ~(i < j) /\ ~(j < i)
    BY <1>3, <2>1 DEF KeptAt
  <2> QED
    BY <1>1, <2>1, <2>2
<1> QED
  BY <1>1, <1>2, <1>3 DEF KeptAt


\* The first element that is in the set is the first that is selected.
LEMMA FirstSelected ==
    ASSUME NEW T, NEW s \in Seq(T), NEW S, NEW i \in DOMAIN s, s[i] \in S,
           \A j \in DOMAIN s : s[j] \in S => i <= j
    PROVE  /\ Selected(s, S) \in Seq(T) /\ Selected(s, S) # <<>>
           /\ Head(Selected(s, S)) = s[i]
<1> PICK q : q = Selected(s, S)
  OBVIOUS
<1>1. q \in Seq(T) /\ IsSelection(s, S, Len(s), q)
  BY SelectedIsSelection
<1>2. PICK pos : KeptAt(s, S, Len(s), q, pos)
  BY <1>1 DEF IsSelection
<1>3. DOMAIN s = 1 .. Len(s) /\ Len(s) \in Nat /\ Len(q) \in Nat
  BY <1>1
<1>4. PICK k \in 1 .. Len(q) : pos[k] = i
  BY <1>2, <1>3 DEF KeptAt
<1>5. 1 \in 1 .. Len(q) /\ pos[1] \in DOMAIN s
  BY <1>2, <1>3, <1>4 DEF KeptAt
<1>6. pos[1] = i
  <2>1. s[pos[1]] \in S
    BY <1>2, <1>5 DEF KeptAt
  <2>2. i <= pos[1]
    BY <1>5, <2>1
  <2>3. 1 < k => pos[1] < pos[k]
    BY <1>2, <1>4, <1>5 DEF KeptAt
  <2> QED
    BY <1>3, <1>4, <1>5, <2>2, <2>3
<1>7. q[1] = s[i]
  BY <1>2, <1>5, <1>6 DEF KeptAt
<1>8. q # <<>> /\ Head(q) = q[1]
  BY <1>1, <1>3, <1>5
<1> QED
  BY <1>1, <1>7, <1>8

\* The same of a selection from a selection: the first that is in both sets.
LEMMA FirstSelectedTwice ==
    ASSUME NEW T, NEW s \in Seq(T), NEW A, NEW B, NEW i \in DOMAIN s,
           s[i] \in A, s[i] \in B,
           \A j \in DOMAIN s : s[j] \in A /\ s[j] \in B => i <= j
    PROVE  /\ Selected(Selected(s, A), B) \in Seq(T) /\ Selected(Selected(s, A), B) # <<>>
           /\ Head(Selected(Selected(s, A), B)) = s[i]
<1> PICK q : q = Selected(s, A)
  OBVIOUS
<1>1. q \in Seq(T) /\ IsSelection(s, A, Len(s), q)
  BY SelectedIsSelection
<1>2. PICK pos : KeptAt(s, A, Len(s), q, pos)
  BY <1>1 DEF IsSelection
<1>3. /\ DOMAIN s = 1 .. Len(s) /\ Len(s) \in Nat
      /\ DOMAIN q = 1 .. Len(q) /\ Len(q) \in Nat
  BY <1>1
<1>4. PICK k \in 1 .. Len(q) : pos[k] = i
  BY <1>2, <1>3 DEF KeptAt
<1>5. q[k] = s[i]
  BY <1>2, <1>4 DEF KeptAt
<1>6. ASSUME NEW m \in DOMAIN q, q[m] \in B
      PROVE  k <= m
  <2>1. pos[m] \in DOMAIN s /\ q[m] = s[pos[m]] /\ s[pos[m]] \in A
    BY <1>2, <1>3 DEF KeptAt
  <2>2. i <= pos[m]
    BY <1>6, <2>1
  <2>3. m < k => pos[m] < pos[k]
    BY <1>2, <1>3, <1>4 DEF KeptAt
  <2> QED
    BY <1>3, <1>4, <2>1, <2>2, <2>3
<1>7. /\ Selected(q, B) \in Seq(T) /\ Selected(q, B) # <<>>
      /\ Head(Selected(q, B)) = q[k]
  <2>1. k \in DOMAIN q /\ q[k] \in B
    BY <1>3, <1>4, <1>5
  <2> QED
    BY <1>1, <1>6, <2>1, FirstSelected
<1> QED
  BY <1>5, <1>7

=============================================================================
