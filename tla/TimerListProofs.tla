-------------------------- MODULE TimerListProofs --------------------------
(***************************************************************************)
(* TimerList for any number of nodes: the pointers describe one list of    *)
(* exactly the live nodes, whatever the clock does; it is in order of      *)
(* expiry, and so a set of timers, as long as the clock is not set back.   *)
(***************************************************************************)
EXTENDS TimerList, Integers, Sequences, FiniteSetTheorems, TLAPS

USE NullAssumption, TimeoutAssumption, BoundsAssumption

----------------------------------------------------------------------------
(* Sequences without repetition. *)

LEMMA Least == ASSUME NEW T, T \subseteq Nat, T # {}
               PROVE  \E x \in T : \A y \in T : x <= y
<1>1. IsWellFoundedOn(OpToRel(<, Nat), Nat)
  BY NatLessThanWellFounded
<1>2. PICK x \in T : \A y \in T : <<y, x>> \notin OpToRel(<, Nat)
  BY <1>1, WFMin
<1>3. \A y \in T : ~(y < x)
  BY <1>2 DEF OpToRel
<1> QED
  BY <1>3

Members(s) == {s[i] : i \in 1..Len(s)}

Distinct(s) == \A i, j \in 1..Len(s) : s[i] = s[j] => i = j

Chains == {s \in Seq(Nodes) : Distinct(s)}

\* s with t behind its first j elements.
With(s, j, t) == [i \in 1..Len(s) + 1 |-> IF i <= j THEN s[i] ELSE IF i = j + 1 THEN t ELSE s[i - 1]]

\* s but for its element k.
Without(s, k) == [i \in 1..Len(s) - 1 |-> IF i < k THEN s[i] ELSE s[i + 1]]

LEMMA ChainTypes ==
    ASSUME NEW s \in Chains
    PROVE  /\ s \in Seq(Nodes) /\ Len(s) \in Nat /\ DOMAIN s = 1..Len(s) /\ \A i \in 1..Len(s) : s[i] \in Nodes
           /\ \A i, j \in 1..Len(s) : s[i] = s[j] => i = j
           /\ Members(s) \subseteq Nodes /\ \A i \in 1..Len(s) : s[i] \in Members(s)
<1>1. s \in Seq(Nodes) /\ Distinct(s)
  BY DEF Chains
<1>2. Len(s) \in Nat /\ DOMAIN s = 1..Len(s) /\ \A i \in 1..Len(s) : s[i] \in Nodes
  BY <1>1
<1> QED
  BY <1>1, <1>2 DEF Distinct, Members

LEMMA WithChain ==
    ASSUME NEW s \in Chains, NEW j \in 0..Len(s), NEW t \in Nodes \ Members(s)
    PROVE  /\ With(s, j, t) \in Chains /\ Len(With(s, j, t)) = Len(s) + 1
           /\ \A i \in 1..j : With(s, j, t)[i] = s[i]
           /\ With(s, j, t)[j + 1] = t
           /\ \A i \in j + 2..Len(s) + 1 : With(s, j, t)[i] = s[i - 1]
           /\ Members(With(s, j, t)) = Members(s) \cup {t}
<1> DEFINE w == With(s, j, t)
<1>1. Len(s) \in Nat /\ j \in Nat /\ j <= Len(s) /\ \A i \in 1..Len(s) : s[i] \in Nodes /\ s[i] # t
  BY ChainTypes
<1>2. w = [i \in 1..Len(s) + 1 |-> IF i <= j THEN s[i] ELSE IF i = j + 1 THEN t ELSE s[i - 1]]
  BY DEF With
<1> HIDE DEF w
<1>3. \A i \in 1..Len(s) + 1 : w[i] = IF i <= j THEN s[i] ELSE IF i = j + 1 THEN t ELSE s[i - 1]
  BY <1>2
<1>4. \A i \in 1..Len(s) + 1 : w[i] \in Nodes
  <2> SUFFICES ASSUME NEW i \in 1..Len(s) + 1 PROVE w[i] \in Nodes
    OBVIOUS
  <2>1. CASE i <= j
    BY <1>1, <1>3, <2>1
  <2>2. CASE i = j + 1
    BY <1>1, <1>3, <2>2
  <2>3. CASE i > j + 1
    <3>1. i - 1 \in 1..Len(s) /\ w[i] = s[i - 1]
      BY <1>1, <1>3, <2>3
    <3> QED
      BY <1>1, <3>1
  <2> QED
    BY <1>1, <2>1, <2>2, <2>3
<1>5. w \in Seq(Nodes) /\ Len(w) = Len(s) + 1
  BY <1>1, <1>2, <1>4
<1>6. (\A i \in 1..j : w[i] = s[i]) /\ w[j + 1] = t /\ \A i \in j + 2..Len(s) + 1 : w[i] = s[i - 1]
  BY <1>1, <1>3
<1>7. Distinct(w)
  <2> SUFFICES ASSUME NEW a \in 1..Len(s) + 1, NEW b \in 1..Len(s) + 1, w[a] = w[b], a < b PROVE FALSE
    BY <1>1, <1>5 DEF Distinct
  <2>1. CASE b <= j
    <3>1. w[a] = s[a] /\ w[b] = s[b] /\ a \in 1..Len(s) /\ b \in 1..Len(s)
      BY <1>1, <1>3, <2>1
    <3>2. a # b
      BY <1>1, <3>1
    <3>3. s[a] = s[b]
      BY <3>1
    <3> QED
      BY <3>1, <3>2, <3>3, ChainTypes
  <2>2. CASE b = j + 1
    <3>1. w[a] = s[a] /\ w[b] = t /\ a \in 1..Len(s)
      BY <1>1, <1>3, <2>2
    <3> QED
      BY <1>1, <3>1
  <2>3. CASE b > j + 1
    <3>1. w[b] = s[b - 1] /\ b - 1 \in 1..Len(s)
      BY <1>1, <1>3, <2>3
    <3>2. CASE a <= j
      <4>1. w[a] = s[a] /\ a \in 1..Len(s) /\ a # b - 1
        BY <1>1, <1>3, <2>3, <3>2
      <4> QED
        BY <3>1, <4>1, ChainTypes
    <3>3. CASE a = j + 1
      BY <1>1, <1>3, <3>1, <3>3
    <3>4. CASE a > j + 1
      <4>1. w[a] = s[a - 1] /\ a - 1 \in 1..Len(s) /\ a - 1 # b - 1
        BY <1>1, <1>3, <3>4
      <4> QED
        BY <3>1, <4>1, ChainTypes
    <3> QED
      BY <1>1, <3>2, <3>3, <3>4
  <2> QED
    BY <1>1, <2>1, <2>2, <2>3
<1>8. Members(w) = Members(s) \cup {t}
  <2>1. ASSUME NEW i \in 1..Len(s) + 1 PROVE w[i] \in Members(s) \cup {t}
    <3>1. CASE i <= j
      BY <1>1, <1>3, <3>1 DEF Members
    <3>2. CASE i = j + 1
      BY <1>1, <1>3, <3>2
    <3>3. CASE i > j + 1
      <4>1. i - 1 \in 1..Len(s) /\ w[i] = s[i - 1]
        BY <1>1, <1>3, <3>3
      <4> QED
        BY <4>1 DEF Members
    <3> QED
      BY <1>1, <3>1, <3>2, <3>3
  <2>2. ASSUME NEW i \in 1..Len(s) PROVE \E k \in 1..Len(s) + 1 : w[k] = s[i]
    <3>1. CASE i <= j
      <4>1. i \in 1..Len(s) + 1 /\ w[i] = s[i]
        BY <1>1, <1>3, <3>1
      <4> QED
        BY <4>1
    <3>2. CASE i > j
      <4>1. i + 1 \in 1..Len(s) + 1 /\ w[i + 1] = s[(i + 1) - 1] /\ (i + 1) - 1 = i
        BY <1>1, <1>3, <3>2
      <4> QED
        BY <4>1
    <3> QED
      BY <1>1, <3>1, <3>2
  <2>3. j + 1 \in 1..Len(s) + 1 /\ w[j + 1] = t
    BY <1>1, <1>3
  <2> QED
    BY <1>5, <2>1, <2>2, <2>3 DEF Members
<1> QED
  BY <1>5, <1>6, <1>7, <1>8 DEF w, Chains

LEMMA WithoutChain ==
    ASSUME NEW s \in Chains, NEW k \in 1..Len(s)
    PROVE  /\ Without(s, k) \in Chains /\ Len(Without(s, k)) = Len(s) - 1
           /\ \A i \in 1..k - 1 : Without(s, k)[i] = s[i]
           /\ \A i \in k..Len(s) - 1 : Without(s, k)[i] = s[i + 1]
           /\ Members(Without(s, k)) = Members(s) \ {s[k]}
<1> DEFINE w == Without(s, k)
<1>1. Len(s) \in Nat /\ k \in Nat /\ k <= Len(s) /\ k >= 1 /\ \A i \in 1..Len(s) : s[i] \in Nodes
  BY ChainTypes
<1>2. w = [i \in 1..Len(s) - 1 |-> IF i < k THEN s[i] ELSE s[i + 1]]
  BY DEF Without
<1> HIDE DEF w
<1>3. \A i \in 1..Len(s) - 1 : w[i] = IF i < k THEN s[i] ELSE s[i + 1]
  BY <1>2
<1>4. \A i \in 1..Len(s) - 1 : \E m \in 1..Len(s) : w[i] = s[m] /\ m # k /\ m = IF i < k THEN i ELSE i + 1
  <2> SUFFICES ASSUME NEW i \in 1..Len(s) - 1
               PROVE  \E m \in 1..Len(s) : w[i] = s[m] /\ m # k /\ m = IF i < k THEN i ELSE i + 1
    OBVIOUS
  <2>1. CASE i < k
    BY <1>1, <1>3, <2>1
  <2>2. CASE ~(i < k)
    <3>1. i + 1 \in 1..Len(s) /\ i + 1 # k /\ w[i] = s[i + 1]
      BY <1>1, <1>3, <2>2
    <3> QED
      BY <2>2, <3>1
  <2> QED
    BY <2>1, <2>2
<1>5. w \in Seq(Nodes) /\ Len(w) = Len(s) - 1
  <2>1. \A i \in 1..Len(s) - 1 : w[i] \in Nodes
    BY <1>1, <1>4
  <2>2. Len(s) - 1 \in Nat
    BY <1>1
  <2> QED
    BY <1>2, <2>1, <2>2
<1>6. (\A i \in 1..k - 1 : w[i] = s[i]) /\ \A i \in k..Len(s) - 1 : w[i] = s[i + 1]
  BY <1>1, <1>3
<1>7. Distinct(w)
  <2> SUFFICES ASSUME NEW a \in 1..Len(s) - 1, NEW b \in 1..Len(s) - 1, w[a] = w[b] PROVE a = b
    BY <1>5 DEF Distinct
  <2>1. PICK m \in 1..Len(s) : w[a] = s[m] /\ m = IF a < k THEN a ELSE a + 1
    BY <1>4
  <2>2. PICK n \in 1..Len(s) : w[b] = s[n] /\ n = IF b < k THEN b ELSE b + 1
    BY <1>4
  <2>3. m = n
    BY <2>1, <2>2, ChainTypes
  <2> QED
    BY <1>1, <2>1, <2>2, <2>3
<1>8. Members(w) = Members(s) \ {s[k]}
  <2>1. ASSUME NEW i \in 1..Len(s) - 1 PROVE w[i] \in Members(s) \ {s[k]}
    <3>1. PICK m \in 1..Len(s) : w[i] = s[m] /\ m # k
      BY <1>4
    <3> QED
      BY <3>1, ChainTypes DEF Members
  <2>2. ASSUME NEW i \in 1..Len(s), i # k PROVE \E m \in 1..Len(s) - 1 : w[m] = s[i]
    <3>1. CASE i < k
      <4>1. i \in 1..Len(s) - 1 /\ w[i] = s[i]
        BY <1>1, <1>3, <3>1
      <4> QED
        BY <4>1
    <3>2. CASE i > k
      <4>1. i - 1 \in 1..Len(s) - 1 /\ w[i - 1] = s[(i - 1) + 1] /\ (i - 1) + 1 = i
        BY <1>1, <1>3, <3>2
      <4> QED
        BY <4>1
    <3> QED
      BY <1>1, <2>2, <3>1, <3>2
  <2>3. Members(w) = {w[i] : i \in 1..Len(s) - 1}
    BY <1>5 DEF Members
  <2>4. ASSUME NEW x \in Members(s) \ {s[k]} PROVE \E m \in 1..Len(s) - 1 : w[m] = x
    <3>1. PICK i \in 1..Len(s) : s[i] = x
      BY DEF Members
    <3> QED
      BY <2>2, <3>1
  <2> QED
    BY <2>1, <2>3, <2>4
<1> QED
  BY <1>5, <1>6, <1>7, <1>8 DEF w, Chains

----------------------------------------------------------------------------
(* The list behind a sequence. *)

Pointers == [head : Nodes \cup {Null}, tail : Nodes \cup {Null},
             next : [Nodes -> Nodes \cup {Null}], prev : [Nodes -> Nodes \cup {Null}]]

\* head, tail, next and prev lead through s.
Linked(l, s) ==
    /\ l.head = IF Len(s) = 0 THEN Null ELSE s[1]
    /\ Len(s) > 0 => l.tail = s[Len(s)]
    /\ \A i \in 1..Len(s) : l.next[s[i]] = IF i = Len(s) THEN Null ELSE s[i + 1]
    /\ \A i \in 1..Len(s) : l.prev[s[i]] = IF i = 1 THEN Null ELSE s[i - 1]

\* The nodes that are not in S have null pointers.
Loose(l, S) == \A n \in Nodes \ S : l.next[n] = Null /\ l.prev[n] = Null

\* The place for t: before a later node, or at the end.
Fits(s, e, t, j) == j = Len(s) \/ e[t] < e[s[j + 1]]

\* The first one from i on.
Stops(s, e, t, i, j) ==
    j \in i..Len(s) /\ Fits(s, e, t, j) /\ \A k \in i..j - 1 : ~Fits(s, e, t, k)

LEMMA StopsOnce ==
    ASSUME NEW s, Len(s) \in Nat, NEW e, NEW t, NEW i \in 1..Len(s)
    PROVE  /\ \E j : Stops(s, e, t, i, j)
           /\ \A j, k : Stops(s, e, t, i, j) /\ Stops(s, e, t, i, k) => j = k
<1>1. \E j : Stops(s, e, t, i, j)
  <2> DEFINE T == {k \in i..Len(s) : Fits(s, e, t, k)}
  <2>1. T \subseteq Nat /\ Len(s) \in T
    BY DEF Fits
  <2>2. PICK j \in T : \A k \in T : j <= k
    <3> HIDE DEF T
    <3> QED
      BY <2>1, Least
  <2>3. j \in i..Len(s) /\ Fits(s, e, t, j)
    BY <2>2
  <2>4. ASSUME NEW k \in i..j - 1 PROVE ~Fits(s, e, t, k)
    <3>1. k \in i..Len(s) /\ ~(j <= k)
      BY <2>3
    <3> QED
      BY <2>2, <3>1
  <2> QED
    BY <2>3, <2>4 DEF Stops
<1>2. ASSUME NEW j, NEW k, Stops(s, e, t, i, j), Stops(s, e, t, i, k) PROVE ~(j < k)
  <2>1. j \in i..Len(s) /\ k \in i..Len(s)
    BY <1>2 DEF Stops
  <2>2. SUFFICES ASSUME j < k PROVE FALSE
    OBVIOUS
  <2>3. j \in i..k - 1
    BY <2>1, <2>2
  <2> QED
    BY <1>2, <2>3 DEF Stops
<1>3. ASSUME NEW j, NEW k, Stops(s, e, t, i, j), Stops(s, e, t, i, k) PROVE j = k
  <2>1. j \in Int /\ k \in Int
    BY <1>3 DEF Stops
  <2>2. ~(j < k) /\ ~(k < j)
    BY <1>2, <1>3
  <2> QED
    BY <2>1, <2>2
<1> QED
  BY <1>1, <1>3

LEMMA StopsOn ==
    ASSUME NEW s, Len(s) \in Nat, NEW e, NEW t, NEW i \in 1..Len(s)
    PROVE  /\ Fits(s, e, t, i) => Stops(s, e, t, i, i)
           /\ ~Fits(s, e, t, i) =>
                /\ i + 1 \in 1..Len(s)
                /\ \A j : Stops(s, e, t, i + 1, j) => Stops(s, e, t, i, j)
<1>1. Fits(s, e, t, i) => Stops(s, e, t, i, i)
  BY DEF Stops
<1>2. ~Fits(s, e, t, i) => i + 1 \in 1..Len(s)
  BY DEF Fits
<1>3. ASSUME ~Fits(s, e, t, i), NEW j, Stops(s, e, t, i + 1, j) PROVE Stops(s, e, t, i, j)
  <2>1. j \in i + 1..Len(s) /\ Fits(s, e, t, j) /\ \A k \in i + 1..j - 1 : ~Fits(s, e, t, k)
    BY <1>3 DEF Stops
  <2>2. ASSUME NEW k \in i..j - 1 PROVE ~Fits(s, e, t, k)
    <3>1. k = i \/ k \in i + 1..j - 1
      BY <2>1
    <3> QED
      BY <1>3, <2>1, <3>1
  <2>3. j \in i..Len(s)
    BY <2>1
  <2> QED
    BY <2>1, <2>2, <2>3 DEF Stops
<1> QED
  BY <1>1, <1>2, <1>3

\* The walk of add_timer ends at the first place that fits.
LEMMA PlaceFits ==
    ASSUME NEW l \in Pointers, NEW s \in Chains, Linked(l, s), NEW e,
           NEW t \in Nodes \ Members(s), Loose(l, Members(s) \cup {t}),
           l.next[t] \in Members(s) \cup {Null}, NEW a \in 1..Len(s)
    PROVE  \E j \in a..Len(s) :
              /\ Place(l, e, t, s[a]) = s[j]
              /\ Fits(s, e, t, j) /\ \A i \in a..j - 1 : ~Fits(s, e, t, i)
<1> DEFINE st(i) == CHOOSE j : Stops(s, e, t, i, j)
           pos(p) == CHOOSE i \in 1..Len(s) : s[i] = p
           g == [p \in Members(s) |-> s[st(pos(p))]]
           f == [p \in Nodes |-> IF p \in Members(s) THEN g[p]
                                 ELSE IF l.next[p] = Null THEN p
                                 ELSE IF e[t] < e[l.next[p]] THEN p ELSE g[l.next[p]]]
<1>1. Len(s) \in Nat /\ (\A i \in 1..Len(s) : s[i] \in Nodes /\ s[i] \in Members(s))
      /\ Members(s) \subseteq Nodes
  BY ChainTypes
<1>2. \A i \in 1..Len(s) : Stops(s, e, t, i, st(i))
  BY <1>1, StopsOnce
<1>3. \A i \in 1..Len(s) : pos(s[i]) = i
  BY ChainTypes
<1>4. \A i \in 1..Len(s) : \A j : Stops(s, e, t, i, j) => j = st(i)
  BY <1>1, <1>2, StopsOnce
<1> HIDE DEF st, pos
<1>5. \A i \in 1..Len(s) : g[s[i]] = s[st(i)]
  <2> SUFFICES ASSUME NEW i \in 1..Len(s) PROVE g[s[i]] = s[st(i)]
    OBVIOUS
  <2>1. g[s[i]] = s[st(pos(s[i]))]
    BY <1>1
  <2>2. pos(s[i]) = i
    BY <1>3
  <2> QED
    BY <2>1, <2>2
<1> HIDE DEF g
<1>6. ASSUME NEW i \in 1..Len(s)
      PROVE  IF Fits(s, e, t, i) THEN st(i) = i ELSE i + 1 \in 1..Len(s) /\ st(i) = st(i + 1)
  <2>1. CASE Fits(s, e, t, i)
    BY <1>1, <1>4, <2>1, StopsOn
  <2>2. CASE ~Fits(s, e, t, i)
    <3>1. i + 1 \in 1..Len(s)
      BY <1>1, <2>2, StopsOn
    <3>2. Stops(s, e, t, i + 1, st(i + 1))
      BY <1>2, <3>1
    <3>3. Stops(s, e, t, i, st(i + 1))
      BY <1>1, <2>2, <3>2, StopsOn
    <3> QED
      BY <1>4, <2>2, <3>1, <3>3
  <2> QED
    BY <2>1, <2>2
<1>7. ASSUME NEW i \in 1..Len(s)
      PROVE  IF Fits(s, e, t, i) THEN l.next[s[i]] = Null \/ e[t] < e[l.next[s[i]]]
             ELSE l.next[s[i]] = s[i + 1] /\ s[i + 1] # Null /\ ~(e[t] < e[s[i + 1]])
  <2>1. l.next[s[i]] = IF i = Len(s) THEN Null ELSE s[i + 1]
    BY DEF Linked
  <2>2. i # Len(s) => s[i + 1] # Null
    <3>1. i # Len(s) => i + 1 \in 1..Len(s)
      BY <1>1
    <3> QED
      BY <1>1, <3>1
  <2> QED
    BY <2>1, <2>2 DEF Fits
<1>8. f = [p \in Nodes |-> IF l.next[p] = Null THEN p
                           ELSE IF e[t] < e[l.next[p]] THEN p ELSE f[l.next[p]]]
  <2> SUFFICES ASSUME NEW p \in Nodes
               PROVE  f[p] = IF l.next[p] = Null THEN p
                             ELSE IF e[t] < e[l.next[p]] THEN p ELSE f[l.next[p]]
    OBVIOUS
  <2>1. CASE p \in Members(s)
    <3>1. PICK i \in 1..Len(s) : p = s[i]
      BY <2>1 DEF Members
    <3>2. f[p] = s[st(i)]
      BY <1>5, <2>1, <3>1
    <3>3. CASE Fits(s, e, t, i)
      BY <1>6, <1>7, <3>1, <3>2, <3>3
    <3>4. CASE ~Fits(s, e, t, i)
      <4>1. i + 1 \in 1..Len(s) /\ st(i) = st(i + 1)
        BY <1>6, <3>4
      <4>2. l.next[p] = s[i + 1] /\ s[i + 1] # Null /\ ~(e[t] < e[s[i + 1]])
        BY <1>7, <3>1, <3>4
      <4>3. f[s[i + 1]] = s[st(i + 1)]
        BY <1>1, <1>5, <4>1
      <4> QED
        BY <3>2, <4>1, <4>2, <4>3
    <3> QED
      BY <3>3, <3>4
  <2>2. CASE p \notin Members(s)
    <3>1. l.next[p] \in Members(s) \cup {Null}
      BY <2>2 DEF Loose
    <3>2. l.next[p] # Null => f[l.next[p]] = g[l.next[p]]
      BY <1>1, <3>1
    <3> QED
      BY <2>2, <3>2
  <2> QED
    BY <2>1, <2>2
<1> DEFINE F == CHOOSE h : h = [p \in Nodes |-> IF l.next[p] = Null THEN p
                                 ELSE IF e[t] < e[l.next[p]] THEN p ELSE h[l.next[p]]]
<1> HIDE DEF f
<1>9. F = [p \in Nodes |-> IF l.next[p] = Null THEN p
                           ELSE IF e[t] < e[l.next[p]] THEN p ELSE F[l.next[p]]]
  BY <1>8, Zenon
<1>10. Place(l, e, t, s[a]) = F[s[a]]
  BY Zenon DEF Place
<1> HIDE DEF F
<1>11. ASSUME NEW i \in 1..Len(s)
       PROVE  IF Fits(s, e, t, i) THEN F[s[i]] = s[i] ELSE F[s[i]] = F[s[i + 1]]
  BY <1>1, <1>7, <1>9
<1>12. \A i \in 1..Len(s) : F[s[i]] = s[st(i)]
  <2> DEFINE T == {d \in 0..Len(s) - 1 : F[s[Len(s) - d]] # s[st(Len(s) - d)]}
  <2>1. SUFFICES ASSUME T # {} PROVE FALSE
    <3>1. ASSUME NEW i \in 1..Len(s), F[s[i]] # s[st(i)] PROVE T # {}
      <4>1. Len(s) - i \in 0..Len(s) - 1 /\ Len(s) - (Len(s) - i) = i
        BY <1>1
      <4> QED
        BY <3>1, <4>1
    <3> QED
      BY <3>1
  <2>2. T \subseteq Nat
    BY <1>1
  <2>3. PICK d \in T : \A x \in T : d <= x
    <3> HIDE DEF T
    <3> QED
      BY <2>1, <2>2, Least
  <2>4. PICK i : i = Len(s) - d
    OBVIOUS
  <2>5. i \in 1..Len(s) /\ F[s[i]] # s[st(i)] /\ d \in 0..Len(s) - 1
    BY <1>1, <2>3, <2>4
  <2>6. ~Fits(s, e, t, i)
    BY <1>6, <1>11, <2>5
  <2>7. i + 1 \in 1..Len(s) /\ st(i) = st(i + 1) /\ F[s[i]] = F[s[i + 1]]
    BY <1>6, <1>11, <2>5, <2>6
  <2>8. d - 1 \in 0..Len(s) - 1 /\ Len(s) - (d - 1) = i + 1 /\ ~(d <= d - 1)
    BY <1>1, <2>4, <2>5, <2>7
  <2>9. d - 1 \notin T
    BY <2>3, <2>8
  <2> QED
    BY <2>5, <2>7, <2>8, <2>9
<1>13. Place(l, e, t, s[a]) = s[st(a)] /\ Stops(s, e, t, a, st(a))
  BY <1>2, <1>10, <1>12
<1> QED
  BY <1>13 DEF Stops

----------------------------------------------------------------------------
(* What each operation does to the sequence. *)

Shape(l, s) == l \in Pointers /\ s \in Chains /\ Linked(l, s) /\ Loose(l, Members(s))

LEMMA Inserted ==
    ASSUME NEW l \in Pointers, NEW s \in Chains, Linked(l, s), NEW e, NEW start,
           NEW t \in Nodes \ Members(s), Loose(l, Members(s) \cup {t}),
           NEW j \in 1..Len(s), Place(l, e, t, start) = s[j]
    PROVE  Shape(InsertFrom(l, e, t, start), With(s, j, t))
<1> DEFINE p == s[j]
           q == l.next[p]
           r == InsertFrom(l, e, t, start)
           w == With(s, j, t)
<1>1. Len(s) \in Nat /\ j \in Nat /\ 1 <= j /\ j <= Len(s)
      /\ \A i \in 1..Len(s) : s[i] \in Nodes /\ s[i] # t /\ s[i] # Null
  BY ChainTypes
<1>2. \A i, k \in 1..Len(s) : s[i] = s[k] => i = k
  BY ChainTypes
<1>3. /\ w \in Chains /\ Len(w) = Len(s) + 1 /\ Members(w) = Members(s) \cup {t}
      /\ (\A i \in 1..j : w[i] = s[i]) /\ w[j + 1] = t
      /\ \A i \in j + 2..Len(s) + 1 : w[i] = s[i - 1]
  BY WithChain
<1>4. /\ p \in Nodes /\ p # t /\ q = IF j = Len(s) THEN Null ELSE s[j + 1]
      /\ q \in Nodes \cup {Null} /\ q # t
  BY <1>1 DEF Linked, Pointers
<1>5. r = [l EXCEPT !.next = [l.next EXCEPT ![p] = t, ![t] = q],
                    !.prev = [n \in Nodes |-> IF n = t THEN p ELSE IF n = q THEN t ELSE l.prev[n]],
                    !.tail = IF q = Null THEN t ELSE l.tail]
  BY DEF InsertFrom
<1> HIDE DEF r, w
<1>6. /\ r.head = l.head /\ r.tail = (IF q = Null THEN t ELSE l.tail)
      /\ r.next = [l.next EXCEPT ![p] = t, ![t] = q]
      /\ r.prev = [n \in Nodes |-> IF n = t THEN p ELSE IF n = q THEN t ELSE l.prev[n]]
      /\ r \in Pointers
  BY <1>4, <1>5 DEF Pointers
<1>7. /\ r.next[p] = t /\ r.next[t] = q /\ \A n \in Nodes : n # p /\ n # t => r.next[n] = l.next[n]
      /\ r.prev[t] = p /\ \A n \in Nodes : n # t => r.prev[n] = IF n = q THEN t ELSE l.prev[n]
  BY <1>4, <1>6 DEF Pointers
<1> HIDE DEF p, q
<1>8. p = s[j]
  BY DEF p
<1>9. /\ \A i \in 1..Len(s) : l.next[s[i]] = IF i = Len(s) THEN Null ELSE s[i + 1]
      /\ \A i \in 1..Len(s) : l.prev[s[i]] = IF i = 1 THEN Null ELSE s[i - 1]
  BY DEF Linked
<1>10. r.head = w[1] /\ r.tail = w[Len(s) + 1]
  <2>1. l.head = s[1] /\ l.tail = s[Len(s)]
    BY <1>1 DEF Linked
  <2>2. w[1] = s[1]
    BY <1>1, <1>3
  <2>3. CASE j = Len(s)
    BY <1>3, <1>4, <1>6, <2>1, <2>2, <2>3
  <2>4. CASE j # Len(s)
    <3>1. Len(s) + 1 \in j + 2..Len(s) + 1 /\ (Len(s) + 1) - 1 = Len(s) /\ q # Null
      BY <1>1, <1>4, <2>4
    <3>2. w[Len(s) + 1] = s[Len(s)]
      BY <1>3, <3>1
    <3> QED
      BY <1>6, <2>1, <2>2, <3>1, <3>2
  <2> QED
    BY <2>3, <2>4
<1>11. ASSUME NEW i \in 1..Len(s) + 1
       PROVE  /\ r.next[w[i]] = IF i = Len(s) + 1 THEN Null ELSE w[i + 1]
              /\ r.prev[w[i]] = IF i = 1 THEN Null ELSE w[i - 1]
  <2>1. CASE i < j
    <3>1. i \in 1..Len(s) /\ i \in 1..j /\ i + 1 \in 1..j /\ i # Len(s) /\ i # j
      BY <1>1, <2>1
    <3>2. w[i] = s[i] /\ w[i + 1] = s[i + 1] /\ s[i] # p /\ s[i] \in Nodes /\ s[i] # t
      BY <1>1, <1>2, <1>3, <1>8, <3>1
    <3>3. s[i] # q
      <4>1. j # Len(s) => j + 1 \in 1..Len(s) /\ j + 1 # i
        BY <1>1, <2>1
      <4> QED
        BY <1>1, <1>2, <1>4, <3>1, <4>1
    <3>4. r.next[s[i]] = s[i + 1] /\ r.prev[s[i]] = l.prev[s[i]]
      BY <1>7, <1>9, <3>1, <3>2, <3>3
    <3>5. i # 1 => i - 1 \in 1..j
      BY <1>1, <2>1
    <3>6. i # 1 => w[i - 1] = s[i - 1]
      BY <1>3, <3>5
    <3>7. i # Len(s) + 1
      BY <1>1, <2>1
    <3> QED
      BY <1>9, <3>1, <3>2, <3>4, <3>6, <3>7
  <2>2. CASE i = j
    <3>1. j \in 1..j /\ j # Len(s) + 1 /\ (j # 1 => j - 1 \in 1..j)
      BY <1>1
    <3>2. w[i] = p /\ r.next[p] = t /\ w[i + 1] = t
      BY <1>3, <1>7, <1>8, <2>2, <3>1
    <3>3. p # q
      <4>1. j # Len(s) => j + 1 \in 1..Len(s) /\ j + 1 # j
        BY <1>1
      <4> QED
        BY <1>1, <1>2, <1>4, <1>8, <4>1
    <3>4. r.prev[p] = l.prev[p]
      BY <1>4, <1>7, <3>3
    <3>5. j # 1 => w[j - 1] = s[j - 1]
      BY <1>3, <3>1
    <3> QED
      BY <1>8, <1>9, <2>2, <3>1, <3>2, <3>4, <3>5
  <2>3. CASE i = j + 1
    <3>1. w[i] = t /\ i # 1 /\ i - 1 = j /\ j \in 1..j
      BY <1>1, <1>3, <2>3
    <3>2. w[j] = p
      BY <1>3, <1>8, <3>1
    <3>3. CASE j = Len(s)
      BY <1>4, <1>7, <2>3, <3>1, <3>2, <3>3
    <3>4. CASE j # Len(s)
      <4>1. i + 1 \in j + 2..Len(s) + 1 /\ (i + 1) - 1 = j + 1 /\ i # Len(s) + 1
        BY <1>1, <2>3, <3>4
      <4>2. w[i + 1] = s[j + 1]
        BY <1>3, <4>1
      <4> QED
        BY <1>4, <1>7, <3>1, <3>2, <3>4, <4>1, <4>2
    <3> QED
      BY <3>3, <3>4
  <2>4. CASE i > j + 1
    <3>1. i \in j + 2..Len(s) + 1 /\ i - 1 \in 1..Len(s) /\ i - 1 # j /\ i # 1
      BY <1>1, <2>4
    <3>2. w[i] = s[i - 1] /\ s[i - 1] # p /\ s[i - 1] \in Nodes /\ s[i - 1] # t
      BY <1>1, <1>2, <1>3, <1>8, <3>1
    <3>3. r.next[w[i]] = IF i - 1 = Len(s) THEN Null ELSE s[(i - 1) + 1]
      <4>1. r.next[w[i]] = l.next[s[i - 1]]
        BY <1>7, <3>2
      <4>2. l.next[s[i - 1]] = IF i - 1 = Len(s) THEN Null ELSE s[(i - 1) + 1]
        BY <1>9, <3>1
      <4> QED
        BY <4>1, <4>2
    <3>4. r.next[w[i]] = IF i = Len(s) + 1 THEN Null ELSE w[i + 1]
      <4>1. CASE i = Len(s) + 1
        <5>1. i - 1 = Len(s)
          BY <1>1, <4>1
        <5> QED
          BY <3>3, <4>1, <5>1
      <4>2. CASE i # Len(s) + 1
        <5>1. i + 1 \in j + 2..Len(s) + 1 /\ (i + 1) - 1 = i /\ (i - 1) + 1 = i /\ i - 1 # Len(s)
          BY <1>1, <3>1, <4>2
        <5>2. w[i + 1] = s[i]
          BY <1>3, <5>1
        <5> QED
          BY <3>3, <4>2, <5>1, <5>2
      <4> QED
        BY <4>1, <4>2
    <3>5. r.prev[w[i]] = w[i - 1]
      <4>1. CASE i = j + 2
        <5>1. i - 1 = j + 1 /\ j # Len(s)
          BY <1>1, <4>1
        <5>2. s[i - 1] = q /\ w[i - 1] = t
          BY <1>3, <1>4, <5>1
        <5> QED
          BY <1>7, <3>2, <5>2
      <4>2. CASE i # j + 2
        <5>1. i - 1 \in j + 2..Len(s) + 1 /\ i - 1 # 1 /\ i - 1 # j + 1
          BY <1>1, <2>4, <3>1, <4>2
        <5>2. w[i - 1] = s[(i - 1) - 1]
          BY <1>3, <5>1
        <5>3. l.prev[s[i - 1]] = s[(i - 1) - 1]
          BY <1>9, <3>1, <5>1
        <5>4. s[i - 1] # q
          <6>1. j # Len(s) => j + 1 \in 1..Len(s)
            BY <1>1
          <6> QED
            BY <1>1, <1>2, <1>4, <3>1, <5>1, <6>1
        <5> QED
          BY <1>7, <3>2, <5>2, <5>3, <5>4
      <4> QED
        BY <4>1, <4>2
    <3> QED
      BY <3>1, <3>4, <3>5
  <2> QED
    BY <1>1, <2>1, <2>2, <2>3, <2>4
<1>12. Linked(r, w)
  <2>1. Len(w) # 0
    BY <1>1, <1>3
  <2> QED
    BY <1>3, <1>10, <1>11, <2>1 DEF Linked
<1>13. Loose(r, Members(w))
  <2> SUFFICES ASSUME NEW n \in Nodes \ Members(w) PROVE r.next[n] = Null /\ r.prev[n] = Null
    BY DEF Loose
  <2>1. l.next[n] = Null /\ l.prev[n] = Null
    BY <1>3 DEF Loose
  <2>2. n # t /\ n # p /\ n # q
    <3>1. j # Len(s) => j + 1 \in 1..Len(s)
      BY <1>1
    <3> QED
      BY <1>3, <1>4, <1>8, <3>1, ChainTypes
  <2> QED
    BY <1>7, <2>1, <2>2
<1> QED
  BY <1>3, <1>6, <1>12, <1>13 DEF Shape, r, w

\* The pointers of r are those of l, led past s[k].
LEMMA Bypassed ==
    ASSUME NEW l, NEW s, Shape(l, s), NEW k \in 1..Len(s), NEW r,
           r.head = (IF k = 1 THEN l.next[s[k]] ELSE l.head),
           Len(s) > 1 => r.tail = IF k = Len(s) THEN l.prev[s[k]] ELSE l.tail,
           \A n \in Nodes \ {s[k]} :
              /\ r.next[n] = IF n = l.prev[s[k]] THEN l.next[s[k]] ELSE l.next[n]
              /\ r.prev[n] = IF n = l.next[s[k]] THEN l.prev[s[k]] ELSE l.prev[n]
    PROVE  Linked(r, Without(s, k)) /\ Loose(r, Members(s))
<1> DEFINE w == Without(s, k)
           p == l.prev[s[k]]
           q == l.next[s[k]]
<1>1. Len(s) \in Nat /\ k \in Nat /\ 1 <= k /\ k <= Len(s)
      /\ (\A i \in 1..Len(s) : s[i] \in Nodes /\ s[i] # Null)
      /\ \A i, j \in 1..Len(s) : s[i] = s[j] => i = j
  BY ChainTypes DEF Shape
<1>2. /\ Len(w) = Len(s) - 1 /\ (\A i \in 1..k - 1 : w[i] = s[i])
      /\ \A i \in k..Len(s) - 1 : w[i] = s[i + 1]
  BY WithoutChain DEF Shape
<1>3. /\ l.head = s[1] /\ l.tail = s[Len(s)]
      /\ \A i \in 1..Len(s) : l.next[s[i]] = IF i = Len(s) THEN Null ELSE s[i + 1]
      /\ \A i \in 1..Len(s) : l.prev[s[i]] = IF i = 1 THEN Null ELSE s[i - 1]
  BY <1>1 DEF Shape, Linked
<1>4. p = (IF k = 1 THEN Null ELSE s[k - 1]) /\ q = IF k = Len(s) THEN Null ELSE s[k + 1]
  BY <1>3
<1>5. \A n \in Nodes \ {s[k]} : r.next[n] = (IF n = p THEN q ELSE l.next[n])
                               /\ r.prev[n] = IF n = q THEN p ELSE l.prev[n]
  OBVIOUS
<1>6. (k = 1 => r.head = q) /\ (k # 1 => r.head = l.head)
      /\ (Len(s) > 1 => (k = Len(s) => r.tail = p) /\ (k # Len(s) => r.tail = l.tail))
  OBVIOUS
<1> HIDE DEF w, p, q
<1>7. r.head = IF Len(w) = 0 THEN Null ELSE w[1]
  <2>1. CASE k # 1
    <3>1. 1 \in 1..k - 1 /\ Len(s) - 1 # 0
      BY <1>1, <2>1
    <3> QED
      BY <1>2, <1>3, <1>6, <2>1, <3>1
  <2>2. CASE k = 1 /\ Len(s) = 1
    BY <1>2, <1>4, <1>6, <2>2
  <2>3. CASE k = 1 /\ Len(s) # 1
    <3>1. 1 \in k..Len(s) - 1 /\ Len(s) - 1 # 0 /\ k # Len(s)
      <4>1. \A m \in Nat : m >= 1 /\ m # 1 => 1 \in 1..m - 1 /\ m - 1 # 0
        OBVIOUS
      <4>2. Len(s) \in Nat /\ Len(s) >= 1
        BY <1>1
      <4> QED
        BY <2>3, <4>1, <4>2
    <3>2. w[1] = s[1 + 1] /\ q = s[1 + 1] /\ r.head = q /\ Len(w) # 0
      BY <1>2, <1>4, <1>6, <2>3, <3>1
    <3> QED
      BY <3>2
  <2> QED
    BY <2>1, <2>2, <2>3
<1>8. Len(w) > 0 => r.tail = w[Len(w)]
  <2> SUFFICES ASSUME Len(s) > 1 PROVE r.tail = w[Len(s) - 1]
    BY <1>1, <1>2
  <2>1. CASE k = Len(s)
    <3>1. Len(s) - 1 \in 1..k - 1 /\ k # 1 /\ k - 1 = Len(s) - 1
      BY <1>1, <2>1
    <3> QED
      BY <1>2, <1>4, <1>6, <2>1, <3>1
  <2>2. CASE k # Len(s)
    <3>1. Len(s) - 1 \in k..Len(s) - 1 /\ (Len(s) - 1) + 1 = Len(s)
      BY <1>1, <2>2
    <3>2. w[Len(s) - 1] = s[(Len(s) - 1) + 1]
      BY <1>2, <3>1
    <3> QED
      BY <1>3, <1>6, <2>2, <3>1, <3>2
  <2> QED
    BY <2>1, <2>2
<1>9. ASSUME NEW i \in 1..Len(s) - 1
      PROVE  /\ r.next[w[i]] = IF i = Len(s) - 1 THEN Null ELSE w[i + 1]
             /\ r.prev[w[i]] = IF i = 1 THEN Null ELSE w[i - 1]
  <2>1. CASE i < k
    <3>1. i \in 1..k - 1 /\ i \in 1..Len(s) /\ i # k /\ i # Len(s)
      BY <1>1, <2>1
    <3>2. w[i] = s[i] /\ s[i] \in Nodes \ {s[k]}
      BY <1>1, <1>2, <3>1
    <3>3. s[i] # q
      <4>1. k # Len(s) => k + 1 \in 1..Len(s) /\ k + 1 # i
        BY <1>1, <2>1
      <4> QED
        BY <1>1, <1>4, <3>1, <4>1
    <3>4. i # 1 => i - 1 \in 1..k - 1
      BY <1>1, <2>1
    <3>5. r.prev[s[i]] = (IF i = 1 THEN Null ELSE s[i - 1])
      BY <1>3, <1>5, <3>1, <3>2, <3>3
    <3>6. i # 1 => w[i - 1] = s[i - 1]
      BY <1>2, <3>4
    <3>7. CASE i = k - 1
      <4>1. i + 1 = k /\ k # 1 /\ k - 1 = i
        BY <1>1, <3>7
      <4>2. r.next[s[i]] = q
        BY <1>4, <1>5, <3>2, <4>1
      <4>3. CASE k = Len(s)
        BY <1>4, <3>2, <3>5, <3>6, <3>7, <4>2, <4>3
      <4>4. CASE k # Len(s)
        <5>1. k \in k..Len(s) - 1 /\ i # Len(s) - 1
          BY <1>1, <3>7, <4>4
        <5>2. w[k] = s[k + 1]
          BY <1>2, <5>1
        <5> QED
          BY <1>4, <3>2, <3>5, <3>6, <4>1, <4>2, <4>4, <5>1, <5>2
      <4> QED
        BY <4>3, <4>4
    <3>8. CASE i # k - 1
      <4>1. i + 1 \in 1..k - 1 /\ i # Len(s) - 1 /\ (k # 1 => k - 1 \in 1..Len(s))
        BY <1>1, <2>1, <3>8
      <4>2. s[i] # p
        BY <1>1, <1>4, <3>1, <3>8, <4>1
      <4>3. r.next[s[i]] = s[i + 1] /\ w[i + 1] = s[i + 1]
        BY <1>2, <1>3, <1>5, <3>1, <3>2, <4>1, <4>2
      <4> QED
        BY <3>2, <3>5, <3>6, <4>1, <4>3
    <3> QED
      BY <3>7, <3>8
  <2>2. CASE ~(i < k)
    <3>1. i \in k..Len(s) - 1 /\ i + 1 \in 1..Len(s) /\ i + 1 # k /\ (i + 1) - 1 = i /\ i + 1 # 1
      BY <1>1, <2>2
    <3>2. w[i] = s[i + 1] /\ s[i + 1] \in Nodes \ {s[k]}
      BY <1>1, <1>2, <3>1
    <3>3. s[i + 1] # p
      <4>1. k # 1 => k - 1 \in 1..Len(s) /\ k - 1 # i + 1
        BY <1>1, <2>2
      <4> QED
        BY <1>1, <1>4, <3>1, <4>1
    <3>4. r.next[s[i + 1]] = IF i + 1 = Len(s) THEN Null ELSE s[(i + 1) + 1]
      <4>1. r.next[s[i + 1]] = l.next[s[i + 1]]
        BY <1>5, <3>2, <3>3
      <4> QED
        BY <1>3, <3>1, <4>1
    <3>5. r.next[w[i]] = IF i = Len(s) - 1 THEN Null ELSE w[i + 1]
      <4>1. CASE i = Len(s) - 1
        <5>1. i + 1 = Len(s)
          BY <1>1, <4>1
        <5> QED
          BY <3>2, <3>4, <4>1, <5>1
      <4>2. CASE i # Len(s) - 1
        <5>1. i + 1 \in k..Len(s) - 1 /\ i + 1 # Len(s)
          BY <1>1, <3>1, <4>2
        <5>2. w[i + 1] = s[(i + 1) + 1]
          BY <1>2, <5>1
        <5> QED
          BY <3>2, <3>4, <4>2, <5>1, <5>2
      <4> QED
        BY <4>1, <4>2
    <3>6. r.prev[w[i]] = IF i = 1 THEN Null ELSE w[i - 1]
      <4>1. CASE i = k
        <5>1. k # Len(s)
          BY <1>1, <4>1
        <5>2. r.prev[w[i]] = p
          BY <1>4, <1>5, <3>2, <4>1, <5>1
        <5>3. k # 1 => k - 1 \in 1..k - 1
          BY <1>1
        <5>4. k # 1 => w[k - 1] = s[k - 1]
          BY <1>2, <5>3
        <5> QED
          BY <1>4, <4>1, <5>2, <5>4
      <4>2. CASE i # k
        <5>1. i - 1 \in k..Len(s) - 1 /\ (i - 1) + 1 = i /\ i # 1 /\ (k # Len(s) => k + 1 \in 1..Len(s)) /\ k + 1 # i + 1
          BY <1>1, <3>1, <4>2
        <5>2. w[i - 1] = s[i]
          BY <1>2, <5>1
        <5>3. s[i + 1] # q
          BY <1>1, <1>4, <3>1, <5>1
        <5>4. l.prev[s[i + 1]] = s[(i + 1) - 1]
          BY <1>3, <3>1
        <5>5. r.prev[s[i + 1]] = s[i]
          BY <1>5, <3>1, <3>2, <5>3, <5>4
        <5> QED
          BY <3>2, <5>1, <5>2, <5>5
      <4> QED
        BY <4>1, <4>2
    <3> QED
      BY <3>5, <3>6
  <2> QED
    BY <2>1, <2>2
<1>10. Linked(r, w)
  BY <1>2, <1>7, <1>8, <1>9 DEF Linked
<1>11. ASSUME NEW n \in Nodes \ Members(s) PROVE r.next[n] = Null /\ r.prev[n] = Null
  <2>1. \A i \in 1..Len(s) : n # s[i]
    BY DEF Members
  <2>2. (k # 1 => k - 1 \in 1..Len(s)) /\ (k # Len(s) => k + 1 \in 1..Len(s))
    BY <1>1
  <2>3. n # p /\ n # q /\ n # s[k]
    BY <1>4, <2>1, <2>2
  <2>4. l.next[n] = Null /\ l.prev[n] = Null
    BY <1>11 DEF Shape, Loose
  <2> QED
    BY <1>5, <2>3, <2>4
<1> QED
  BY <1>10, <1>11 DEF Loose, w

LEMMA DeletedShape ==
    ASSUME NEW l, NEW s, Shape(l, s), NEW k \in 1..Len(s)
    PROVE  Shape(Deleted(l, s[k]), Without(s, k))
<1> DEFINE t == s[k]
           p == l.prev[t]
           q == l.next[t]
           r == Deleted(l, t)
<1>1. Len(s) \in Nat /\ k \in Nat /\ 1 <= k /\ k <= Len(s)
      /\ (\A i \in 1..Len(s) : s[i] \in Nodes /\ s[i] # Null)
      /\ \A i, j \in 1..Len(s) : s[i] = s[j] => i = j
  BY ChainTypes DEF Shape
<1>2. /\ l.head = s[1] /\ l.tail = s[Len(s)]
      /\ q = (IF k = Len(s) THEN Null ELSE s[k + 1])
      /\ p = (IF k = 1 THEN Null ELSE s[k - 1])
  BY <1>1 DEF Shape, Linked
<1>3. (t = l.head <=> k = 1) /\ (t = l.tail <=> k = Len(s))
  <2>1. 1 \in 1..Len(s) /\ Len(s) \in 1..Len(s)
    BY <1>1
  <2> QED
    BY <1>1, <1>2, <2>1
<1>4. t \in Nodes /\ (k # 1 => p \in Nodes /\ p # t) /\ (k # Len(s) => q \in Nodes /\ q # t)
  <2>1. (k # 1 => k - 1 \in 1..Len(s) /\ k - 1 # k) /\ (k # Len(s) => k + 1 \in 1..Len(s) /\ k + 1 # k)
    BY <1>1
  <2> QED
    BY <1>1, <1>2, <2>1
<1>5. l \in Pointers
  BY DEF Shape
<1> HIDE DEF t, p, q
<1>6. r \in Pointers /\ r.next[t] = Null /\ r.prev[t] = Null
      /\ r.head = (IF k = 1 THEN q ELSE l.head)
      /\ (Len(s) > 1 => r.tail = IF k = Len(s) THEN p ELSE l.tail)
      /\ \A n \in Nodes \ {t} : /\ r.next[n] = (IF n = p THEN q ELSE l.next[n])
                                /\ r.prev[n] = (IF n = q THEN p ELSE l.prev[n])
  <2>1. CASE k = 1 /\ k = Len(s)
    <3>1. r = [l EXCEPT !.head = Null, !.tail = Null, !.next = [l.next EXCEPT ![t] = Null],
                        !.prev = [l.prev EXCEPT ![t] = Null]]
      BY <1>3, <1>5, <2>1 DEF Deleted, Freed, Pointers
    <3>2. p = Null /\ q = Null
      BY <1>2, <2>1
    <3> HIDE DEF r
    <3> QED
      BY <1>1, <1>4, <1>5, <2>1, <3>1, <3>2 DEF Pointers
  <2>2. CASE k = 1 /\ k # Len(s)
    <3>1. r = [l EXCEPT !.head = q, !.next = [l.next EXCEPT ![t] = Null],
                        !.prev = [l.prev EXCEPT ![q] = Null, ![t] = Null]]
      BY <1>3, <1>4, <1>5, <2>2 DEF Deleted, Freed, Pointers, q
    <3>2. p = Null /\ q \in Nodes /\ q # t
      BY <1>2, <1>4, <2>2
    <3> HIDE DEF r
    <3> QED
      BY <1>1, <1>4, <1>5, <2>2, <3>1, <3>2 DEF Pointers
  <2>3. CASE k # 1 /\ k = Len(s)
    <3>1. r = [l EXCEPT !.tail = p, !.next = [l.next EXCEPT ![p] = Null, ![t] = Null],
                        !.prev = [l.prev EXCEPT ![t] = Null]]
      BY <1>3, <1>4, <1>5, <2>3 DEF Deleted, Freed, Pointers, p, TailAfterDelete
    <3>2. q = Null /\ p \in Nodes /\ p # t
      BY <1>2, <1>4, <2>3
    <3> HIDE DEF r
    <3> QED
      BY <1>1, <1>4, <1>5, <2>3, <3>1, <3>2 DEF Pointers
  <2>4. CASE k # 1 /\ k # Len(s)
    <3>1. r = [l EXCEPT !.next = [l.next EXCEPT ![p] = q, ![t] = Null],
                        !.prev = [l.prev EXCEPT ![q] = p, ![t] = Null]]
      BY <1>3, <1>4, <1>5, <2>4 DEF Deleted, Freed, Pointers, p, q
    <3>2. q \in Nodes /\ q # t /\ p \in Nodes /\ p # t
      BY <1>4, <2>4
    <3> HIDE DEF r
    <3> QED
      BY <1>1, <1>4, <1>5, <2>4, <3>1, <3>2 DEF Pointers
  <2> QED
    BY <2>1, <2>2, <2>3, <2>4
<1> HIDE DEF r
<1>7. Linked(r, Without(s, k)) /\ Loose(r, Members(s))
  BY <1>6, Bypassed DEF t, p, q
<1>8. Without(s, k) \in Chains /\ Members(Without(s, k)) = Members(s) \ {t}
  BY WithoutChain DEF Shape, t
<1>9. Loose(r, Members(s) \ {t})
  BY <1>6, <1>7 DEF Loose
<1> QED
  BY <1>6, <1>7, <1>8, <1>9 DEF Shape, r, t

LEMMA HeadRemovedShape ==
    ASSUME NEW l, NEW s, Shape(l, s), l.head # Null
    PROVE  Len(s) >= 1 /\ l.head = s[1] /\ Shape(HeadRemoved(l), Without(s, 1))
<1> DEFINE t == s[1]
           q == l.next[t]
           r == HeadRemoved(l)
<1>1. Len(s) \in Nat /\ Len(s) >= 1 /\ l.head = t /\ l \in Pointers
  <2>1. Len(s) \in Nat
    BY ChainTypes DEF Shape
  <2> QED
    BY <2>1 DEF Shape, Linked
<1>2. (\A i \in 1..Len(s) : s[i] \in Nodes /\ s[i] # Null) /\ \A i, j \in 1..Len(s) : s[i] = s[j] => i = j
  BY ChainTypes DEF Shape
<1>3. 1 \in 1..Len(s)
  BY <1>1
<1>4. t \in Nodes /\ l.prev[t] = Null /\ q \in Nodes \cup {Null}
  BY <1>1, <1>2, <1>3 DEF Shape, Linked, Pointers
<1>5. r = [l EXCEPT !.head = q, !.next = [l.next EXCEPT ![t] = Null],
                    !.prev = [n \in Nodes |-> IF n = t \/ n = q THEN Null ELSE l.prev[n]]]
  <2> DEFINE f == [n \in Nodes |-> IF n = q THEN Null ELSE l.prev[n]]
             g == [n \in Nodes |-> IF n = t \/ n = q THEN Null ELSE l.prev[n]]
  <2>1. r = Freed([l EXCEPT !.head = q, !.prev = f], t)
    BY <1>1 DEF HeadRemoved
  <2>2. [f EXCEPT ![t] = Null] = g
    OBVIOUS
  <2> HIDE DEF f, g, r, t, q
  <2> QED
    BY <1>1, <2>1, <2>2 DEF Freed, Pointers, g
<1> HIDE DEF r, t, q
<1>6. r \in Pointers /\ r.next[t] = Null /\ r.prev[t] = Null /\ r.head = q /\ r.tail = l.tail
      /\ \A n \in Nodes \ {t} : r.next[n] = l.next[n] /\ r.prev[n] = IF n = q THEN Null ELSE l.prev[n]
  BY <1>1, <1>4, <1>5 DEF Pointers
<1>7. Linked(r, Without(s, 1)) /\ Loose(r, Members(s))
  BY <1>1, <1>3, <1>4, <1>6, Bypassed DEF t, q
<1>8. Without(s, 1) \in Chains /\ Members(Without(s, 1)) = Members(s) \ {t}
  BY <1>3, WithoutChain DEF Shape, t
<1>9. Loose(r, Members(s) \ {t})
  BY <1>6, <1>7 DEF Loose
<1> QED
  BY <1>1, <1>6, <1>7, <1>8, <1>9 DEF Shape, r, t

\* t belongs behind the first j nodes of s.
Belongs(s, e, t, j) ==
    (j = Len(s) \/ e[t] < e[s[j + 1]]) /\ (j = 0 \/ ~(e[t] < e[s[j]]))

LEMMA FirstShape ==
    ASSUME NEW l, NEW s, Shape(l, s), NEW t \in Nodes \ Members(s)
    PROVE  /\ l.head = Null => Len(s) = 0
           /\ l.head = Null => Shape([l EXCEPT !.head = t, !.tail = t], With(s, 0, t))
           /\ l.head # Null =>
                Shape([l EXCEPT !.next[t] = l.head, !.prev[l.head] = t, !.head = t], With(s, 0, t))
<1> DEFINE w == With(s, 0, t)
<1>1. /\ Len(s) \in Nat /\ (\A i \in 1..Len(s) : s[i] \in Nodes /\ s[i] # t /\ s[i] # Null)
      /\ \A i, j \in 1..Len(s) : s[i] = s[j] => i = j
  BY ChainTypes DEF Shape
<1>2. l \in Pointers /\ s \in Chains /\ 0 \in 0..Len(s)
  BY <1>1 DEF Shape
<1>3. /\ w \in Chains /\ Len(w) = Len(s) + 1 /\ Members(w) = Members(s) \cup {t} /\ w[0 + 1] = t
      /\ \A i \in 0 + 2..Len(s) + 1 : w[i] = s[i - 1]
  BY <1>2, WithChain
<1>4. l.head = IF Len(s) = 0 THEN Null ELSE s[1]
  BY DEF Shape, Linked
<1>5. l.next[t] = Null /\ l.prev[t] = Null
  BY DEF Shape, Loose
<1>6. l.head = Null => Len(s) = 0
  BY <1>1, <1>4
<1>7. w[1] = t
  BY <1>3
<1> HIDE DEF w
<1>8. ASSUME l.head = Null PROVE Shape([l EXCEPT !.head = t, !.tail = t], w)
  <2> DEFINE r == [l EXCEPT !.head = t, !.tail = t]
  <2>1. r \in Pointers /\ r.head = t /\ r.tail = t /\ r.next = l.next /\ r.prev = l.prev
    BY <1>2 DEF Pointers
  <2> HIDE DEF r
  <2>2. Len(w) = 1
    BY <1>3, <1>6, <1>8
  <2>3. Linked(r, w)
    BY <1>5, <1>7, <2>1, <2>2 DEF Linked
  <2>4. Loose(r, Members(w))
    BY <1>3, <2>1 DEF Shape, Loose
  <2> QED
    BY <1>3, <2>1, <2>3, <2>4 DEF Shape, r
<1>9. ASSUME l.head # Null
      PROVE  Shape([l EXCEPT !.next[t] = l.head, !.prev[l.head] = t, !.head = t], w)
  <2> DEFINE h == l.head
             r == [l EXCEPT !.next[t] = h, !.prev[h] = t, !.head = t]
  <2>1. Len(s) # 0 /\ Len(s) >= 1 /\ h = s[1] /\ 1 \in 1..Len(s)
    <3>1. Len(s) # 0 /\ h = s[1]
      BY <1>4, <1>9
    <3> QED
      BY <1>1, <3>1
  <2>2. h \in Nodes /\ h # t
    BY <1>1, <2>1
  <2> HIDE DEF h
  <2>3. /\ r \in Pointers /\ r.head = t /\ r.tail = l.tail
        /\ r.next = [l.next EXCEPT ![t] = h] /\ r.prev = [l.prev EXCEPT ![h] = t]
    BY <1>2, <2>2 DEF Pointers
  <2> HIDE DEF r
  <2>4. /\ r.next[t] = h /\ (\A n \in Nodes \ {t} : r.next[n] = l.next[n])
        /\ r.prev[h] = t /\ \A n \in Nodes \ {h} : r.prev[n] = l.prev[n]
    BY <1>2, <2>2, <2>3 DEF Pointers
  <2>5. /\ l.tail = s[Len(s)]
        /\ \A i \in 1..Len(s) : l.next[s[i]] = IF i = Len(s) THEN Null ELSE s[i + 1]
        /\ \A i \in 1..Len(s) : l.prev[s[i]] = IF i = 1 THEN Null ELSE s[i - 1]
    BY <1>1, <2>1 DEF Shape, Linked
  <2>6. ASSUME NEW i \in 1..Len(s) + 1
        PROVE  /\ r.next[w[i]] = IF i = Len(s) + 1 THEN Null ELSE w[i + 1]
               /\ r.prev[w[i]] = IF i = 1 THEN Null ELSE w[i - 1]
    <3>1. CASE i = 1
      <4>1. 2 \in 0 + 2..Len(s) + 1 /\ i # Len(s) + 1 /\ i + 1 = 2 /\ 2 - 1 = 1
        BY <1>1, <2>1, <3>1
      <4>2. w[2] = s[1]
        BY <1>3, <4>1
      <4>3. r.prev[t] = Null
        BY <1>5, <2>2, <2>4
      <4> QED
        BY <1>7, <2>1, <2>4, <3>1, <4>1, <4>2, <4>3
    <3>2. CASE i # 1
      <4>1. i \in 0 + 2..Len(s) + 1 /\ i - 1 \in 1..Len(s)
        BY <1>1, <3>2
      <4>2. w[i] = s[i - 1] /\ s[i - 1] \in Nodes \ {t}
        BY <1>1, <1>3, <4>1
      <4>3. r.next[w[i]] = IF i = Len(s) + 1 THEN Null ELSE w[i + 1]
        <5>1. r.next[w[i]] = l.next[s[i - 1]]
          BY <2>4, <4>2
        <5>2. l.next[s[i - 1]] = IF i - 1 = Len(s) THEN Null ELSE s[(i - 1) + 1]
          BY <2>5, <4>1
        <5>3. CASE i = Len(s) + 1
          <6>1. i - 1 = Len(s)
            BY <1>1, <5>3
          <6> QED
            BY <5>1, <5>2, <5>3, <6>1
        <5>4. CASE i # Len(s) + 1
          <6>1. i + 1 \in 0 + 2..Len(s) + 1 /\ (i - 1) + 1 = i /\ (i + 1) - 1 = i /\ i - 1 # Len(s)
            BY <1>1, <4>1, <5>4
          <6>2. w[i + 1] = s[(i + 1) - 1]
            BY <1>3, <6>1
          <6> QED
            BY <5>1, <5>2, <5>4, <6>1, <6>2
        <5> QED
          BY <5>3, <5>4
      <4>4. r.prev[w[i]] = w[i - 1]
        <5>1. CASE i = 2
          BY <1>7, <2>1, <2>4, <4>2, <5>1
        <5>2. CASE i # 2
          <6>1. i - 1 \in 0 + 2..Len(s) + 1 /\ i - 1 # 1
            BY <1>1, <4>1, <5>2
          <6>2. s[i - 1] # h
            BY <1>1, <2>1, <4>1, <6>1
          <6>3. r.prev[w[i]] = l.prev[s[i - 1]]
            BY <2>4, <4>2, <6>2
          <6>4. l.prev[s[i - 1]] = s[(i - 1) - 1]
            BY <2>5, <4>1, <6>1
          <6>5. w[i - 1] = s[(i - 1) - 1]
            BY <1>3, <6>1
          <6> QED
            BY <6>3, <6>4, <6>5
        <5> QED
          BY <5>1, <5>2
      <4> QED
        BY <3>2, <4>3, <4>4
    <3> QED
      BY <3>1, <3>2
  <2>7. r.tail = w[Len(s) + 1]
    <3>1. Len(s) + 1 \in 0 + 2..Len(s) + 1 /\ (Len(s) + 1) - 1 = Len(s)
      BY <1>1, <2>1
    <3>2. w[Len(s) + 1] = s[(Len(s) + 1) - 1]
      BY <1>3, <3>1
    <3> QED
      BY <2>3, <2>5, <3>1, <3>2
  <2>8. Linked(r, w)
    <3>1. Len(s) + 1 # 0
      BY <1>1
    <3> QED
      BY <1>3, <1>7, <2>3, <2>6, <2>7, <3>1 DEF Linked
  <2>9. Loose(r, Members(w))
    <3> SUFFICES ASSUME NEW n \in Nodes \ Members(w) PROVE r.next[n] = Null /\ r.prev[n] = Null
      BY DEF Loose
    <3>1. n # t /\ n \notin Members(s)
      BY <1>3
    <3>2. n # h
      BY <2>1, <3>1 DEF Members
    <3>3. l.next[n] = Null /\ l.prev[n] = Null
      BY <3>1 DEF Shape, Loose
    <3> QED
      BY <2>4, <3>1, <3>2, <3>3
  <2> QED
    BY <1>3, <2>3, <2>8, <2>9 DEF Shape, r, h
<1> QED
  BY <1>6, <1>8, <1>9 DEF w

LEMMA AddedShape ==
    ASSUME NEW l, NEW s, Shape(l, s), NEW t \in Nodes \ Members(s), NEW e
    PROVE  \E j \in 0..Len(s) : Shape(Added(l, e, t), With(s, j, t)) /\ Belongs(s, e, t, j)
<1>1. Len(s) \in Nat
  BY ChainTypes DEF Shape
<1>2. l \in Pointers /\ s \in Chains /\ Linked(l, s) /\ Loose(l, Members(s)) /\ l.next[t] = Null
  BY DEF Shape, Loose
<1>3. CASE l.head = Null
  <2>1. Len(s) = 0 /\ Shape(Added(l, e, t), With(s, 0, t))
    BY <1>3, FirstShape DEF Added
  <2> QED
    BY <2>1 DEF Belongs
<1>4. CASE l.head # Null /\ e[t] < e[l.head]
  <2>1. Shape(Added(l, e, t), With(s, 0, t))
    BY <1>4, FirstShape DEF Added
  <2>2. l.head = s[0 + 1]
    BY <1>2, <1>4 DEF Linked
  <2> QED
    BY <1>1, <1>4, <2>1, <2>2 DEF Belongs
<1>5. CASE l.head # Null /\ ~(e[t] < e[l.head])
  <2>1. Len(s) # 0 /\ l.head = s[1]
    BY <1>2, <1>5 DEF Linked
  <2>2. 1 \in 1..Len(s)
    BY <1>1, <2>1
  <2>3. Loose(l, Members(s) \cup {t})
    BY <1>2 DEF Loose
  <2>4. PICK j \in 1..Len(s) : /\ Place(l, e, t, s[1]) = s[j]
                               /\ Fits(s, e, t, j) /\ \A i \in 1..j - 1 : ~Fits(s, e, t, i)
    BY <1>2, <2>2, <2>3, PlaceFits
  <2>5. Shape(InsertFrom(l, e, t, s[1]), With(s, j, t))
    BY <1>2, <2>3, <2>4, Inserted
  <2>6. Added(l, e, t) = InsertFrom(l, e, t, s[1])
    BY <1>5, <2>1 DEF Added
  <2>7. ~(e[t] < e[s[j]])
    <3>1. CASE j = 1
      BY <1>5, <2>1, <3>1
    <3>2. CASE j # 1
      <4>1. j - 1 \in 1..j - 1 /\ (j - 1) + 1 = j
        BY <1>1, <3>2
      <4>2. ~Fits(s, e, t, j - 1)
        BY <2>4, <4>1
      <4> QED
        BY <4>1, <4>2 DEF Fits
    <3> QED
      BY <3>1, <3>2
  <2>8. j \in 0..Len(s)
    BY <1>1
  <2> QED
    BY <2>4, <2>5, <2>6, <2>7, <2>8 DEF Belongs, Fits
<1> QED
  BY <1>3, <1>4, <1>5

LEMMA AdjustedShape ==
    ASSUME NEW l, NEW s, Shape(l, s), NEW k \in 1..Len(s), NEW e
    PROVE  \/ Adjusted(l, e, s[k]) = l /\ (k = Len(s) \/ e[s[k]] < e[s[k + 1]])
           \/ /\ k # Len(s) /\ ~(e[s[k]] < e[s[k + 1]])
              /\ \E j \in 0..Len(s) - 1 :
                    /\ Shape(Adjusted(l, e, s[k]), With(Without(s, k), j, s[k]))
                    /\ Belongs(Without(s, k), e, s[k], j)
<1> DEFINE t == s[k]
           p == l.prev[t]
           q == l.next[t]
           w == Without(s, k)
<1>1. Len(s) \in Nat /\ k \in Nat /\ 1 <= k /\ k <= Len(s)
      /\ (\A i \in 1..Len(s) : s[i] \in Nodes /\ s[i] # Null)
      /\ \A i, j \in 1..Len(s) : s[i] = s[j] => i = j
  BY ChainTypes DEF Shape
<1>2. /\ l.head = s[1] /\ l.tail = s[Len(s)]
      /\ q = (IF k = Len(s) THEN Null ELSE s[k + 1])
      /\ p = (IF k = 1 THEN Null ELSE s[k - 1])
  BY <1>1 DEF Shape, Linked
<1>3. t = l.head <=> k = 1
  <2>1. 1 \in 1..Len(s)
    BY <1>1
  <2> QED
    BY <1>1, <1>2, <2>1
<1>4. t \in Nodes /\ (k # 1 => p \in Nodes /\ p # t) /\ (k # Len(s) => q \in Nodes /\ q # t)
  <2>1. (k # 1 => k - 1 \in 1..Len(s) /\ k - 1 # k) /\ (k # Len(s) => k + 1 \in 1..Len(s) /\ k + 1 # k)
    BY <1>1
  <2> QED
    BY <1>1, <1>2, <2>1
<1>5. /\ w \in Chains /\ Len(w) = Len(s) - 1 /\ Members(w) = Members(s) \ {t}
      /\ \A i \in k..Len(s) - 1 : w[i] = s[i + 1]
  BY WithoutChain DEF Shape
<1>6. t \in Members(s)
  BY DEF Members
<1> HIDE DEF w
<1>7. CASE q = Null \/ e[t] < e[q]
  <2>1. Adjusted(l, e, t) = l
    BY <1>7 DEF Adjusted
  <2>2. k = Len(s) \/ e[t] < e[s[k + 1]]
    BY <1>2, <1>4, <1>7
  <2> QED
    BY <2>1, <2>2
<1>8. CASE q # Null /\ ~(e[t] < e[q])
  <2>1. k # Len(s) /\ q = s[k + 1]
    BY <1>2, <1>8
  <2>2. k \in 1..Len(w) /\ w[k] = q
    <3>1. k \in k..Len(s) - 1 /\ k \in 1..Len(s) - 1
      BY <1>1, <2>1
    <3> QED
      BY <1>5, <2>1, <3>1
  <2> DEFINE r == IF k = 1 THEN [l EXCEPT !.head = q, !.prev[q] = Null, !.next[t] = Null]
                  ELSE [l EXCEPT !.next[p] = q, !.prev[q] = p]
  <2>3. Adjusted(l, e, t) = InsertFrom(r, e, t, q)
    BY <1>3, <1>8 DEF Adjusted
  <2>4. l \in Pointers
    BY DEF Shape
  <2> HIDE DEF t, p, q
  <2>5. /\ r \in Pointers /\ r.next[t] \in {q, Null}
        /\ r.head = (IF k = 1 THEN q ELSE l.head) /\ r.tail = l.tail
        /\ \A n \in Nodes \ {t} : /\ r.next[n] = (IF n = p THEN q ELSE l.next[n])
                                  /\ r.prev[n] = (IF n = q THEN p ELSE l.prev[n])
    <3>1. CASE k = 1
      <4>1. p = Null /\ q \in Nodes /\ q # t /\ t \in Nodes
        BY <1>2, <1>4, <2>1, <3>1
      <4>2. r = [l EXCEPT !.head = q, !.prev[q] = Null, !.next[t] = Null]
        BY <3>1
      <4> HIDE DEF r
      <4> QED
        BY <2>4, <3>1, <4>1, <4>2 DEF Pointers
    <3>2. CASE k # 1
      <4>1. p \in Nodes /\ p # t /\ q \in Nodes /\ q # t /\ t \in Nodes
        BY <1>4, <2>1, <3>2
      <4>2. r = [l EXCEPT !.next[p] = q, !.prev[q] = p]
        BY <3>2
      <4>3. l.next[t] = q
        BY DEF q
      <4> HIDE DEF r
      <4> QED
        BY <2>4, <3>2, <4>1, <4>2, <4>3 DEF Pointers
    <3> QED
      BY <3>1, <3>2
  <2> HIDE DEF r
  <2>6. Linked(r, w) /\ Loose(r, Members(s))
    BY <2>1, <2>5, Bypassed DEF t, p, q, w
  <2>7. Members(w) \cup {t} = Members(s) /\ t \in Nodes \ Members(w)
    BY <1>4, <1>5, <1>6
  <2>8. r.next[t] \in Members(w) \cup {Null}
    <3>1. q \in Members(w)
      BY <2>2 DEF Members
    <3> QED
      BY <2>5, <3>1
  <2>9. PICK j \in k..Len(w) : /\ Place(r, e, t, w[k]) = w[j]
                               /\ Fits(w, e, t, j) /\ \A i \in k..j - 1 : ~Fits(w, e, t, i)
    BY <1>5, <2>2, <2>5, <2>6, <2>7, <2>8, PlaceFits
  <2>10. j \in 1..Len(w) /\ j \in 0..Len(s) - 1 /\ Len(w) \in Nat
    BY <1>1, <1>5, <2>1
  <2>11. Shape(InsertFrom(r, e, t, q), With(w, j, t))
    BY <1>5, <2>2, <2>5, <2>6, <2>7, <2>9, <2>10, Inserted
  <2>12. ~(e[t] < e[w[j]])
    <3>1. CASE j = k
      BY <1>8, <2>2, <3>1
    <3>2. CASE j # k
      <4>1. j - 1 \in k..j - 1 /\ (j - 1) + 1 = j
        BY <1>1, <2>10, <3>2
      <4>2. ~Fits(w, e, t, j - 1)
        BY <2>9, <4>1
      <4> QED
        BY <4>1, <4>2 DEF Fits
    <3> QED
      BY <3>1, <3>2
  <2>13. Belongs(w, e, t, j)
    BY <2>9, <2>12 DEF Belongs, Fits
  <2> QED
    BY <1>8, <2>1, <2>3, <2>10, <2>11, <2>13 DEF t, q, w
<1> QED
  BY <1>7, <1>8

----------------------------------------------------------------------------
(* The list at every step of the program. *)

Types ==
    /\ expire \in [Nodes -> Nat] /\ live \subseteq Nodes
    /\ now \in 0..MaxNow /\ ticking \in BOOLEAN

\* list leads through a sequence of the live nodes.
Leads(s) == Shape(list, s) /\ Members(s) = live

ListInv == Types /\ \E s : Leads(s)

LEMMA AtOf ==
    ASSUME NEW s \in Chains, NEW t \in Members(s)
    PROVE  \E k \in 1..Len(s) : s[k] = t
  BY DEF Members

LEMMA InitInv == Init => ListInv
<1> SUFFICES ASSUME Init PROVE ListInv
  OBVIOUS
<1>1. Types
  <2>1. expire = [n \in Nodes |-> 0] /\ live = {} /\ now = 0 /\ ticking = FALSE
    BY DEF Init
  <2>2. 0 \in 0..MaxNow
    OBVIOUS
  <2> QED
    BY <2>1, <2>2 DEF Types
<1>2. << >> \in Chains /\ Len(<< >>) = 0 /\ Members(<< >>) = {}
  BY DEF Chains, Distinct, Members
<1>3. list \in Pointers /\ list.head = Null /\ \A n \in Nodes : list.next[n] = Null /\ list.prev[n] = Null
  BY DEF Init, Pointers
<1>4. Linked(list, << >>) /\ Loose(list, {})
  BY <1>2, <1>3 DEF Linked, Loose
<1>5. Leads(<< >>)
  BY <1>2, <1>3, <1>4 DEF Leads, Shape, Init
<1> QED
  BY <1>1, <1>5 DEF ListInv

LEMMA ExpireLater ==
    ASSUME Types, NEW n \in Nodes, expire' = [expire EXCEPT ![n] = now + Timeout]
    PROVE  expire' \in [Nodes -> Nat] /\ expire'[n] = now + Timeout
           /\ \A m \in Nodes \ {n} : expire'[m] = expire[m]
<1>1. now \in Nat /\ now + Timeout \in Nat
  BY DEF Types
<1> QED
  BY <1>1 DEF Types

LEMMA AddInv ==
    ASSUME Types, NEW s, Leads(s), NEW n \in Nodes, AddTimer(n)
    PROVE  \E j \in 0..Len(s) : Leads(With(s, j, n))' /\ Belongs(s, expire', n, j)
<1>1. n \in Nodes \ Members(s) /\ s \in Chains /\ Shape(list, s)
  BY DEF AddTimer, Leads, Shape
<1>2. PICK j \in 0..Len(s) : Shape(Added(list, expire', n), With(s, j, n)) /\ Belongs(s, expire', n, j)
  BY <1>1, AddedShape
<1>3. Members(With(s, j, n)) = live'
  BY <1>1, WithChain DEF AddTimer, Leads
<1>4. list' = Added(list, expire', n)
  BY DEF AddTimer
<1> QED
  BY <1>2, <1>3, <1>4 DEF Leads

LEMMA AdjustInv ==
    ASSUME Types, NEW s, Leads(s), NEW n \in Nodes, AdjustTimer(n)
    PROVE  \E k \in 1..Len(s) :
              /\ s[k] = n
              /\ \/ Leads(s)' /\ (k = Len(s) \/ expire'[n] < expire'[s[k + 1]])
                 \/ /\ k # Len(s) /\ ~(expire'[n] < expire'[s[k + 1]])
                    /\ \E j \in 0..Len(s) - 1 :
                        Leads(With(Without(s, k), j, n))' /\ Belongs(Without(s, k), expire', n, j)
<1>1. n \in Members(s) /\ s \in Chains /\ Shape(list, s) /\ live' = live
  BY DEF AdjustTimer, Leads, Shape
<1>2. PICK k \in 1..Len(s) : s[k] = n
  BY <1>1, AtOf
<1>3. list' = Adjusted(list, expire', n)
  BY DEF AdjustTimer
<1>4. CASE list' = list /\ (k = Len(s) \/ expire'[s[k]] < expire'[s[k + 1]])
  BY <1>1, <1>2, <1>4 DEF Leads
<1>5. CASE /\ k # Len(s) /\ ~(expire'[s[k]] < expire'[s[k + 1]])
           /\ \E j \in 0..Len(s) - 1 :
                 /\ Shape(Adjusted(list, expire', s[k]), With(Without(s, k), j, s[k]))
                 /\ Belongs(Without(s, k), expire', s[k], j)
  <2>1. PICK j \in 0..Len(s) - 1 : /\ Shape(list', With(Without(s, k), j, n))
                                   /\ Belongs(Without(s, k), expire', n, j)
    BY <1>2, <1>3, <1>5
  <2>2. Without(s, k) \in Chains /\ Len(Without(s, k)) = Len(s) - 1
        /\ Members(Without(s, k)) = Members(s) \ {n}
    BY <1>1, <1>2, WithoutChain
  <2>3. Members(With(Without(s, k), j, n)) = live'
    <3>1. j \in 0..Len(Without(s, k)) /\ n \in Nodes \ Members(Without(s, k))
      BY <2>2
    <3>2. Members(With(Without(s, k), j, n)) = Members(Without(s, k)) \cup {n}
      BY <2>2, <3>1, WithChain
    <3> QED
      BY <1>1, <2>2, <3>2 DEF Leads
  <2>4. Leads(With(Without(s, k), j, n))'
    BY <2>1, <2>3 DEF Leads
  <2> QED
    BY <1>2, <1>5, <2>1, <2>4
<1> QED
  BY <1>1, <1>2, <1>3, <1>4, <1>5, AdjustedShape

LEMMA DeleteInv ==
    ASSUME Types, NEW s, Leads(s), NEW n \in Nodes, DelTimer(n)
    PROVE  \E k \in 1..Len(s) : s[k] = n /\ Leads(Without(s, k))'
<1>1. n \in Members(s) /\ s \in Chains /\ Shape(list, s) /\ live' = live \ {n} /\ list' = Deleted(list, n)
  BY DEF DelTimer, Leads, Shape
<1>2. PICK k \in 1..Len(s) : s[k] = n
  BY <1>1, AtOf
<1>3. Shape(list', Without(s, k))
  BY <1>1, <1>2, DeletedShape
<1>4. Members(Without(s, k)) = live'
  BY <1>1, <1>2, WithoutChain DEF Leads
<1> QED
  BY <1>2, <1>3, <1>4 DEF Leads

LEMMA TickInv ==
    ASSUME Types, NEW s, Leads(s), TickOne
    PROVE  1 \in 1..Len(s) /\ list.head = s[1] /\ Leads(Without(s, 1))'
<1>1. s \in Chains /\ Shape(list, s) /\ list.head # Null /\ live' = live \ {list.head}
      /\ list' = HeadRemoved(list)
  BY DEF TickOne, Leads, Shape
<1>2. Len(s) \in Nat /\ Len(s) >= 1 /\ list.head = s[1] /\ Shape(list', Without(s, 1))
  BY <1>1, HeadRemovedShape, ChainTypes
<1>3. 1 \in 1..Len(s)
  BY <1>2
<1>4. Members(Without(s, 1)) = live'
  BY <1>1, <1>2, <1>3, WithoutChain DEF Leads
<1> QED
  BY <1>2, <1>3, <1>4 DEF Leads

LEMMA TypesStep ==
    ASSUME Types, [Next]_vars
    PROVE  Types'
<1>1. ASSUME NEW n \in Nodes, AddTimer(n) PROVE Types'
  BY <1>1, ExpireLater DEF AddTimer, Types
<1>2. ASSUME NEW n \in Nodes, AdjustTimer(n) PROVE Types'
  BY <1>2, ExpireLater DEF AdjustTimer, Types
<1>3. ASSUME NEW n \in Nodes, DelTimer(n) PROVE Types'
  BY <1>3 DEF DelTimer, Types
<1>4. CASE TickBegin
  BY <1>4 DEF TickBegin, Types
<1>5. CASE TickOne
  BY <1>5 DEF TickOne, Types
<1>6. CASE TickEnd
  BY <1>6 DEF TickEnd, Types
<1>7. CASE Clock
  BY <1>7 DEF Clock, Types
<1>8. CASE UNCHANGED vars
  BY <1>8 DEF vars, Types
<1> QED
  BY <1>1, <1>2, <1>3, <1>4, <1>5, <1>6, <1>7, <1>8 DEF Next

LEMMA ListStep ==
    ASSUME ListInv, [Next]_vars
    PROVE  ListInv'
<1>1. Types /\ Types'
  BY TypesStep DEF ListInv
<1>2. PICK s : Leads(s)
  BY DEF ListInv
<1> SUFFICES \E r : Leads(r)'
  BY <1>1 DEF ListInv
<1>3. ASSUME NEW n \in Nodes, AddTimer(n) PROVE \E r : Leads(r)'
  BY <1>1, <1>2, <1>3, AddInv
<1>4. ASSUME NEW n \in Nodes, AdjustTimer(n) PROVE \E r : Leads(r)'
  BY <1>1, <1>2, <1>4, AdjustInv
<1>5. ASSUME NEW n \in Nodes, DelTimer(n) PROVE \E r : Leads(r)'
  BY <1>1, <1>2, <1>5, DeleteInv
<1>6. CASE TickOne
  BY <1>1, <1>2, <1>6, TickInv
<1>7. CASE TickBegin \/ TickEnd \/ Clock \/ UNCHANGED vars
  <2>1. list' = list /\ live' = live
    BY <1>7 DEF TickBegin, TickEnd, Clock, vars
  <2> QED
    BY <1>2, <2>1 DEF Leads
<1> QED
  BY <1>3, <1>4, <1>5, <1>6, <1>7 DEF Next

LEMMA ListAlways == Spec => []ListInv
  BY InitInv, ListStep, PTL DEF Spec

----------------------------------------------------------------------------
(* What the properties see of the list. *)

\* The k nodes behind place i of s.
Behind(s, i, k) == {s[j] : j \in {m \in i + 1..Len(s) : m <= i + k}}

LEMMA BehindStep ==
    ASSUME NEW s \in Chains, NEW i \in 1..Len(s), NEW k \in Nat
    PROVE  /\ Behind(s, i, 0) = {}
           /\ Behind(s, Len(s), k) = {}
           /\ i # Len(s) /\ k # 0 => Behind(s, i, k) = {s[i + 1]} \cup Behind(s, i + 1, k - 1)
<1>1. Len(s) \in Nat /\ i \in Nat
  BY ChainTypes
<1>2. {m \in i + 1..Len(s) : m <= i + 0} = {} /\ {m \in Len(s) + 1..Len(s) : m <= Len(s) + k} = {}
  BY <1>1
<1>3. ASSUME i # Len(s), k # 0
      PROVE  {m \in i + 1..Len(s) : m <= i + k}
             = {i + 1} \cup {m \in (i + 1) + 1..Len(s) : m <= (i + 1) + (k - 1)}
  BY <1>1, <1>3
<1> QED
  BY <1>2, <1>3 DEF Behind

LEMMA AfterIs ==
    ASSUME NEW s, Shape(list, s), NEW i \in 1..Len(s)
    PROVE  After[s[i]] = {s[j] : j \in i + 1..Len(s)}
<1> DEFINE C == Cardinality(Nodes)
           pos(n) == CHOOSE m \in 1..Len(s) : s[m] = n
           b(n, k) == IF n \in Members(s) THEN Behind(s, pos(n), k) ELSE {}
           f == [k \in 0..C |-> [n \in Nodes |-> b(n, k)]]
<1>1. /\ s \in Chains /\ Len(s) \in Nat /\ DOMAIN s = 1..Len(s)
      /\ (\A m \in 1..Len(s) : s[m] \in Nodes /\ s[m] # Null /\ s[m] \in Members(s))
      /\ \A m, n \in 1..Len(s) : s[m] = s[n] => m = n
  BY ChainTypes DEF Shape
<1>2. C \in Nat /\ Len(s) <= C
  <2>1. s \in Injection(1..Len(s), Nodes)
    <3>1. s \in [1..Len(s) -> Nodes]
      BY <1>1 DEF Chains
    <3> QED
      BY <1>1, <3>1, Zenon DEF Injection, IsInjective
  <2>2. Cardinality(1..Len(s)) = Len(s)
    BY <1>1, FS_Interval
  <2>3. Cardinality(1..Len(s)) <= Cardinality(Nodes)
    BY <2>1, FS_Injection
  <2> QED
    BY <2>2, <2>3, FS_CardinalityType
<1>3. \A m \in 1..Len(s) : pos(s[m]) = m
  BY <1>1
<1> HIDE DEF C, pos
<1>4. \A m \in 1..Len(s), k \in Nat : b(s[m], k) = Behind(s, m, k)
  BY <1>1, <1>3
<1>5. \A n \in Nodes \ Members(s), k \in Nat : b(n, k) = {} /\ list.next[n] = Null
  BY DEF Shape, Loose
<1> HIDE DEF b
<1>6. \A m \in 1..Len(s) : list.next[s[m]] = IF m = Len(s) THEN Null ELSE s[m + 1]
  BY DEF Shape, Linked
<1>7. ASSUME NEW n \in Nodes, NEW k \in 0..C
      PROVE  b(n, k) = IF k = 0 \/ list.next[n] = Null THEN {}
                       ELSE {list.next[n]} \cup b(list.next[n], k - 1)
  <2>1. k \in Nat
    BY <1>2
  <2>2. CASE n \notin Members(s)
    BY <1>5, <2>1, <2>2
  <2>3. CASE n \in Members(s)
    <3>1. PICK m \in 1..Len(s) : n = s[m]
      BY <2>3 DEF Members
    <3>2. b(n, k) = Behind(s, m, k)
      BY <1>4, <2>1, <3>1
    <3>3. CASE m = Len(s) \/ k = 0
      <4>1. Behind(s, m, k) = {}
        BY <1>1, <2>1, <3>3, BehindStep
      <4> QED
        BY <1>6, <3>1, <3>2, <3>3, <4>1
    <3>4. CASE m # Len(s) /\ k # 0
      <4>1. m + 1 \in 1..Len(s) /\ k - 1 \in Nat
        <5>1. Len(s) \in Nat
          BY <1>1
        <5> QED
          BY <2>1, <3>4, <5>1
      <4>2. list.next[n] = s[m + 1] /\ s[m + 1] # Null
        BY <1>1, <1>6, <3>1, <3>4, <4>1
      <4>3. b(s[m + 1], k - 1) = Behind(s, m + 1, k - 1)
        BY <1>4, <4>1
      <4>4. Behind(s, m, k) = {s[m + 1]} \cup Behind(s, m + 1, k - 1)
        <5>1. s \in Chains /\ m # Len(s) /\ k # 0
          BY <1>1, <3>4
        <5> QED
          BY <2>1, <5>1, BehindStep
      <4> QED
        BY <3>2, <3>4, <4>2, <4>3, <4>4
    <3> QED
      BY <3>3, <3>4
  <2> QED
    BY <2>2, <2>3
<1>8. \A n \in Nodes : list.next[n] # Null => list.next[n] \in Nodes
  BY DEF Shape, Pointers
<1>9. f = [k \in 0..C |-> [n \in Nodes |->
            IF k = 0 \/ list.next[n] = Null THEN {}
            ELSE {list.next[n]} \cup f[k - 1][list.next[n]]]]
  <2> SUFFICES ASSUME NEW k \in 0..C, NEW n \in Nodes
               PROVE  b(n, k) = IF k = 0 \/ list.next[n] = Null THEN {}
                                ELSE {list.next[n]} \cup f[k - 1][list.next[n]]
    BY Zenon
  <2>1. CASE k = 0 \/ list.next[n] = Null
    BY <1>7, <2>1
  <2>2. CASE ~(k = 0 \/ list.next[n] = Null)
    <3>1. k - 1 \in 0..C /\ list.next[n] \in Nodes
      BY <1>2, <1>8, <2>2
    <3>2. f[k - 1][list.next[n]] = b(list.next[n], k - 1)
      BY <3>1
    <3> QED
      BY <1>7, <2>2, <3>2
  <2> QED
    BY <2>1, <2>2
<1>10. \A k \in 0..C, n \in Nodes : f[k][n] = b(n, k)
  OBVIOUS
<1> HIDE DEF f
<1> DEFINE F == CHOOSE h : h = [k \in 0..C |-> [n \in Nodes |->
                  IF k = 0 \/ list.next[n] = Null THEN {}
                  ELSE {list.next[n]} \cup h[k - 1][list.next[n]]]]
<1>11. F = [k \in 0..C |-> [n \in Nodes |->
            IF k = 0 \/ list.next[n] = Null THEN {}
            ELSE {list.next[n]} \cup F[k - 1][list.next[n]]]]
  BY <1>9, Zenon
<1>12. After = F[C]
  BY Zenon DEF After, C
<1> HIDE DEF F
<1>13. ASSUME NEW k \in 0..C, NEW n \in Nodes
       PROVE  F[k][n] = IF k = 0 \/ list.next[n] = Null THEN {}
                        ELSE {list.next[n]} \cup F[k - 1][list.next[n]]
  <2>1. F[k] = [m \in Nodes |-> IF k = 0 \/ list.next[m] = Null THEN {}
                                ELSE {list.next[m]} \cup F[k - 1][list.next[m]]]
    BY <1>11, Zenon
  <2> QED
    BY <2>1, Zenon
<1>14. \A k \in 0..C : \A n \in Nodes : F[k][n] = b(n, k)
  <2> DEFINE T == {k \in 0..C : \E n \in Nodes : F[k][n] # b(n, k)}
  <2> SUFFICES ASSUME T # {} PROVE FALSE
    OBVIOUS
  <2>1. T \subseteq Nat
    BY <1>2
  <2>2. PICK k \in T : \A x \in T : k <= x
    <3> HIDE DEF T
    <3> QED
      BY <2>1, Least
  <2>3. PICK n \in Nodes : F[k][n] # b(n, k)
    OBVIOUS
  <2>4. k \in 0..C
    OBVIOUS
  <2>5. ~(k = 0 \/ list.next[n] = Null)
    BY <1>7, <1>13, <2>3, <2>4
  <2>6. k - 1 \in 0..C /\ ~(k <= k - 1) /\ list.next[n] \in Nodes
    BY <1>2, <1>8, <2>4, <2>5
  <2>7. k - 1 \notin T
    BY <2>2, <2>6
  <2>8. F[k - 1][list.next[n]] = b(list.next[n], k - 1)
    BY <2>6, <2>7
  <2> HIDE DEF T
  <2>9. F[k][n] = {list.next[n]} \cup F[k - 1][list.next[n]]
    BY <1>13, <2>4, <2>5
  <2>10. b(n, k) = {list.next[n]} \cup b(list.next[n], k - 1)
    BY <1>7, <2>4, <2>5
  <2> QED
    BY <2>3, <2>8, <2>9, <2>10
<1>15. After[s[i]] = Behind(s, i, C)
  <2>1. C \in 0..C /\ C \in Nat /\ s[i] \in Nodes
    BY <1>1, <1>2
  <2> QED
    BY <1>4, <1>12, <1>14, <2>1
<1>16. {m \in i + 1..Len(s) : m <= i + C} = i + 1..Len(s)
  BY <1>1, <1>2
<1> QED
  BY <1>15, <1>16 DEF Behind

LEMMA LeadsWellLinked == ASSUME NEW s, Leads(s) PROVE WellLinked
<1>1. /\ s \in Chains /\ Len(s) \in Nat /\ live = Members(s)
      /\ (\A m \in 1..Len(s) : s[m] \in Nodes /\ s[m] # Null /\ s[m] \in Members(s))
      /\ \A m, n \in 1..Len(s) : s[m] = s[n] => m = n
  BY ChainTypes DEF Leads, Shape
<1>2. /\ list.head = (IF Len(s) = 0 THEN Null ELSE s[1])
      /\ (Len(s) > 0 => list.tail = s[Len(s)])
      /\ (\A i \in 1..Len(s) : list.next[s[i]] = IF i = Len(s) THEN Null ELSE s[i + 1])
      /\ \A i \in 1..Len(s) : list.prev[s[i]] = IF i = 1 THEN Null ELSE s[i - 1]
  BY DEF Leads, Shape, Linked
<1>3. \A i \in 1..Len(s) : After[s[i]] = {s[j] : j \in i + 1..Len(s)}
  BY AfterIs DEF Leads
<1>4. CASE Len(s) = 0
  <2>1. Members(s) = {}
    BY <1>4 DEF Members
  <2> QED
    BY <1>1, <1>2, <1>4, <2>1 DEF WellLinked
<1>5. CASE Len(s) # 0
  <2>1. 1 \in 1..Len(s) /\ Len(s) \in 1..Len(s) /\ Len(s) > 0
    BY <1>1, <1>5
  <2>2. list.head = s[1] /\ list.head # Null /\ list.prev[list.head] = Null
    BY <1>1, <1>2, <1>5, <2>1
  <2>3. live = {list.head} \cup After[list.head]
    <3>1. 1..Len(s) = {1} \cup (1 + 1..Len(s))
      BY <1>1, <2>1
    <3>2. After[s[1]] = {s[j] : j \in 1 + 1..Len(s)}
      BY <1>3, <2>1
    <3>3. Members(s) = {s[1]} \cup {s[j] : j \in 1 + 1..Len(s)}
      BY <3>1 DEF Members
    <3> QED
      BY <1>1, <2>2, <3>2, <3>3
  <2>4. ASSUME NEW n \in live PROVE n \notin After[n]
    <3>1. PICK i \in 1..Len(s) : n = s[i]
      BY <1>1 DEF Members
    <3>2. \A j \in i + 1..Len(s) : j \in 1..Len(s) /\ j # i
      BY <1>1
    <3>3. \A j \in i + 1..Len(s) : s[j] # s[i]
      BY <1>1, <3>2
    <3>4. After[s[i]] = {s[j] : j \in i + 1..Len(s)}
      BY <1>3
    <3> QED
      BY <3>1, <3>3, <3>4
  <2>5. ASSUME NEW n \in live, list.next[n] # Null PROVE list.prev[list.next[n]] = n
    <3>1. PICK i \in 1..Len(s) : n = s[i]
      BY <1>1 DEF Members
    <3>2. i # Len(s) /\ list.next[n] = s[i + 1]
      BY <1>2, <2>5, <3>1
    <3>3. i + 1 \in 1..Len(s) /\ i + 1 # 1 /\ (i + 1) - 1 = i
      BY <1>1, <3>2
    <3>4. list.prev[s[i + 1]] = s[(i + 1) - 1]
      BY <1>2, <3>3
    <3> QED
      BY <3>1, <3>2, <3>3, <3>4
  <2>6. list.tail \in live /\ list.next[list.tail] = Null
    BY <1>1, <1>2, <2>1
  <2> QED
    BY <2>2, <2>3, <2>4, <2>5, <2>6 DEF WellLinked
<1> QED
  BY <1>4, <1>5

\* Whatever the clock does, even when it is set back, add_timer, adjust_timer,
\* del_timer and tick keep head, tail, next and prev one list without cycles of
\* exactly the nodes that are allocated.
THEOREM OneList == Spec => []WellLinked
<1>1. ListInv => WellLinked
  BY LeadsWellLinked DEF ListInv
<1> QED
  BY <1>1, ListAlways, PTL

----------------------------------------------------------------------------
(* The order of expiry: with a clock that is not set back. *)

InOrder(s, e) == \A i \in 1..Len(s) : i # Len(s) => e[s[i]] <= e[s[i + 1]]

\* No timer is set further ahead than the full timeout.
Timely == \A n \in live : expire[n] <= now + Timeout

OrderInv == Types /\ Timely /\ \E s : Leads(s) /\ InOrder(s, expire)

LEMMA WithInOrder ==
    ASSUME NEW s \in Chains, NEW e \in [Nodes -> Nat], InOrder(s, e),
           NEW j \in 0..Len(s), NEW t \in Nodes \ Members(s), Belongs(s, e, t, j)
    PROVE  InOrder(With(s, j, t), e)
<1> DEFINE w == With(s, j, t)
<1>1. Len(s) \in Nat /\ j \in Nat /\ j <= Len(s)
      /\ (\A i \in 1..Len(s) : s[i] \in Nodes /\ e[s[i]] \in Nat) /\ e[t] \in Nat
  BY ChainTypes
<1>2. /\ Len(w) = Len(s) + 1 /\ (\A i \in 1..j : w[i] = s[i]) /\ w[j + 1] = t
      /\ \A i \in j + 2..Len(s) + 1 : w[i] = s[i - 1]
  BY WithChain
<1>3. (j = Len(s) \/ e[t] < e[s[j + 1]]) /\ (j = 0 \/ ~(e[t] < e[s[j]]))
  BY DEF Belongs
<1> HIDE DEF w
<1> SUFFICES ASSUME NEW i \in 1..Len(s) + 1, i # Len(s) + 1 PROVE e[w[i]] <= e[w[i + 1]]
  BY <1>2 DEF InOrder, w
<1>4. CASE i < j
  <2>1. i \in 1..j /\ i + 1 \in 1..j /\ i \in 1..Len(s) /\ i # Len(s)
    BY <1>1, <1>4
  <2> QED
    BY <1>2, <2>1 DEF InOrder
<1>5. CASE i = j
  <2>1. j \in 1..j /\ j \in 1..Len(s) /\ j # 0
    BY <1>1, <1>5
  <2>2. w[i] = s[j] /\ w[i + 1] = t
    BY <1>2, <1>5, <2>1
  <2> QED
    BY <1>1, <1>3, <2>1, <2>2
<1>6. CASE i = j + 1
  <2>1. j # Len(s) /\ j + 1 \in 1..Len(s) /\ i + 1 \in j + 2..Len(s) + 1 /\ (i + 1) - 1 = j + 1
    BY <1>1, <1>6
  <2>2. w[i] = t /\ w[i + 1] = s[j + 1]
    BY <1>2, <1>6, <2>1
  <2> QED
    BY <1>1, <1>3, <2>1, <2>2
<1>7. CASE i > j + 1
  <2>1. i \in j + 2..Len(s) + 1 /\ i + 1 \in j + 2..Len(s) + 1 /\ (i + 1) - 1 = i
        /\ i - 1 \in 1..Len(s) /\ i - 1 # Len(s) /\ (i - 1) + 1 = i
    BY <1>1, <1>7
  <2>2. w[i] = s[i - 1] /\ w[i + 1] = s[(i + 1) - 1]
    BY <1>2, <2>1
  <2>3. e[s[i - 1]] <= e[s[(i - 1) + 1]]
    BY <2>1 DEF InOrder
  <2> QED
    BY <2>1, <2>2, <2>3
<1> QED
  BY <1>1, <1>4, <1>5, <1>6, <1>7

LEMMA WithoutInOrder ==
    ASSUME NEW s \in Chains, NEW e \in [Nodes -> Nat], InOrder(s, e), NEW k \in 1..Len(s)
    PROVE  InOrder(Without(s, k), e)
<1> DEFINE w == Without(s, k)
<1>1. Len(s) \in Nat /\ k \in Nat /\ 1 <= k /\ k <= Len(s)
      /\ \A i \in 1..Len(s) : s[i] \in Nodes /\ e[s[i]] \in Nat
  BY ChainTypes
<1>2. /\ Len(w) = Len(s) - 1 /\ (\A i \in 1..k - 1 : w[i] = s[i])
      /\ \A i \in k..Len(s) - 1 : w[i] = s[i + 1]
  BY WithoutChain
<1> HIDE DEF w
<1> SUFFICES ASSUME NEW i \in 1..Len(s) - 1, i # Len(s) - 1 PROVE e[w[i]] <= e[w[i + 1]]
  BY <1>2 DEF InOrder, w
<1>3. i \in 1..Len(s) /\ i + 1 \in 1..Len(s) /\ (i + 1) + 1 \in 1..Len(s) /\ i # Len(s) /\ i + 1 # Len(s)
  BY <1>1
<1>4. e[s[i]] <= e[s[i + 1]] /\ e[s[i + 1]] <= e[s[(i + 1) + 1]]
  BY <1>3 DEF InOrder
<1>5. CASE i + 1 < k
  <2>1. i \in 1..k - 1 /\ i + 1 \in 1..k - 1
    BY <1>1, <1>5
  <2> QED
    BY <1>2, <1>4, <2>1
<1>6. CASE i + 1 = k
  <2>1. i \in 1..k - 1 /\ i + 1 \in k..Len(s) - 1
    BY <1>1, <1>6
  <2>2. w[i] = s[i] /\ w[i + 1] = s[(i + 1) + 1]
    BY <1>2, <2>1
  <2>3. e[s[i]] \in Nat /\ e[s[i + 1]] \in Nat /\ e[s[(i + 1) + 1]] \in Nat
    BY <1>1, <1>3
  <2> QED
    BY <1>4, <2>2, <2>3
<1>7. CASE i + 1 > k
  <2>1. i \in k..Len(s) - 1 /\ i + 1 \in k..Len(s) - 1
    BY <1>1, <1>7
  <2> QED
    BY <1>2, <1>4, <2>1
<1> QED
  BY <1>1, <1>5, <1>6, <1>7

\* The head is the first to expire.
LEMMA HeadFirst ==
    ASSUME NEW s \in Chains, NEW e \in [Nodes -> Nat], InOrder(s, e), NEW i \in 1..Len(s)
    PROVE  e[s[1]] <= e[s[i]]
<1>1. Len(s) \in Nat /\ \A j \in 1..Len(s) : s[j] \in Nodes /\ e[s[j]] \in Nat
  BY ChainTypes
<1> DEFINE T == {j \in 1..Len(s) : ~(e[s[1]] <= e[s[j]])}
<1> SUFFICES ASSUME T # {} PROVE FALSE
  OBVIOUS
<1>2. T \subseteq Nat
  OBVIOUS
<1>3. PICK j \in T : \A x \in T : j <= x
  <2> HIDE DEF T
  <2> QED
    BY <1>2, Least
<1>4. j \in 1..Len(s) /\ ~(e[s[1]] <= e[s[j]])
  OBVIOUS
<1>5. 1 \in 1..Len(s) /\ j # 1
  BY <1>1, <1>4
<1>6. j - 1 \in 1..Len(s) /\ ~(j <= j - 1) /\ (j - 1) + 1 = j /\ j - 1 # Len(s)
  BY <1>1, <1>4, <1>5
<1>7. e[s[1]] <= e[s[j - 1]]
  BY <1>3, <1>6
<1>8. e[s[j - 1]] <= e[s[(j - 1) + 1]]
  BY <1>6 DEF InOrder
<1>9. e[s[1]] \in Nat /\ e[s[j - 1]] \in Nat /\ e[s[j]] \in Nat
  BY <1>1, <1>4, <1>5, <1>6
<1> QED
  BY <1>4, <1>6, <1>7, <1>8, <1>9

LEMMA SameOrder ==
    ASSUME NEW s \in Chains, NEW e, NEW d, InOrder(s, e), \A m \in Members(s) : d[m] = e[m]
    PROVE  InOrder(s, d)
<1> SUFFICES ASSUME NEW i \in 1..Len(s), i # Len(s) PROVE d[s[i]] <= d[s[i + 1]]
  BY DEF InOrder
<1>1. i + 1 \in 1..Len(s)
  <2>1. Len(s) \in Nat
    BY ChainTypes
  <2> QED
    BY <2>1
<1>2. s[i] \in Members(s) /\ s[i + 1] \in Members(s)
  BY <1>1 DEF Members
<1> QED
  BY <1>2 DEF InOrder

LEMMA TimelyStep ==
    ASSUME ClockSteps \subseteq Nat, Types, Timely, [Next]_vars
    PROVE  Timely'
<1>1. now \in Nat /\ now + Timeout \in Nat
  BY DEF Types
<1>2. ASSUME NEW n \in Nodes, AddTimer(n) PROVE Timely'
  <2>1. expire'[n] = now + Timeout /\ \A m \in Nodes \ {n} : expire'[m] = expire[m]
    BY <1>2, ExpireLater DEF AddTimer
  <2>2. live' = live \cup {n} /\ now' = now /\ live \subseteq Nodes
    BY <1>2 DEF AddTimer, Types
  <2> QED
    BY <1>1, <2>1, <2>2 DEF Timely
<1>3. ASSUME NEW n \in Nodes, AdjustTimer(n) PROVE Timely'
  <2>1. expire'[n] = now + Timeout /\ \A m \in Nodes \ {n} : expire'[m] = expire[m]
    BY <1>3, ExpireLater DEF AdjustTimer
  <2>2. live' = live /\ now' = now /\ live \subseteq Nodes
    BY <1>3 DEF AdjustTimer, Types
  <2> QED
    BY <1>1, <2>1, <2>2 DEF Timely
<1>4. ASSUME NEW n \in Nodes, DelTimer(n) PROVE Timely'
  BY <1>4 DEF DelTimer, Timely
<1>5. CASE TickOne
  BY <1>5 DEF TickOne, Timely
<1>6. CASE Clock
  <2>1. PICK d \in ClockSteps : now' = now + d
    BY <1>6 DEF Clock
  <2>2. expire' = expire /\ live' = live
    BY <1>6 DEF Clock
  <2>3. d \in Nat
    BY <2>1
  <2>4. ASSUME NEW n \in live PROVE expire[n] <= (now + d) + Timeout
    <3>1. expire[n] \in Nat /\ expire[n] <= now + Timeout
      BY DEF Types, Timely
    <3> QED
      BY <1>1, <2>3, <3>1
  <2> QED
    BY <2>1, <2>2, <2>4 DEF Timely
<1>7. CASE TickBegin \/ TickEnd \/ UNCHANGED vars
  <2>1. expire' = expire /\ live' = live /\ now' = now
    BY <1>7 DEF TickBegin, TickEnd, vars
  <2> QED
    BY <2>1 DEF Timely
<1> QED
  BY <1>2, <1>3, <1>4, <1>5, <1>6, <1>7 DEF Next

LEMMA AddOrder ==
    ASSUME Types, NEW s, Leads(s), InOrder(s, expire), NEW n \in Nodes, AddTimer(n)
    PROVE  \E r : Leads(r)' /\ InOrder(r, expire')
<1>1. PICK j \in 0..Len(s) : Leads(With(s, j, n))' /\ Belongs(s, expire', n, j)
  BY AddInv
<1>2. s \in Chains /\ n \in Nodes \ Members(s)
  BY DEF AddTimer, Leads, Shape
<1>3. expire' \in [Nodes -> Nat] /\ \A m \in Nodes \ {n} : expire'[m] = expire[m]
  BY ExpireLater DEF AddTimer
<1>4. InOrder(s, expire')
  <2>1. \A m \in Members(s) : expire'[m] = expire[m]
    BY <1>2, <1>3, ChainTypes
  <2> QED
    BY <1>2, <2>1, SameOrder
<1>5. InOrder(With(s, j, n), expire')
  BY <1>1, <1>2, <1>3, <1>4, WithInOrder
<1> QED
  BY <1>1, <1>5

LEMMA AdjustOrder ==
    ASSUME Types, Timely, NEW s, Leads(s), InOrder(s, expire), NEW n \in Nodes, AdjustTimer(n)
    PROVE  \E r : Leads(r)' /\ InOrder(r, expire')
<1>1. s \in Chains /\ n \in live /\ live = Members(s)
  BY DEF AdjustTimer, Leads, Shape
<1>2. expire' \in [Nodes -> Nat] /\ expire'[n] = now + Timeout
      /\ \A m \in Nodes \ {n} : expire'[m] = expire[m]
  BY ExpireLater DEF AdjustTimer
<1>3. expire[n] <= expire'[n]
  BY <1>1, <1>2 DEF Timely
<1>4. PICK k \in 1..Len(s) :
        /\ s[k] = n
        /\ \/ Leads(s)' /\ (k = Len(s) \/ expire'[n] < expire'[s[k + 1]])
           \/ /\ k # Len(s) /\ ~(expire'[n] < expire'[s[k + 1]])
              /\ \E j \in 0..Len(s) - 1 :
                  Leads(With(Without(s, k), j, n))' /\ Belongs(Without(s, k), expire', n, j)
  BY AdjustInv
<1>5. /\ Len(s) \in Nat /\ (\A i \in 1..Len(s) : s[i] \in Nodes)
      /\ \A i, j \in 1..Len(s) : s[i] = s[j] => i = j
  BY <1>1, ChainTypes
<1>6. CASE Leads(s)' /\ (k = Len(s) \/ expire'[n] < expire'[s[k + 1]])
  <2>1. ASSUME NEW i \in 1..Len(s), i # Len(s) PROVE expire'[s[i]] <= expire'[s[i + 1]]
    <3>1. i + 1 \in 1..Len(s) /\ i + 1 # i
      BY <1>5, <2>1
    <3>2. expire[s[i]] <= expire[s[i + 1]]
      BY <2>1 DEF InOrder
    <3>3. expire[s[i]] \in Nat /\ expire[s[i + 1]] \in Nat /\ expire'[s[i]] \in Nat /\ expire'[s[i + 1]] \in Nat
      BY <1>2, <1>5, <3>1 DEF Types
    <3>4. CASE i = k
      BY <1>4, <1>6, <2>1, <3>3, <3>4
    <3>5. CASE i + 1 = k
      <4>1. s[i + 1] = n /\ s[i] # n
        BY <1>4, <1>5, <3>1, <3>5
      <4>2. expire'[s[i]] = expire[s[i]] /\ expire[n] <= expire'[n]
        BY <1>2, <1>3, <1>5, <4>1
      <4> QED
        BY <3>2, <3>3, <4>1, <4>2
    <3>6. CASE i # k /\ i + 1 # k
      <4>1. s[i] # n /\ s[i + 1] # n
        BY <1>4, <1>5, <3>1, <3>6
      <4> QED
        BY <1>2, <1>5, <3>1, <3>2, <4>1
    <3> QED
      BY <3>4, <3>5, <3>6
  <2>2. InOrder(s, expire')
    BY <2>1 DEF InOrder
  <2> QED
    BY <1>6, <2>2
<1>7. CASE \E j \in 0..Len(s) - 1 :
             Leads(With(Without(s, k), j, n))' /\ Belongs(Without(s, k), expire', n, j)
  <2> DEFINE w == Without(s, k)
  <2>1. PICK j \in 0..Len(s) - 1 : Leads(With(w, j, n))' /\ Belongs(w, expire', n, j)
    BY <1>7
  <2>2. w \in Chains /\ Len(w) = Len(s) - 1 /\ Members(w) = Members(s) \ {n}
    BY <1>1, <1>4, WithoutChain
  <2>3. InOrder(w, expire)
    BY <1>1, WithoutInOrder DEF Types
  <2> HIDE DEF w
  <2>4. InOrder(w, expire')
    <3>1. \A m \in Members(w) : expire'[m] = expire[m]
      BY <1>2, <2>2, ChainTypes
    <3> QED
      BY <2>2, <2>3, <3>1, SameOrder
  <2>5. j \in 0..Len(w) /\ n \in Nodes \ Members(w)
    BY <2>2
  <2>6. InOrder(With(w, j, n), expire')
    BY <1>2, <2>1, <2>2, <2>4, <2>5, WithInOrder
  <2> QED
    BY <2>1, <2>6
<1> QED
  BY <1>4, <1>6, <1>7

LEMMA OrderStep ==
    ASSUME ClockSteps \subseteq Nat, OrderInv, [Next]_vars
    PROVE  OrderInv'
<1>1. Types /\ Timely /\ Types' /\ Timely'
  BY TypesStep, TimelyStep DEF OrderInv
<1>2. PICK s : Leads(s) /\ InOrder(s, expire)
  BY DEF OrderInv
<1>3. s \in Chains /\ expire \in [Nodes -> Nat]
  BY <1>1, <1>2 DEF Leads, Shape, Types
<1> SUFFICES \E r : Leads(r)' /\ InOrder(r, expire')
  BY <1>1 DEF OrderInv
<1>4. ASSUME NEW n \in Nodes, AddTimer(n) PROVE \E r : Leads(r)' /\ InOrder(r, expire')
  BY <1>1, <1>2, <1>4, AddOrder
<1>5. ASSUME NEW n \in Nodes, AdjustTimer(n) PROVE \E r : Leads(r)' /\ InOrder(r, expire')
  BY <1>1, <1>2, <1>5, AdjustOrder
<1>6. ASSUME NEW n \in Nodes, DelTimer(n) PROVE \E r : Leads(r)' /\ InOrder(r, expire')
  <2>1. PICK k \in 1..Len(s) : Leads(Without(s, k))'
    BY <1>1, <1>2, <1>6, DeleteInv
  <2>2. InOrder(Without(s, k), expire)
    BY <1>2, <1>3, WithoutInOrder
  <2>3. expire' = expire
    BY <1>6 DEF DelTimer
  <2> QED
    BY <2>1, <2>2, <2>3
<1>7. CASE TickOne
  <2>1. 1 \in 1..Len(s) /\ Leads(Without(s, 1))'
    BY <1>1, <1>2, <1>7, TickInv
  <2>2. InOrder(Without(s, 1), expire)
    BY <1>2, <1>3, <2>1, WithoutInOrder
  <2>3. expire' = expire
    BY <1>7 DEF TickOne
  <2> QED
    BY <2>1, <2>2, <2>3
<1>8. CASE TickBegin \/ TickEnd \/ Clock \/ UNCHANGED vars
  <2>1. list' = list /\ live' = live /\ expire' = expire
    BY <1>8 DEF TickBegin, TickEnd, Clock, vars
  <2>2. Leads(s)' /\ InOrder(s, expire')
    BY <1>2, <2>1 DEF Leads
  <2> QED
    BY <2>2
<1> QED
  BY <1>4, <1>5, <1>6, <1>7, <1>8 DEF Next

LEMMA InitOrder == Init => OrderInv
<1> SUFFICES ASSUME Init PROVE OrderInv
  OBVIOUS
<1>1. ListInv
  BY InitInv
<1>2. PICK s : Leads(s)
  BY <1>1 DEF ListInv
<1>3. live = {}
  BY DEF Init
<1>4. InOrder(s, expire)
  <2>1. \A i \in 1..Len(s) : s[i] \in Members(s)
    BY DEF Members
  <2> QED
    BY <1>2, <1>3, <2>1 DEF Leads, InOrder
<1>5. Timely
  BY <1>3 DEF Timely
<1> QED
  BY <1>1, <1>2, <1>4, <1>5 DEF OrderInv, ListInv

LEMMA LeadsSorted == ASSUME NEW s, Leads(s), InOrder(s, expire) PROVE Sorted
<1> SUFFICES ASSUME NEW n \in live, list.next[n] # Null PROVE expire[n] <= expire[list.next[n]]
  BY DEF Sorted
<1>1. PICK i \in 1..Len(s) : s[i] = n
  BY DEF Leads, Members
<1>2. i # Len(s) /\ list.next[n] = s[i + 1]
  BY <1>1 DEF Leads, Shape, Linked
<1> QED
  BY <1>1, <1>2 DEF InOrder

\* As long as time() never returns less than before, the list is in order of
\* expiry: add_timer finds the place, adjust_timer may move a node only towards
\* the tail since its new expiry is never earlier than its old one.
THEOREM InExpiryOrder == ASSUME ClockSteps \subseteq Nat PROVE Spec => []Sorted
<1>1. OrderInv /\ [Next]_vars => OrderInv'
  BY OrderStep
<1>2. OrderInv => Sorted
  BY LeadsSorted DEF OrderInv
<1> QED
  BY <1>1, <1>2, InitOrder, PTL DEF Spec

----------------------------------------------------------------------------
(* The list is a set of timers. *)

Dues == [n \in Nodes |-> IF n \in live THEN expire[n] ELSE Null]

LEMMA DuesStep ==
    ASSUME Types, NEW n \in Nodes, \A m \in Nodes \ {n} : (m \in live' <=> m \in live) /\ expire'[m] = expire[m]
    PROVE  /\ n \in live' => Dues' = [Dues EXCEPT ![n] = expire'[n]]
           /\ n \notin live' => Dues' = [Dues EXCEPT ![n] = Null]
  BY DEF Dues

LEMMA SetStep ==
    ASSUME OrderInv, [Next]_vars
    PROVE  [TS!TSNext]_(TS!tsvars)
<1>1. Types
  BY DEF OrderInv
<1>2. PICK s : Leads(s) /\ InOrder(s, expire)
  BY DEF OrderInv
<1>3. now \in Nat /\ live \subseteq Nodes /\ \A n \in Nodes : Dues[n] # Null <=> n \in live
  BY <1>1 DEF Types, Dues
<1>4. \A n \in live : Dues[n] = expire[n]
  BY <1>3 DEF Dues
<1>5. ASSUME NEW n \in Nodes, AddTimer(n) PROVE TS!TSAdd(n)
  <2>1. expire'[n] = now + Timeout /\ \A m \in Nodes \ {n} : expire'[m] = expire[m]
    BY <1>1, <1>5, ExpireLater DEF AddTimer
  <2>2. live' = live \cup {n} /\ n \notin live /\ ~ticking /\ UNCHANGED <<now, ticking>>
    BY <1>5 DEF AddTimer
  <2>3. Dues' = [Dues EXCEPT ![n] = now + Timeout]
    BY <1>1, <2>1, <2>2, DuesStep
  <2> QED
    BY <1>3, <2>2, <2>3 DEF TS!TSAdd, TS!In, Dues
<1>6. ASSUME NEW n \in Nodes, AdjustTimer(n) PROVE TS!TSAdjust(n)
  <2>1. expire'[n] = now + Timeout /\ \A m \in Nodes \ {n} : expire'[m] = expire[m]
    BY <1>1, <1>6, ExpireLater DEF AdjustTimer
  <2>2. live' = live /\ n \in live /\ ~ticking /\ UNCHANGED <<now, ticking>>
    BY <1>6 DEF AdjustTimer
  <2>3. Dues' = [Dues EXCEPT ![n] = now + Timeout]
    BY <1>1, <2>1, <2>2, DuesStep
  <2> QED
    BY <1>3, <2>2, <2>3 DEF TS!TSAdjust, TS!In, Dues
<1>7. ASSUME NEW n \in Nodes, DelTimer(n) PROVE TS!TSDelete(n)
  <2>1. live' = live \ {n} /\ n \in live /\ ~ticking /\ expire' = expire /\ UNCHANGED <<now, ticking>>
    BY <1>7 DEF DelTimer
  <2>2. Dues' = [Dues EXCEPT ![n] = Null]
    BY <1>1, <2>1, DuesStep
  <2> QED
    BY <1>3, <2>1, <2>2 DEF TS!TSDelete, TS!In, Dues
<1>8. CASE TickBegin
  <2>1. ~ticking /\ ticking' = TRUE /\ Dues' = Dues /\ now' = now
    BY <1>8 DEF TickBegin, Dues
  <2> QED
    BY <2>1 DEF TS!TSNext, TS!TSTick, Dues
<1>9. ASSUME TickOne PROVE \E h \in Nodes : TS!TSExpire(h)
  <2>1. PICK h : h = list.head
    OBVIOUS
  <2>2. ticking /\ Due(h) /\ live' = live \ {h} /\ UNCHANGED <<expire, now, ticking>>
    BY <1>9, <2>1 DEF TickOne, Due
  <2>3. h \in live
    <3>1. 1 \in 1..Len(s) /\ list.head = s[1]
      BY <1>1, <1>2, <1>9, TickInv
    <3> QED
      BY <1>2, <2>1, <3>1 DEF Leads, Members
  <2>4. h \in Nodes
    BY <1>3, <2>3
  <2>5. Dues' = [Dues EXCEPT ![h] = Null]
    BY <1>1, <2>2, <2>4, DuesStep
  <2>6. Dues[h] # Null /\ Dues[h] <= now
    <3>1. expire[h] \in Nat
      BY <1>1, <2>4 DEF Types
    <3>2. expire[h] <= now
      BY <1>3, <2>2, <3>1 DEF Due
    <3> QED
      BY <1>3, <1>4, <2>3, <2>4, <3>2
  <2>7. TS!TSExpire(h)
    BY <2>2, <2>5, <2>6 DEF TS!TSExpire, TS!Late, TS!In, Dues
  <2> QED
    BY <2>4, <2>7
<1>10. ASSUME TickEnd PROVE TS!TSTickEnd
  <2>1. ticking /\ ticking' = FALSE /\ Dues' = Dues /\ now' = now
    BY <1>10 DEF TickEnd, Dues
  <2>2. ASSUME NEW n \in live PROVE ~(expire[n] <= now)
    <3>1. PICK i \in 1..Len(s) : s[i] = n
      BY <1>2 DEF Leads, Members
    <3>2. s \in Chains /\ Len(s) \in Nat /\ (\A j \in 1..Len(s) : s[j] \in Nodes) /\ expire \in [Nodes -> Nat]
      BY <1>1, <1>2, ChainTypes DEF Leads, Shape, Types
    <3>3. 1 \in 1..Len(s) /\ Len(s) # 0
      BY <3>2
    <3>4. list.head = s[1]
      BY <1>2, <3>3 DEF Leads, Shape, Linked
    <3>5. now < expire[s[1]]
      <4>1. list.head # Null
        BY <3>2, <3>3, <3>4
      <4> QED
        BY <1>10, <3>4, <4>1 DEF TickEnd, Due
    <3>6. expire[s[1]] <= expire[n]
      BY <1>2, <3>1, <3>2, HeadFirst
    <3>7. expire[s[1]] \in Nat /\ expire[n] \in Nat
      BY <3>1, <3>2, <3>3
    <3> QED
      BY <1>3, <3>5, <3>6, <3>7
  <2>3. \A n \in Nodes : ~(Dues[n] # Null /\ Dues[n] <= now)
    BY <1>3, <1>4, <2>2
  <2> QED
    BY <2>1, <2>3 DEF TS!TSTickEnd, TS!Late, TS!In, Dues
<1>11. CASE Clock
  <2>1. ~ticking /\ now' \in Nat /\ Dues' = Dues /\ ticking' = ticking
    BY <1>11 DEF Clock, Dues
  <2> QED
    BY <2>1 DEF TS!TSNext, TS!TSClock, Dues
<1>12. CASE UNCHANGED vars
  BY <1>12 DEF vars, TS!tsvars
<1>13. ASSUME NEW n \in Nodes, AddTimer(n) \/ AdjustTimer(n) \/ DelTimer(n) PROVE TS!TSNext
  BY <1>5, <1>6, <1>7, <1>13 DEF TS!TSNext
<1>14. CASE TickOne
  BY <1>9, <1>14 DEF TS!TSNext
<1>15. CASE TickEnd
  BY <1>10, <1>15 DEF TS!TSNext
<1> QED
  BY <1>8, <1>11, <1>12, <1>13, <1>14, <1>15 DEF Next

\* As long as the clock is not set back, the list is a set of timers to its
\* user: a tick frees the nodes that are due, one after the other, and ends only
\* when none is left, whatever order they were added, adjusted and deleted in.
THEOREM ListIsSet == ASSUME ClockSteps \subseteq Nat PROVE Spec => ImplementsTimerSet
<1>1. OrderInv /\ [Next]_vars => OrderInv'
  BY OrderStep
<1>2. Init => TS!TSInit
  BY DEF Init, TS!TSInit
<1> QED
  BY <1>1, <1>2, SetStep, InitOrder, PTL DEF Spec, ImplementsTimerSet, TS!TSSpec

============================================================================
