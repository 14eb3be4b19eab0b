--------------------------- MODULE PlanningProofs ---------------------------
(***************************************************************************)
(* The pure algorithms of a run, for every input: topoSort runs each       *)
(* method of a batch once, build_queue partitions the tests, the chains it *)
(* cuts are the connected components, and what is cut off runs as it would *)
(* with the rest.  All are recursive functions; an induction is stated     *)
(* about the set of numbers for which something holds.                     *)
(***************************************************************************)
EXTENDS Planning, Execution, Integers, FiniteSetTheorems, WellFoundedInduction, TLAPS

(* Induction, for a set of numbers: the interval up to a smallest number   *)
(* outside of it would be a minimal set.                                   *)
LEMMA NatSetInduction ==
  ASSUME NEW S, S \subseteq Nat, 0 \in S, \A n \in S : n + 1 \in S
  PROVE  S = Nat
<1>1. SUFFICES ASSUME Nat \ S # {} PROVE FALSE
  OBVIOUS
<1> DEFINE T == {1 .. n : n \in Nat \ S}
<1>2. T \subseteq FiniteSubsetsOf(Nat) /\ T # {}
  <2>1. \A n \in Nat : 1 .. n \subseteq Nat /\ IsFiniteSet(1 .. n)
    BY FS_Interval
  <2> QED
    BY <1>1, <2>1 DEF FiniteSubsetsOf
<1>3. PICK X \in T : \A Y \in T : ~ (<<Y, X>> \in StrictSubsetOrdering(Nat))
  <2>1. IsWellFoundedOn(StrictSubsetOrdering(Nat), FiniteSubsetsOf(Nat))
    BY FS_StrictSubsetOrderingWellFounded
  <2> HIDE DEF T
  <2> QED
    BY <1>2, <2>1, WFMin
<1>4. PICK x \in Nat \ S : X = 1 .. x
  OBVIOUS
<1>5. x - 1 \in Nat \ S
  OBVIOUS
<1>6. 1 .. (x - 1) \in T
  BY <1>5
<1>7. <<1 .. (x-1), X>> \in StrictSubsetOrdering(Nat)
  <2>1. 1 .. (x-1) \subseteq Nat /\ X \subseteq Nat /\ 1 .. (x-1) \subseteq X /\ x \in X /\ x \notin 1 .. (x-1)
    BY <1>4, <1>5
  <2> QED
    BY <2>1 DEF StrictSubsetOrdering
<1> QED
  BY <1>3, <1>6, <1>7

(* A family of sets, one leading into the next under G: the sequence of    *)
(* x, G[x], G[G[x]], ... exists, and each member is in its set.            *)
Leads(G, St, N) == \A n \in 1 .. N : \A s \in St[n - 1] : G[s] \in St[n]

Iterates(f, x, G, St, N) ==
  /\ f = [n \in 0 .. N |-> IF n = 0 THEN x ELSE G[f[n - 1]]]
  /\ \A n \in 0 .. N : f[n] \in St[n]

\* If every stage leads to the next, some sequence follows all of them.
LEMMA Iteration ==
  ASSUME NEW N \in Nat, NEW St, NEW G, NEW x, x \in St[0], Leads(G, St, N)
  PROVE  \E f : Iterates(f, x, G, St, N)
<1>0. \A n \in 1 .. N : \A s \in St[n - 1] : G[s] \in St[n]
  BY DEF Leads
<1> DEFINE Upto(M, f) == /\ f = [n \in 0 .. M |-> IF n = 0 THEN x ELSE G[f[n - 1]]]
                         /\ \A n \in 0 .. M : f[n] \in St[n]
           T == {M \in Nat : M <= N => \E f : Upto(M, f)}
<1>1. 0 \in T
  <2>1. Upto(0, [n \in 0 .. 0 |-> x])
    OBVIOUS
  <2> QED
    BY <2>1
<1>2. ASSUME NEW M \in T PROVE M + 1 \in T
  <2>1. SUFFICES ASSUME M + 1 <= N PROVE \E f : Upto(M + 1, f)
    OBVIOUS
  <2>2. PICK f : Upto(M, f)
    BY <2>1
  <2> DEFINE g == [n \in 0 .. M + 1 |-> IF n = M + 1 THEN G[f[M]] ELSE f[n]]
  <2>3. \A n \in 0 .. M : n \in 0 .. M + 1 /\ n # M + 1 /\ g[n] = f[n]
    OBVIOUS
  <2>4. g[M + 1] = G[f[M]] /\ G[f[M]] \in St[M + 1]
    <3>1. M + 1 \in 1 .. N /\ M \in 0 .. M /\ f[M] \in St[M] /\ M + 1 - 1 = M
      BY <2>1, <2>2
    <3>2. \A s \in St[M + 1 - 1] : G[s] \in St[M + 1]
      BY <1>0, <3>1
    <3> QED
      BY <3>1, <3>2
  <2>5. \A n \in 0 .. M + 1 : g[n] = IF n = 0 THEN x ELSE G[g[n - 1]]
    <3> SUFFICES ASSUME NEW n \in 0 .. M + 1 PROVE g[n] = IF n = 0 THEN x ELSE G[g[n - 1]]
      OBVIOUS
    <3>1. CASE n = M + 1
      BY <2>3, <2>4, <3>1
    <3>2. CASE n # M + 1
      <4>1. n \in 0 .. M /\ (n # 0 => n - 1 \in 0 .. M)
        BY <3>2
      <4>2. f[n] = IF n = 0 THEN x ELSE G[f[n - 1]]
        BY <2>2, <4>1
      <4> QED
        BY <2>3, <4>1, <4>2
    <3> QED
      BY <3>1, <3>2
  <2>6. \A n \in 0 .. M + 1 : g[n] \in St[n]
    <3>1. \A n \in 0 .. M + 1 : n = M + 1 \/ n \in 0 .. M
      OBVIOUS
    <3> HIDE DEF g
    <3> QED
      BY <2>2, <2>3, <2>4, <3>1
  <2>7. g = [n \in 0 .. M + 1 |-> IF n = 0 THEN x ELSE G[g[n - 1]]]
    <3> DEFINE h == [n \in 0 .. M + 1 |-> IF n = 0 THEN x ELSE G[g[n - 1]]]
    <3>1. \A n \in 0 .. M + 1 : g[n] = h[n]
      <4> HIDE DEF g
      <4> QED BY <2>5
    <3> QED
      BY <3>1
  <2> QED
    <3> HIDE DEF g
    <3> QED BY <2>6, <2>7
<1>3. T = Nat
  <2> HIDE DEF T
  <2>1. T \subseteq Nat
    BY DEF T
  <2> QED
    BY <1>1, <1>2, <2>1, NatSetInduction
<1> QED
  <2>1. N \in T
    BY <1>3
  <2> QED
    BY <2>1 DEF Iterates

\* Such a sequence stays in its stages.
LEMMA Along ==
  ASSUME NEW N \in Nat, NEW St, NEW f, f[0] \in St[0],
         \A n \in 1 .. N : f[n - 1] \in St[n - 1] => f[n] \in St[n]
  PROVE  \A n \in 0 .. N : f[n] \in St[n]
<1> DEFINE T == {n \in Nat : n <= N => f[n] \in St[n]}
<1>1. 0 \in T
  OBVIOUS
<1>2. ASSUME NEW n \in T PROVE n + 1 \in T
  <2>1. SUFFICES ASSUME n + 1 <= N PROVE f[n + 1] \in St[n + 1]
    OBVIOUS
  <2>2. n + 1 \in 1 .. N /\ n + 1 - 1 = n /\ f[n] \in St[n]
    BY <2>1
  <2> QED
    BY <2>2
<1>3. T = Nat
  <2> HIDE DEF T
  <2>1. T \subseteq Nat
    BY DEF T
  <2> QED
    BY <1>1, <1>2, <2>1, NatSetInduction
<1> QED
  BY <1>3

(* A strict order on a finite set has a first member.                      *)
LEMMA First ==
  ASSUME NEW K, IsFiniteSet(K), K # {}, NEW R,
         \A a, b, c \in K : <<a, b>> \in R /\ <<b, c>> \in R => <<a, c>> \in R,
         \A a \in K : <<a, a>> \notin R
  PROVE  \E k \in K : \A l \in K : <<l, k>> \notin R
<1> DEFINE before(k) == {l \in K : <<l, k>> \in R}
           T == {before(k) : k \in K}
<1>1. T \subseteq FiniteSubsetsOf(K) /\ T # {}
  <2>1. \A k \in K : before(k) \in SUBSET K
    OBVIOUS
  <2>2. \A k \in K : IsFiniteSet(before(k))
    <3> HIDE DEF before
    <3> QED BY <2>1, FS_Subset
  <2> HIDE DEF before
  <2> QED
    BY <2>1, <2>2 DEF FiniteSubsetsOf
<1>2. PICK X \in T : \A Y \in T : ~ (<<Y, X>> \in StrictSubsetOrdering(K))
  <2>1. IsWellFoundedOn(StrictSubsetOrdering(K), FiniteSubsetsOf(K))
    BY FS_StrictSubsetOrderingWellFounded
  <2> HIDE DEF T
  <2> QED
    BY <1>1, <2>1, WFMin
<1>3. PICK k \in K : X = before(k)
  OBVIOUS
<1>4. SUFFICES ASSUME NEW l \in K, <<l, k>> \in R PROVE FALSE
  OBVIOUS
<1>5. before(l) \in T /\ before(l) \subseteq before(k) /\ l \in before(k) /\ l \notin before(l)
  <2>1. \A m \in K : <<m, l>> \in R => <<m, k>> \in R
    BY <1>4
  <2> QED
    BY <1>4, <2>1
<1>6. <<before(l), before(k)>> \in StrictSubsetOrdering(K)
  BY <1>5 DEF StrictSubsetOrdering
<1> QED
  BY <1>2, <1>3, <1>5, <1>6

\* A finite set of numbers has its minimum.
LEMMA LeastIsThere ==
  ASSUME NEW K \in SUBSET Nat, IsFiniteSet(K), K # {}
  PROVE  Min(K) \in K /\ \A l \in K : Min(K) <= l
<1> DEFINE R == {e \in K \X K : e[1] < e[2]}
<1>1. \E k \in K : \A l \in K : <<l, k>> \notin R
  <2>1. /\ \A a, b, c \in K : <<a, b>> \in R /\ <<b, c>> \in R => <<a, c>> \in R
        /\ \A a \in K : <<a, a>> \notin R
    OBVIOUS
  <2> HIDE DEF R
  <2> QED BY <2>1, First
<1>2. \E k \in K : \A l \in K : k <= l
  <2>1. \A k, l \in K : <<l, k>> \in R <=> l < k
    OBVIOUS
  <2>2. PICK k \in K : \A l \in K : <<l, k>> \notin R
    BY <1>1
  <2>3. \A l \in K : ~ (l < k)
    BY <2>1, <2>2
  <2>4. \A l \in K : l \in Nat /\ k \in Nat
    OBVIOUS
  <2> HIDE DEF R
  <2> QED BY <2>3, <2>4
<1> QED
  BY <1>2 DEF Min

\* It has its maximum.
LEMMA GreatestIsThere ==
  ASSUME NEW K \in SUBSET Nat, IsFiniteSet(K), K # {}
  PROVE  Max(K) \in K /\ \A l \in K : l <= Max(K)
<1> DEFINE R == {e \in K \X K : e[1] > e[2]}
<1>1. \E k \in K : \A l \in K : <<l, k>> \notin R
  <2>1. /\ \A a, b, c \in K : <<a, b>> \in R /\ <<b, c>> \in R => <<a, c>> \in R
        /\ \A a \in K : <<a, a>> \notin R
    OBVIOUS
  <2> HIDE DEF R
  <2> QED BY <2>1, First
<1>2. \E k \in K : \A l \in K : k >= l
  <2>1. \A k, l \in K : <<l, k>> \in R <=> l > k
    OBVIOUS
  <2>2. PICK k \in K : \A l \in K : <<l, k>> \notin R
    BY <1>1
  <2>3. \A l \in K : ~ (l > k)
    BY <2>1, <2>2
  <2>4. \A l \in K : l \in Nat /\ k \in Nat
    OBVIOUS
  <2> HIDE DEF R
  <2> QED BY <2>3, <2>4
<1> QED
  BY <1>2 DEF Max

\* The image of a finite set is finite, and no larger.
LEMMA ImageIsFinite ==
  ASSUME NEW D, IsFiniteSet(D), NEW f
  PROVE  /\ IsFiniteSet({f[x] : x \in D})
         /\ Cardinality({f[x] : x \in D}) \in Nat
         /\ Cardinality({f[x] : x \in D}) <= Cardinality(D)
<1> DEFINE T == {f[x] : x \in D}
           g == [x \in D |-> f[x]]
<1>1. g \in Surjection(D, T)
  BY DEF Surjection
<1> HIDE DEF g
<1> QED
  BY <1>1, FS_Surjection, FS_CardinalityType

\* The foremost of some classes is one of them.
LEMMA ForemostIsThere ==
  ASSUME NEW K \in SUBSET Nat, IsFiniteSet(K), K # {}, NEW S, IsFiniteSet(S)
  PROVE  Foremost(K, S) \in K
<1> DEFINE size(k) == Cardinality({t \in S : t[1] = k})
           R == {e \in K \X K : size(e[1]) > size(e[2]) \/ (size(e[1]) = size(e[2]) /\ e[1] < e[2])}
<1>1. \A k \in K : size(k) \in Nat
  <2>1. \A k \in K : {t \in S : t[1] = k} \in SUBSET S
    OBVIOUS
  <2> QED
    BY <2>1, FS_Subset, FS_CardinalityType
<1> HIDE DEF size
<1>2. \E k \in K : \A l \in K : <<l, k>> \notin R
  <2>1. \A a, b \in K : <<a, b>> \in R <=> (size(a) > size(b) \/ (size(a) = size(b) /\ a < b))
    OBVIOUS
  <2>2. /\ \A a, b, c \in K : <<a, b>> \in R /\ <<b, c>> \in R => <<a, c>> \in R
        /\ \A a \in K : <<a, a>> \notin R
    <3> HIDE DEF R
    <3> QED BY <1>1, <2>1
  <2> HIDE DEF R
  <2> QED BY <2>2, First
<1>3. \E k \in K : \A l \in K : size(l) < size(k) \/ (size(l) = size(k) /\ k <= l)
  <2>1. PICK k \in K : \A l \in K : <<l, k>> \notin R
    BY <1>2
  <2>2. \A l \in K : ~ (size(l) > size(k) \/ (size(l) = size(k) /\ l < k))
    BY <2>1
  <2> QED
    BY <1>1, <2>2
<1> QED
  BY <1>3 DEF Foremost, size

----------------------------------------------------------------------------
(* topoSort.                                                               *)
Item == [m : STRING, out : BOOLEAN]
Work == [visited : SUBSET STRING, out : Seq(STRING), todo : Seq(Item)]

(* What is put out, or is still to be, are the methods visited that the    *)
(* class has, each once.                                                   *)
Sorting(w, depends) ==
  /\ w \in Work
  /\ \A i \in DOMAIN w.out : w.out[i] \in w.visited /\ w.out[i] \in DOMAIN depends
  /\ \A i, j \in DOMAIN w.out : w.out[i] = w.out[j] => i = j
  /\ \A i \in DOMAIN w.todo : w.todo[i].out =>
       /\ w.todo[i].m \in w.visited /\ w.todo[i].m \in DOMAIN depends
       /\ \A j \in DOMAIN w.out : w.out[j] # w.todo[i].m
  /\ \A i, j \in DOMAIN w.todo :
       w.todo[i].out /\ w.todo[j].out /\ w.todo[i].m = w.todo[j].m => i = j
  /\ \A m \in w.visited : m \in DOMAIN depends =>
       \/ \E i \in DOMAIN w.out : w.out[i] = m
       \/ \E i \in DOMAIN w.todo : w.todo[i].out /\ w.todo[i].m = m

Deepest(depends) == Max({Len(depends[m]) : m \in DOMAIN depends} \cup {0})

(* At most so many turns are left.                                         *)
Remaining(w, names, depends) ==
  Len(w.todo) + Cardinality(ToSet(names) \ w.visited) * (2 + Deepest(depends))

Batch(names, depends) ==
  /\ DOMAIN names \in SUBSET Nat /\ IsFiniteSet(DOMAIN names)
  /\ names \in [DOMAIN names -> STRING]
  /\ DOMAIN depends \subseteq ToSet(names)
  /\ \A m \in DOMAIN depends : depends[m] \in Seq(STRING)

\* Popping a method still to be visited keeps the sort in order.
LEMMA PopKeeps ==
  ASSUME NEW w, NEW depends, Sorting(w, depends), w.todo # <<>>, ~ Head(w.todo).out
  PROVE  /\ Sorting([w EXCEPT !.todo = Tail(w.todo)], depends)
         /\ Len(Tail(w.todo)) = Len(w.todo) - 1
<1> DEFINE t == Tail(w.todo)
           v == [w EXCEPT !.todo = t]
<1>1. /\ w \in Work /\ w.todo \in Seq(Item) /\ t \in Seq(Item) /\ Len(t) = Len(w.todo) - 1
      /\ \A i \in DOMAIN t : i + 1 \in DOMAIN w.todo /\ t[i] = w.todo[i + 1]
      /\ \A i \in DOMAIN w.todo : i = 1 \/ (i - 1 \in DOMAIN t /\ t[i - 1] = w.todo[i])
      /\ Head(w.todo) = w.todo[1]
  BY DEF Sorting, Work
<1>2. v \in Work /\ v.visited = w.visited /\ v.out = w.out /\ v.todo = t
  BY <1>1 DEF Work
<1> HIDE DEF t, v
<1>3. \A i \in DOMAIN t : t[i].out =>
        /\ t[i].m \in w.visited /\ t[i].m \in DOMAIN depends
        /\ \A j \in DOMAIN w.out : w.out[j] # t[i].m
  BY <1>1 DEF Sorting
<1>4. \A i, j \in DOMAIN t : t[i].out /\ t[j].out /\ t[i].m = t[j].m => i = j
  <2>1. \A i, j \in DOMAIN t : t[i].out /\ t[j].out /\ t[i].m = t[j].m => i + 1 = j + 1
    <3>1. \A i, j \in DOMAIN w.todo :
            w.todo[i].out /\ w.todo[j].out /\ w.todo[i].m = w.todo[j].m => i = j
      BY DEF Sorting
    <3> SUFFICES ASSUME NEW i \in DOMAIN t, NEW j \in DOMAIN t, t[i].out, t[j].out, t[i].m = t[j].m
                 PROVE  i + 1 = j + 1
      OBVIOUS
    <3> QED
      BY <1>1, <3>1
  <2>2. \A i \in DOMAIN t : i \in Nat
    BY <1>1
  <2> QED
    BY <2>1, <2>2
<1>5. \A m \in w.visited : m \in DOMAIN depends =>
        \/ \E i \in DOMAIN w.out : w.out[i] = m
        \/ \E i \in DOMAIN t : t[i].out /\ t[i].m = m
  <2> SUFFICES ASSUME NEW m \in w.visited, m \in DOMAIN depends,
                      ~ \E i \in DOMAIN w.out : w.out[i] = m
               PROVE  \E i \in DOMAIN t : t[i].out /\ t[i].m = m
    OBVIOUS
  <2>1. PICK i \in DOMAIN w.todo : w.todo[i].out /\ w.todo[i].m = m
    BY DEF Sorting
  <2>2. i # 1
    BY <1>1, <2>1
  <2> QED
    BY <1>1, <2>1, <2>2
<1> QED
  BY <1>1, <1>2, <1>3, <1>4, <1>5 DEF Sorting, t, v

\* Popping a method whose dependencies are out, and putting it out, keeps the sort in order.
LEMMA OutKeeps ==
  ASSUME NEW w, NEW depends, Sorting(w, depends), w.todo # <<>>, Head(w.todo).out
  PROVE  /\ Sorting([w EXCEPT !.todo = Tail(w.todo), !.out = Append(@, Head(w.todo).m)], depends)
         /\ Len(Tail(w.todo)) = Len(w.todo) - 1
<1> DEFINE t == Tail(w.todo)
           n == w.todo[1].m
           o == Append(w.out, n)
           v == [w EXCEPT !.todo = t, !.out = o]
<1>1. /\ w \in Work /\ w.todo \in Seq(Item) /\ t \in Seq(Item) /\ Len(t) = Len(w.todo) - 1
      /\ \A i \in DOMAIN t : i + 1 \in DOMAIN w.todo /\ t[i] = w.todo[i + 1]
      /\ \A i \in DOMAIN w.todo : i = 1 \/ (i - 1 \in DOMAIN t /\ t[i - 1] = w.todo[i])
      /\ Head(w.todo) = w.todo[1] /\ 1 \in DOMAIN w.todo /\ w.todo[1].out /\ n \in STRING
  BY DEF Sorting, Work, Item
<1>2. /\ n \in w.visited /\ n \in DOMAIN depends
      /\ \A j \in DOMAIN w.out : w.out[j] # n
  BY <1>1 DEF Sorting
<1> HIDE DEF n
<1>3. /\ w.out \in Seq(STRING) /\ o \in Seq(STRING) /\ Len(o) = Len(w.out) + 1
      /\ DOMAIN o = 1 .. Len(w.out) + 1 /\ DOMAIN w.out = 1 .. Len(w.out)
      /\ \A i \in DOMAIN w.out : o[i] = w.out[i]
      /\ o[Len(w.out) + 1] = n
  BY <1>1 DEF Work
<1>4. v \in Work /\ v.visited = w.visited /\ v.out = o /\ v.todo = t
  BY <1>1, <1>3 DEF Work
<1>5. [w EXCEPT !.todo = Tail(w.todo), !.out = Append(@, Head(w.todo).m)] = v
  BY <1>1 DEF n
<1> HIDE DEF t, v, o
<1>6. \A i \in DOMAIN t : t[i].out => t[i].m # n
  <2> SUFFICES ASSUME NEW i \in DOMAIN t, t[i].out, t[i].m = n PROVE FALSE
    OBVIOUS
  <2>1. i + 1 \in DOMAIN w.todo /\ w.todo[i + 1].out /\ w.todo[i + 1].m = w.todo[1].m /\ i \in Nat /\ i >= 1
    BY <1>1 DEF n
  <2>2. i + 1 = 1
    BY <1>1, <2>1 DEF Sorting
  <2> QED
    BY <2>1, <2>2
<1>7. \A i \in DOMAIN t : t[i].out =>
        /\ t[i].m \in w.visited /\ t[i].m \in DOMAIN depends
        /\ \A j \in DOMAIN w.out : w.out[j] # t[i].m
  BY <1>1 DEF Sorting
<1>8. \A j \in DOMAIN o : j \in DOMAIN w.out \/ j = Len(w.out) + 1
  BY <1>3
<1>9. \A i, j \in DOMAIN t : t[i].out /\ t[j].out /\ t[i].m = t[j].m => i = j
  <2>1. \A i, j \in DOMAIN t : t[i].out /\ t[j].out /\ t[i].m = t[j].m => i + 1 = j + 1
    BY <1>1 DEF Sorting
  <2>2. \A i \in DOMAIN t : i \in Nat
    BY <1>1
  <2> QED
    BY <2>1, <2>2
<1>10. \A m \in w.visited : m \in DOMAIN depends =>
         \/ \E i \in DOMAIN o : o[i] = m
         \/ \E i \in DOMAIN t : t[i].out /\ t[i].m = m
  <2> SUFFICES ASSUME NEW m \in w.visited, m \in DOMAIN depends,
                      ~ \E i \in DOMAIN o : o[i] = m
               PROVE  \E i \in DOMAIN t : t[i].out /\ t[i].m = m
    OBVIOUS
  <2>1. m # n /\ ~ \E i \in DOMAIN w.out : w.out[i] = m
    BY <1>3
  <2>2. PICK i \in DOMAIN w.todo : w.todo[i].out /\ w.todo[i].m = m
    BY <2>1 DEF Sorting
  <2>3. i # 1
    BY <2>1, <2>2 DEF n
  <2> QED
    BY <1>1, <2>2, <2>3
<1>11. \A i, j \in DOMAIN o : o[i] = o[j] => i = j
  <2>1. \A i, j \in DOMAIN w.out : w.out[i] = w.out[j] => i = j
    BY DEF Sorting
  <2> QED
    BY <1>2, <1>3, <1>8, <2>1
<1>12. \A i \in DOMAIN o : o[i] \in w.visited /\ o[i] \in DOMAIN depends
  <2>1. \A i \in DOMAIN w.out : w.out[i] \in w.visited /\ w.out[i] \in DOMAIN depends
    BY DEF Sorting
  <2> QED
    BY <1>2, <1>3, <1>8, <2>1
<1>13. \A i \in DOMAIN t : t[i].out => \A j \in DOMAIN o : o[j] # t[i].m
  BY <1>3, <1>6, <1>7, <1>8
<1>14. Sorting(v, depends)
  BY <1>4, <1>7, <1>9, <1>10, <1>11, <1>12, <1>13 DEF Sorting
<1> QED
  BY <1>1, <1>5, <1>14 DEF t

\* What stands where when a sequence is pushed in front of a stack.
LEMMA Pushed ==
  ASSUME NEW S, NEW pre \in Seq(S), NEW x \in S, NEW rest \in Seq(S),
         NEW t, t = pre \o <<x>> \o rest
  PROVE  /\ t \in Seq(S) /\ Len(t) = Len(pre) + 1 + Len(rest)
         /\ \A i \in 1 .. Len(pre) : t[i] = pre[i]
         /\ t[Len(pre) + 1] = x
         /\ \A i \in 1 .. Len(rest) : t[Len(pre) + 1 + i] = rest[i]
         /\ DOMAIN t = 1 .. Len(pre) + 1 + Len(rest)
<1> DEFINE u == pre \o <<x>>
<1>1. /\ u \in Seq(S) /\ Len(u) = Len(pre) + 1 /\ u[Len(pre) + 1] = x
      /\ \A i \in 1 .. Len(pre) : u[i] = pre[i]
  OBVIOUS
<1>2. Len(pre) \in Nat /\ Len(rest) \in Nat
  OBVIOUS
<1>3. t = u \o rest
  OBVIOUS
<1> HIDE DEF u
<1>4. /\ t \in Seq(S) /\ Len(t) = Len(u) + Len(rest)
      /\ \A i \in 1 .. Len(u) : t[i] = u[i]
      /\ \A i \in 1 .. Len(rest) : t[Len(u) + i] = rest[i]
  BY <1>1, <1>3
<1> QED
  BY <1>1, <1>2, <1>4

\* The dependencies of a method, as items to visit.
LEMMA ToVisit ==
  ASSUME NEW d \in Seq(STRING),
         NEW pre, pre = [i \in DOMAIN d |-> [m |-> d[i], out |-> FALSE]]
  PROVE  /\ pre \in Seq(Item) /\ Len(pre) = Len(d)
         /\ \A i \in 1 .. Len(d) : ~ pre[i].out
<1>1. DOMAIN d = 1 .. Len(d) /\ Len(d) \in Nat /\ \A i \in DOMAIN d : d[i] \in STRING
  OBVIOUS
<1>2. \A i \in DOMAIN d : pre[i] = [m |-> d[i], out |-> FALSE] /\ pre[i] \in Item
  BY <1>1 DEF Item
<1>3. pre \in [1 .. Len(d) -> Item]
  BY <1>1, <1>2
<1> QED
  BY <1>1, <1>2, <1>3

(* The stack t is the stack r below x and methods to visit.                *)
OnTop(t, x, r) ==
  \E p \in DOMAIN t, pos \in [DOMAIN r -> DOMAIN t] :
    /\ t[p] = x
    /\ \A k \in DOMAIN r : t[pos[k]] = r[k]
    /\ \A i \in DOMAIN t : t[i].out => i = p \/ \E k \in DOMAIN r : i = pos[k]

\* A method pushed under its dependencies keeps the sort in order.
LEMMA Stacked ==
  ASSUME NEW w, NEW depends, NEW v, NEW x, Sorting(w, depends), v \in Work,
         x.out, x.m \notin w.visited, x.m \in DOMAIN depends,
         v.visited = w.visited \cup {x.m}, v.out = w.out, OnTop(v.todo, x, w.todo)
  PROVE  Sorting(v, depends)
<1> DEFINE t == v.todo
           m == x.m
<1>0. PICK p \in DOMAIN t, pos \in [DOMAIN w.todo -> DOMAIN t] :
         /\ t[p] = x
         /\ \A k \in DOMAIN w.todo : t[pos[k]] = w.todo[k]
         /\ \A i \in DOMAIN t : t[i].out => i = p \/ \E k \in DOMAIN w.todo : i = pos[k]
  BY DEF OnTop
<1>a. m \notin w.visited /\ m \in DOMAIN depends /\ t[p].out /\ t[p].m = m
  BY <1>0
<1>b. v.visited = w.visited \cup {m}
  OBVIOUS
<1>c. v.todo = t
  OBVIOUS
<1> HIDE DEF t, m
<1>1. /\ v.visited = w.visited \cup {m} /\ v.out = w.out /\ v.todo = t
  BY <1>b, <1>c
<1>2. \A k \in DOMAIN w.todo : w.todo[k].out =>
        /\ w.todo[k].m \in w.visited /\ w.todo[k].m \in DOMAIN depends
        /\ \A j \in DOMAIN w.out : w.out[j] # w.todo[k].m
  BY DEF Sorting
<1>3. \A k, l \in DOMAIN w.todo :
        w.todo[k].out /\ w.todo[l].out /\ w.todo[k].m = w.todo[l].m => k = l
  BY DEF Sorting
<1>4. \A j \in DOMAIN w.out : w.out[j] # m
  BY <1>a DEF Sorting
<1>5. \A i \in DOMAIN t : t[i].out =>
        \/ i = p /\ t[i].m = m
        \/ /\ t[i].m # m
           /\ \E k \in DOMAIN w.todo : i = pos[k] /\ w.todo[k].out /\ t[i].m = w.todo[k].m
  <2> SUFFICES ASSUME NEW i \in DOMAIN t, t[i].out, i # p
               PROVE  /\ t[i].m # m
                      /\ \E k \in DOMAIN w.todo : i = pos[k] /\ w.todo[k].out /\ t[i].m = w.todo[k].m
    BY <1>a
  <2>1. PICK k \in DOMAIN w.todo : i = pos[k]
    BY <1>0
  <2> QED
    BY <1>0, <1>2, <1>a, <2>1
<1>6. \A i \in DOMAIN t : t[i].out =>
        /\ t[i].m \in v.visited /\ t[i].m \in DOMAIN depends
        /\ \A j \in DOMAIN v.out : v.out[j] # t[i].m
  <2> SUFFICES ASSUME NEW i \in DOMAIN t, t[i].out
               PROVE  /\ t[i].m \in v.visited /\ t[i].m \in DOMAIN depends
                      /\ \A j \in DOMAIN v.out : v.out[j] # t[i].m
    OBVIOUS
  <2>1. CASE t[i].m = m
    BY <1>1, <1>4, <1>a, <2>1
  <2>2. CASE \E k \in DOMAIN w.todo : w.todo[k].out /\ t[i].m = w.todo[k].m
    BY <1>1, <1>2, <2>2
  <2> QED
    BY <1>5, <2>1, <2>2
<1>7. \A i, j \in DOMAIN t : t[i].out /\ t[j].out /\ t[i].m = t[j].m => i = j
  <2> SUFFICES ASSUME NEW i \in DOMAIN t, NEW j \in DOMAIN t, t[i].out, t[j].out, t[i].m = t[j].m
               PROVE  i = j
    OBVIOUS
  <2>1. CASE t[i].m = m
    BY <1>5, <2>1
  <2>2. CASE t[i].m # m
    <3>1. PICK k \in DOMAIN w.todo : i = pos[k] /\ w.todo[k].out /\ t[i].m = w.todo[k].m
      BY <1>5, <2>2
    <3>2. PICK l \in DOMAIN w.todo : j = pos[l] /\ w.todo[l].out /\ t[j].m = w.todo[l].m
      BY <1>5, <2>2
    <3> QED
      BY <1>3, <3>1, <3>2
  <2> QED
    BY <2>1, <2>2
<1>8. \A d \in v.visited : d \in DOMAIN depends =>
        \/ \E i \in DOMAIN v.out : v.out[i] = d
        \/ \E i \in DOMAIN t : t[i].out /\ t[i].m = d
  <2> SUFFICES ASSUME NEW d \in v.visited, d \in DOMAIN depends
               PROVE \/ \E i \in DOMAIN v.out : v.out[i] = d
                     \/ \E i \in DOMAIN t : t[i].out /\ t[i].m = d
    OBVIOUS
  <2>1. CASE d = m
    BY <1>a, <2>1
  <2>2. CASE d \in w.visited
    <3>1. \/ \E i \in DOMAIN w.out : w.out[i] = d
          \/ \E k \in DOMAIN w.todo : w.todo[k].out /\ w.todo[k].m = d
      BY <2>2 DEF Sorting
    <3>2. CASE \E k \in DOMAIN w.todo : w.todo[k].out /\ w.todo[k].m = d
      <4>1. PICK k \in DOMAIN w.todo : w.todo[k].out /\ w.todo[k].m = d
        BY <3>2
      <4>2. pos[k] \in DOMAIN t /\ t[pos[k]] = w.todo[k]
        BY <1>0
      <4> QED
        BY <4>1, <4>2
    <3> QED
      BY <1>1, <3>1, <3>2
  <2> QED
    BY <1>1, <2>1, <2>2
<1>9. /\ \A i \in DOMAIN v.out : v.out[i] \in v.visited /\ v.out[i] \in DOMAIN depends
      /\ \A i, j \in DOMAIN v.out : v.out[i] = v.out[j] => i = j
  BY <1>1, <1>a DEF Sorting
<1> QED
  BY <1>1, <1>6, <1>7, <1>8, <1>9 DEF Sorting

(* Methods to visit, then x, are put on top of the stack r.                *)
LEMMA PutOnTop ==
  ASSUME NEW x \in Item, x.out, NEW r \in Seq(Item), NEW pre \in Seq(Item),
         \A i \in 1 .. Len(pre) : ~ pre[i].out
  PROVE  /\ pre \o <<x>> \o r \in Seq(Item)
         /\ Len(pre \o <<x>> \o r) = Len(pre) + 1 + Len(r)
         /\ OnTop(pre \o <<x>> \o r, x, r)
<1> DEFINE t == pre \o <<x>> \o r
           P == Len(pre)
           pos == [k \in DOMAIN r |-> P + 1 + k]
<1>1. /\ t \in Seq(Item) /\ Len(t) = P + 1 + Len(r)
      /\ \A i \in 1 .. P : t[i] = pre[i]
      /\ t[P + 1] = x
      /\ \A k \in 1 .. Len(r) : t[P + 1 + k] = r[k]
      /\ DOMAIN t = 1 .. P + 1 + Len(r)
  BY Pushed
<1>2. P \in Nat /\ Len(r) \in Nat /\ DOMAIN r = 1 .. Len(r)
  OBVIOUS
<1>3. \A i \in 1 .. P : ~ t[i].out
  BY <1>1
<1> HIDE DEF t, P
<1>4. \A k \in DOMAIN r : P + 1 + k \in DOMAIN t /\ k \in 1 .. Len(r) /\ pos[k] = P + 1 + k
  BY <1>1, <1>2
<1>5. P + 1 \in DOMAIN t /\ pos \in [DOMAIN r -> DOMAIN t]
  BY <1>1, <1>2, <1>4
<1>6. \A k \in DOMAIN r : t[pos[k]] = r[k]
  BY <1>1, <1>4
<1>7. ASSUME NEW i \in DOMAIN t, t[i].out, i # P + 1
      PROVE  \E k \in DOMAIN r : i = pos[k]
  <2>1. i \in Int /\ 1 <= i /\ i <= P + 1 + Len(r) /\ i \notin 1 .. P
    BY <1>1, <1>2, <1>3, <1>7
  <2>2. i - (P + 1) \in DOMAIN r /\ i = P + 1 + (i - (P + 1))
    <3>1. i > P
      BY <1>2, <2>1
    <3>2. i > P + 1
      BY <1>2, <1>7, <2>1, <3>1
    <3> QED
      BY <1>2, <2>1, <3>2
  <2> QED
    BY <1>4, <2>2
<1> HIDE DEF pos
<1>8. t[P + 1] = x /\ t \in Seq(Item) /\ Len(t) = P + 1 + Len(r)
  BY <1>1
<1>9. OnTop(t, x, r)
  BY <1>5, <1>6, <1>7, <1>8 DEF OnTop
<1> QED
  BY <1>8, <1>9 DEF P, t

\* So does a visit of a method for the first time, and it grows the stack by its dependencies and
\* itself.
LEMMA VisitKeeps ==
  ASSUME NEW w, NEW depends, NEW m \in STRING, Sorting(w, depends), m \notin w.visited,
         \A d \in DOMAIN depends : depends[d] \in Seq(STRING)
  PROVE  LET v == Visit(w, m, w.todo, depends)
         IN /\ Sorting(v, depends) /\ v.visited = w.visited \cup {m}
            /\ Len(v.todo) = IF m \in DOMAIN depends THEN Len(depends[m]) + 1 + Len(w.todo)
                             ELSE Len(w.todo)
<1> DEFINE v == Visit(w, m, w.todo, depends)
<1>1. /\ w \in Work /\ w.todo \in Seq(Item)
      /\ v.visited = w.visited \cup {m} /\ v.out = w.out
  BY DEF Sorting, Visit, Work
<1>2. CASE m \notin DOMAIN depends
  <2>1. v.todo = w.todo /\ v.out = w.out /\ v \in Work
    BY <1>1, <1>2 DEF Visit, Work
  <2> HIDE DEF v
  <2>2. Sorting(v, depends)
    BY <1>1, <1>2, <2>1 DEF Sorting
  <2> QED
    BY <1>1, <1>2, <2>1, <2>2 DEF v
<1>3. CASE m \in DOMAIN depends
  <2> DEFINE d == depends[m]
             pre == [i \in DOMAIN d |-> [m |-> d[i], out |-> FALSE]]
             t == pre \o <<[m |-> m, out |-> TRUE]>> \o w.todo
  <2>1. d \in Seq(STRING)
    BY <1>3
  <2>2. v = [visited |-> w.visited \cup {m}, out |-> w.out, todo |-> t]
    BY <1>3 DEF Visit
  <2> HIDE DEF v, d
  <2>3. /\ pre \in Seq(Item) /\ Len(pre) = Len(d)
        /\ \A i \in 1 .. Len(d) : ~ pre[i].out
    BY <2>1, ToVisit
  <2>4. PICK x : x = [m |-> m, out |-> TRUE]
    OBVIOUS
  <2>5. x \in Item /\ x.out /\ x.m = m
    BY <2>4 DEF Item
  <2>6. t = pre \o <<x>> \o w.todo
    BY <2>4
  <2> HIDE DEF pre, t
  <2>7. t \in Seq(Item) /\ Len(t) = Len(pre) + 1 + Len(w.todo) /\ OnTop(t, x, w.todo)
    <3> DEFINE r == w.todo
    <3>1. /\ x \in Item /\ x.out /\ r \in Seq(Item) /\ pre \in Seq(Item)
          /\ \A i \in 1 .. Len(pre) : ~ pre[i].out
      BY <1>1, <2>3, <2>5
    <3>2. t = pre \o <<x>> \o r
      BY <2>6
    <3> HIDE DEF r
    <3>3. /\ pre \o <<x>> \o r \in Seq(Item)
          /\ Len(pre \o <<x>> \o r) = Len(pre) + 1 + Len(r)
          /\ OnTop(pre \o <<x>> \o r, x, r)
      BY ONLY <3>1, PutOnTop
    <3> QED
      BY <3>2, <3>3 DEF r
  <2>8. v \in Work /\ v.todo = t
    <3>1. w.visited \cup {m} \in SUBSET STRING /\ w.out \in Seq(STRING)
      BY <1>1 DEF Work
    <3> QED
      BY <2>2, <2>7, <3>1 DEF Work
  <2>9. Sorting(v, depends)
    BY <1>1, <1>3, <2>5, <2>7, <2>8, Stacked
  <2> QED
    BY <1>1, <1>3, <2>3, <2>7, <2>8, <2>9 DEF v, d
<1> QED
  BY <1>2, <1>3

\* The sizes that bound the sort: the methods of the batch and its longest list of dependencies.
LEMMA BatchBounds ==
  ASSUME NEW names, NEW depends, Batch(names, depends)
  PROVE  /\ IsFiniteSet(ToSet(names)) /\ ToSet(names) \subseteq STRING
         /\ Cardinality(ToSet(names)) \in Nat
         /\ Cardinality(ToSet(names)) <= Cardinality(DOMAIN names)
         /\ Cardinality(DOMAIN names) \in Nat
         /\ Deepest(depends) \in Nat
         /\ \A m \in DOMAIN depends : Len(depends[m]) \in Nat /\ Len(depends[m]) <= Deepest(depends)
<1>1. /\ IsFiniteSet(ToSet(names))
      /\ Cardinality(ToSet(names)) \in Nat
      /\ Cardinality(ToSet(names)) <= Cardinality(DOMAIN names)
      /\ Cardinality(DOMAIN names) \in Nat
  BY ImageIsFinite, FS_CardinalityType DEF Batch, ToSet
<1>2. ToSet(names) \subseteq STRING
  BY DEF Batch, ToSet
<1> DEFINE len == [m \in DOMAIN depends |-> Len(depends[m])]
           K == {Len(depends[m]) : m \in DOMAIN depends} \cup {0}
<1>3. IsFiniteSet(DOMAIN depends)
  BY <1>1, FS_Subset DEF Batch
<1>4. \A m \in DOMAIN depends : len[m] = Len(depends[m]) /\ Len(depends[m]) \in Nat
  BY DEF Batch
<1>5. IsFiniteSet(K) /\ K \in SUBSET Nat /\ K # {}
  <2>1. {Len(depends[m]) : m \in DOMAIN depends} = {len[m] : m \in DOMAIN depends}
    BY <1>4
  <2>2. IsFiniteSet({len[m] : m \in DOMAIN depends})
    <3> HIDE DEF len
    <3> QED BY <1>3, ImageIsFinite
  <2>3. \A I : IsFiniteSet(I) => IsFiniteSet(I \cup {0})
    BY FS_AddElement
  <2>4. IsFiniteSet(K)
    BY <2>1, <2>2, <2>3
  <2>5. K \in SUBSET Nat /\ K # {}
    BY <1>4
  <2> QED
    BY <2>4, <2>5
<1>6. Deepest(depends) \in K /\ \A l \in K : l <= Deepest(depends)
  <2> HIDE DEF K
  <2>1. Max(K) \in K /\ \A l \in K : l <= Max(K)
    BY <1>5, GreatestIsThere
  <2> QED
    BY <2>1 DEF Deepest, K
<1> QED
  BY <1>1, <1>2, <1>4, <1>5, <1>6

\* Arithmetic of the bound on the turns.
LEMMA Products ==
  ASSUME NEW c \in Nat, NEW D \in Nat
  PROVE  c * (2 + D) \in Nat /\ (c + 1) * (2 + D) = c * (2 + D) + (2 + D)
OBVIOUS

\* Arithmetic of the bound on the turns.
LEMMA Sums ==
  ASSUME NEW vt \in Nat, NEW wt \in Nat, NEW cv \in Nat, NEW cw \in Nat
  PROVE  /\ wt + cw \in Nat
         /\ \A d \in Nat, ut \in Nat : d + 1 + ut \in Nat
         /\ \A D \in Nat : vt <= D + 1 + wt /\ cw = cv + (2 + D) => vt + cv < wt + cw
         /\ \A D \in Nat, d \in Nat, ut \in Nat : d <= D /\ ut <= wt /\ vt = d + 1 + ut => vt <= D + 1 + wt
         /\ \A D \in Nat : vt <= wt => vt <= D + 1 + wt
         /\ vt + 1 = wt /\ cv = cw => vt + cv < wt + cw
         /\ vt = wt - 1 /\ cv = cw => vt + cv < wt + cw
OBVIOUS

(* Each turn but the last leaves fewer.                                    *)
LEMMA TurnKeeps ==
  ASSUME NEW names, NEW depends, Batch(names, depends), NEW w, Sorting(w, depends)
  PROVE  LET v == TopoTurn(w, names, depends)
         IN /\ Sorting(v, depends)
            /\ Remaining(w, names, depends) \in Nat /\ Remaining(v, names, depends) \in Nat
            /\ Remaining(v, names, depends) = 0 \/ Remaining(v, names, depends) < Remaining(w, names, depends)
<1> DEFINE v == TopoTurn(w, names, depends)
           D == Deepest(depends)
           L(u) == ToSet(names) \ u.visited
           C(u) == Cardinality(L(u)) * (2 + D)
           left == {i \in DOMAIN names : names[i] \notin w.visited}
<1>1. /\ w \in Work /\ w.todo \in Seq(Item) /\ Len(w.todo) \in Nat
      /\ w.visited \subseteq STRING
      /\ \A d \in DOMAIN depends : depends[d] \in Seq(STRING)
      /\ DOMAIN depends \subseteq ToSet(names)
  BY DEF Sorting, Work, Batch
<1>n. Len(w.todo) \in Nat /\ D \in Nat
  BY <1>1, BatchBounds
<1>2. /\ D \in Nat
      /\ \A m \in DOMAIN depends : Len(depends[m]) \in Nat /\ Len(depends[m]) <= D
  BY BatchBounds
<1>3. \A u : IsFiniteSet(L(u)) /\ Cardinality(L(u)) \in Nat /\ C(u) \in Nat
  <2> TAKE u
  <2>1. L(u) \in SUBSET ToSet(names) /\ IsFiniteSet(ToSet(names))
    BY BatchBounds
  <2>2. IsFiniteSet(L(u)) /\ Cardinality(L(u)) \in Nat
    BY <2>1, FS_Subset, FS_CardinalityType
  <2> HIDE DEF L, D
  <2> QED
    BY <1>2, <2>2, Products
<1>4. \A u : Remaining(u, names, depends) = Len(u.todo) + C(u)
  BY DEF Remaining
<1> HIDE DEF D, L, C
<1>5. SUFFICES /\ Sorting(v, depends)
               /\ \/ v = w /\ Remaining(w, names, depends) = 0
                  \/ Len(v.todo) + C(v) < Len(w.todo) + C(w) /\ Len(v.todo) \in Nat
  <2> HIDE DEF v
  <2>1. Remaining(w, names, depends) = Len(w.todo) + C(w) /\ Remaining(v, names, depends) = Len(v.todo) + C(v)
    BY <1>4
  <2>2. C(w) \in Nat /\ C(v) \in Nat
    BY <1>3
  <2>3. Remaining(w, names, depends) \in Nat
    BY <1>n, <2>1, <2>2, Sums
  <2>4. CASE v = w /\ Remaining(w, names, depends) = 0
    BY <1>5, <2>3, <2>4 DEF v
  <2>5. CASE Len(v.todo) + C(v) < Len(w.todo) + C(w) /\ Len(v.todo) \in Nat
    <3>1. Remaining(v, names, depends) \in Nat
      BY <2>1, <2>2, <2>5, Sums
    <3> QED
      BY <1>5, <2>1, <2>3, <2>5, <3>1 DEF v
  <2> QED
    BY <1>5, <2>4, <2>5
<1>6. ASSUME NEW m \in STRING, NEW u, Sorting(u, depends), u.visited = w.visited, m \notin w.visited,
             Len(u.todo) \in Nat,
             \/ u.todo = w.todo /\ m \in ToSet(names)
             \/ Len(u.todo) + 1 = Len(w.todo),
             v = Visit(u, m, u.todo, depends)
      PROVE  /\ Sorting(v, depends) /\ Len(v.todo) \in Nat
             /\ Len(v.todo) + C(v) < Len(w.todo) + C(w)
  <2> HIDE DEF v
  <2>1. /\ Sorting(v, depends) /\ v.visited = w.visited \cup {m}
        /\ Len(v.todo) = IF m \in DOMAIN depends THEN Len(depends[m]) + 1 + Len(u.todo) ELSE Len(u.todo)
    <3>1. m \notin u.visited
      BY <1>6
    <3>2. LET x == Visit(u, m, u.todo, depends)
          IN /\ Sorting(x, depends) /\ x.visited = u.visited \cup {m}
             /\ Len(x.todo) = IF m \in DOMAIN depends THEN Len(depends[m]) + 1 + Len(u.todo) ELSE Len(u.todo)
      BY <1>1, <1>6, <3>1, VisitKeeps
    <3> QED
      BY <1>6, <3>2
  <2>2. CASE m \in ToSet(names)
    <3>1. L(v) = L(w) \ {m} /\ m \in L(w)
      BY <1>6, <2>1, <2>2 DEF L
    <3>2. Cardinality(L(v)) \in Nat /\ Cardinality(L(w)) = Cardinality(L(v)) + 1
      <4>1. IsFiniteSet(L(w)) /\ Cardinality(L(w)) \in Nat /\ Cardinality(L(v)) \in Nat
        BY <1>3
      <4>2. Cardinality(L(w) \ {m}) = Cardinality(L(w)) - 1
        BY <3>1, <4>1, FS_RemoveElement
      <4> QED
        BY <3>1, <4>1, <4>2
    <3>3. Len(v.todo) \in Nat /\ Len(v.todo) <= D + 1 + Len(w.todo)
      <4>1. CASE m \in DOMAIN depends
        <5>1. Len(depends[m]) \in Nat /\ Len(depends[m]) <= D
          BY <1>2, <4>1
        <5>2. Len(v.todo) = Len(depends[m]) + 1 + Len(u.todo) /\ Len(u.todo) <= Len(w.todo)
          BY <1>1, <1>6, <2>1, <4>1
        <5>3. Len(u.todo) \in Nat
          BY <1>6
        <5>4. Len(v.todo) \in Nat
          <6>1. \A d \in Nat, ut \in Nat : d + 1 + ut \in Nat
            OBVIOUS
          <6>2. Len(depends[m]) \in Nat /\ Len(u.todo) \in Nat /\ Len(v.todo) = Len(depends[m]) + 1 + Len(u.todo)
            BY <5>1, <5>2, <5>3
          <6> QED
            BY <6>1, <6>2
        <5> QED
          BY <1>3, <1>n, <5>1, <5>2, <5>3, <5>4, Sums
      <4>2. CASE m \notin DOMAIN depends
        <5>1. Len(v.todo) = Len(u.todo) /\ Len(u.todo) <= Len(w.todo)
          BY <1>1, <1>6, <2>1, <4>2
        <5>2. Len(u.todo) \in Nat
          BY <1>6
        <5> QED
          BY <1>n, <5>1, <5>2, Sums
      <4> QED
        BY <4>1, <4>2
    <3>4. C(w) = C(v) + (2 + D)
      BY <1>2, <3>2, Products DEF C
    <3>5. C(v) \in Nat
      BY <1>3
    <3> QED
      BY <1>3, <1>n, <2>1, <3>3, <3>4, Sums
  <2>3. CASE m \notin ToSet(names)
    <3>1. L(v) = L(w) /\ m \notin DOMAIN depends
      BY <1>1, <2>1, <2>3 DEF L
    <3>2. Len(v.todo) + 1 = Len(w.todo) /\ Len(v.todo) \in Nat
      BY <1>6, <2>1, <2>3, <3>1
    <3>3. C(w) \in Nat /\ C(v) = C(w)
      BY <1>3, <3>1 DEF C
    <3> QED
      BY <1>3, <1>n, <2>1, <3>2, <3>3, Sums
  <2> QED
    BY <2>2, <2>3
<1>7. ASSUME Sorting(v, depends), v.visited = w.visited, Len(v.todo) = Len(w.todo) - 1, Len(w.todo) # 0
      PROVE  /\ Sorting(v, depends) /\ Len(v.todo) \in Nat
             /\ Len(v.todo) + C(v) < Len(w.todo) + C(w)
  <2> HIDE DEF v
  <2>1. C(v) = C(w) /\ C(w) \in Nat
    BY <1>3, <1>7 DEF L, C
  <2> QED
    BY <1>1, <1>7, <2>1
<1>8. CASE w.todo = <<>>
  <2>1. CASE left = {}
    <3>1. v = w
      BY <1>8, <2>1 DEF TopoTurn
    <3>2. L(w) = {}
      BY <2>1 DEF L, ToSet
    <3>3. Remaining(w, names, depends) = 0
      <4>1. Cardinality(L(w)) = 0
        BY <3>2, FS_EmptySet
      <4>2. C(w) = 0
        BY <1>2, <4>1 DEF C
      <4>3. Len(w.todo) = 0
        BY <1>8
      <4> QED
        BY <1>4, <4>2, <4>3
    <3> QED
      BY <3>1, <3>3
  <2>2. CASE left # {}
    <3> DEFINE m == names[Min(left)]
    <3>1. v = Visit(w, m, w.todo, depends)
      BY <1>8, <2>2 DEF TopoTurn
    <3>2. Min(left) \in left
      <4>1. left \in SUBSET Nat /\ IsFiniteSet(left)
        <5>1. left \in SUBSET DOMAIN names
          OBVIOUS
        <5> QED
          BY <5>1, FS_Subset DEF Batch
      <4> HIDE DEF left
      <4> QED
        BY <2>2, <4>1, LeastIsThere
    <3>3. m \in ToSet(names) /\ m \in STRING /\ m \notin w.visited
      BY <3>2 DEF ToSet, Batch
    <3> HIDE DEF v, m, left
    <3> QED
      BY <1>1, <1>6, <3>1, <3>3
  <2> QED
    BY <2>1, <2>2
<1>9. CASE w.todo # <<>>
  <2> DEFINE top == Head(w.todo)
  <2>1. top.m \in STRING /\ top.out \in BOOLEAN /\ Len(w.todo) # 0
        /\ Tail(w.todo) \in Seq(Item) /\ Len(Tail(w.todo)) = Len(w.todo) - 1
    <3>1. top \in Item /\ Len(w.todo) # 0
      BY <1>1, <1>9
    <3>2. Tail(w.todo) \in Seq(Item) /\ Len(Tail(w.todo)) = Len(w.todo) - 1
      BY <1>1, <1>9
    <3>3. top.m \in STRING /\ top.out \in BOOLEAN
      <4> HIDE DEF top
      <4> QED BY <3>1 DEF Item
    <3> QED
      BY <3>1, <3>2, <3>3
  <2>2. CASE top.out
    <3>1. v = [w EXCEPT !.todo = Tail(w.todo), !.out = Append(@, top.m)]
      BY <1>9, <2>2 DEF TopoTurn
    <3>2. Sorting(v, depends) /\ Len(Tail(w.todo)) = Len(w.todo) - 1
      BY <1>9, <2>2, <3>1, OutKeeps
    <3>3. v.visited = w.visited /\ v.todo = Tail(w.todo)
      BY <1>1, <3>1 DEF Work
    <3> HIDE DEF v
    <3> QED
      BY <1>7, <2>1, <3>2, <3>3
  <2>3. CASE ~ top.out /\ top.m \in w.visited
    <3>1. v = [w EXCEPT !.todo = Tail(w.todo)]
      BY <1>9, <2>3 DEF TopoTurn
    <3>2. Sorting(v, depends)
      BY <1>9, <2>3, <3>1, PopKeeps
    <3>3. v.visited = w.visited /\ v.todo = Tail(w.todo)
      BY <1>1, <3>1 DEF Work
    <3> HIDE DEF v
    <3> QED
      BY <1>7, <2>1, <3>2, <3>3
  <2>4. CASE ~ top.out /\ top.m \notin w.visited
    <3> DEFINE u == [w EXCEPT !.todo = Tail(w.todo)]
    <3>1. Sorting(u, depends)
      BY <1>9, <2>4, PopKeeps
    <3>2. u.visited = w.visited /\ u.todo = Tail(w.todo) /\ u.out = w.out
      BY <1>1 DEF Work
    <3>3. v = Visit(u, top.m, u.todo, depends)
      BY <1>9, <2>4, <3>2 DEF TopoTurn, Visit
    <3>4. Len(u.todo) \in Nat /\ Len(u.todo) + 1 = Len(w.todo)
      BY <1>1, <2>1, <3>2
    <3> HIDE DEF v, u, top
    <3> QED
      BY <1>6, <2>1, <2>4, <3>1, <3>2, <3>3, <3>4
  <2> QED
    BY <2>1, <2>2, <2>3, <2>4
<1> QED
  <2> HIDE DEF v
  <2> QED BY <1>8, <1>9

(* The second method is reached from the first along dependencies.         *)
Closed(S, depends) == \A m \in S \cap DOMAIN depends : ToSet(depends[m]) \subseteq S
Reaches(a, b, depends) == \A S : a \in S /\ Closed(S, depends) => b \in S

(* What is above a method on the stack is reached from it; what it depends *)
(* on has been visited or is above it; and what was put out depends on     *)
(* methods put out before it, or reached it from one still on the stack.   *)
Above(todo, depends) ==
  \A i, j \in DOMAIN todo : i < j /\ todo[j].out => Reaches(todo[j].m, todo[i].m, depends)
Awaited(visited, todo, depends) ==
  \A j \in DOMAIN todo : todo[j].out =>
    \A m \in ToSet(depends[todo[j].m]) :
      m \in visited \/ \E i \in DOMAIN todo : i < j /\ todo[i].m = m
InOrder(out, depends) ==
  \A i \in DOMAIN out : \A m \in ToSet(depends[out[i]]) \cap DOMAIN depends :
    (\E j \in DOMAIN out : j < i /\ out[j] = m) \/ Reaches(m, out[i], depends)

Ordered(w, depends) ==
  Above(w.todo, depends) /\ Awaited(w.visited, w.todo, depends) /\ InOrder(w.out, depends)

\* What a dependency reaches is reached.
LEMMA ReachesTransitively ==
  ASSUME NEW a, NEW b, NEW c, NEW depends, Reaches(a, b, depends), Reaches(b, c, depends)
  PROVE  Reaches(a, c, depends)
BY DEF Reaches

\* A method reaches its dependencies.
LEMMA ReachesDependency ==
  ASSUME NEW depends, NEW a \in DOMAIN depends, NEW b \in ToSet(depends[a])
  PROVE  Reaches(a, b, depends)
BY DEF Reaches, Closed

(* The tail of a stack whose first item is visited.                        *)
LEMMA PopOrders ==
  ASSUME NEW todo \in Seq(Item), todo # <<>>, NEW visited, NEW depends,
         Above(todo, depends), Awaited(visited, todo, depends)
  PROVE  LET t == Tail(todo)
             m == Head(todo).m
         IN /\ Above(t, depends) /\ Awaited(visited \cup {m}, t, depends)
            /\ \A j \in DOMAIN t : t[j].out => Reaches(t[j].m, m, depends)
<1> DEFINE t == Tail(todo)
<1>1. /\ t \in Seq(Item) /\ Len(t) = Len(todo) - 1
      /\ \A i \in DOMAIN t : i + 1 \in DOMAIN todo /\ t[i] = todo[i + 1] /\ i \in Nat /\ 1 < i + 1
      /\ \A i \in DOMAIN todo : i = 1 \/ (i - 1 \in DOMAIN t /\ t[i - 1] = todo[i] /\ i \in Nat)
      /\ Head(todo) = todo[1] /\ 1 \in DOMAIN todo
  OBVIOUS
<1> HIDE DEF t
<1>2. Above(t, depends)
  <2> SUFFICES ASSUME NEW i \in DOMAIN t, NEW j \in DOMAIN t, i < j, t[j].out
               PROVE  Reaches(t[j].m, t[i].m, depends)
    BY DEF Above
  <2>1. i + 1 \in DOMAIN todo /\ j + 1 \in DOMAIN todo /\ i + 1 < j + 1 /\ todo[j + 1].out
    BY <1>1
  <2>2. Reaches(todo[j + 1].m, todo[i + 1].m, depends)
    BY <2>1 DEF Above
  <2> QED
    BY <1>1, <2>2
<1>3. \A j \in DOMAIN t : t[j].out => Reaches(t[j].m, todo[1].m, depends)
  <2> SUFFICES ASSUME NEW j \in DOMAIN t, t[j].out PROVE Reaches(t[j].m, todo[1].m, depends)
    OBVIOUS
  <2>1. j + 1 \in DOMAIN todo /\ 1 < j + 1 /\ todo[j + 1].out /\ 1 \in DOMAIN todo /\ t[j] = todo[j + 1]
    BY <1>1
  <2>2. Reaches(todo[j + 1].m, todo[1].m, depends)
    BY <2>1 DEF Above
  <2> QED
    BY <2>1, <2>2
<1>4. Awaited(visited \cup {todo[1].m}, t, depends)
  <2> SUFFICES ASSUME NEW j \in DOMAIN t, t[j].out, NEW m \in ToSet(depends[t[j].m]),
                      m \notin visited, m # todo[1].m
               PROVE  \E i \in DOMAIN t : i < j /\ t[i].m = m
    BY DEF Awaited
  <2>1. j + 1 \in DOMAIN todo /\ todo[j + 1].out /\ t[j] = todo[j + 1]
    BY <1>1
  <2>2. PICK i \in DOMAIN todo : i < j + 1 /\ todo[i].m = m
    BY <2>1 DEF Awaited
  <2>3. i # 1
    BY <2>2
  <2>4. i - 1 \in DOMAIN t /\ t[i - 1] = todo[i] /\ i \in Nat /\ j \in Nat
    BY <1>1, <2>3
  <2>5. i - 1 < j
    BY <2>2, <2>4
  <2> QED
    BY <2>2, <2>4, <2>5
<1> QED
  BY <1>1, <1>2, <1>3, <1>4 DEF t

(* A method is visited from the top of a stack that reaches it.            *)
LEMMA VisitOrders ==
  ASSUME NEW w, NEW depends, NEW m \in STRING, NEW r \in Seq(Item),
         \A d \in DOMAIN depends : depends[d] \in Seq(STRING),
         Above(r, depends), Awaited(w.visited \cup {m}, r, depends), InOrder(w.out, depends),
         \A j \in DOMAIN r : r[j].out => Reaches(r[j].m, m, depends)
  PROVE  Ordered(Visit(w, m, r, depends), depends)
<1> DEFINE v == Visit(w, m, r, depends)
<1>1. v.visited = w.visited \cup {m} /\ v.out = w.out
  BY DEF Visit
<1>2. CASE m \notin DOMAIN depends
  <2>1. v.todo = r
    BY <1>2 DEF Visit
  <2> HIDE DEF v
  <2> QED
    BY <1>1, <2>1 DEF Ordered, v
<1>3. CASE m \in DOMAIN depends
  <2> DEFINE d == depends[m]
             pre == [i \in DOMAIN d |-> [m |-> d[i], out |-> FALSE]]
             t == pre \o <<[m |-> m, out |-> TRUE]>> \o r
             P == Len(pre)
  <2>1. v.todo = t
    BY <1>3 DEF Visit
  <2>2. d \in Seq(STRING)
    BY <1>3
  <2>3. \A i \in DOMAIN d : pre[i].m = d[i]
    OBVIOUS
  <2> HIDE DEF v, d
  <2>4. /\ pre \in Seq(Item) /\ P = Len(d)
        /\ \A i \in 1 .. Len(d) : ~ pre[i].out
    BY <2>2, ToVisit
  <2>5. PICK x : x = [m |-> m, out |-> TRUE]
    OBVIOUS
  <2>6. x \in Item /\ x.out /\ x.m = m
    BY <2>5 DEF Item
  <2>7. t = pre \o <<x>> \o r
    BY <2>5
  <2> HIDE DEF pre, t
  <2>8. /\ t \in Seq(Item) /\ Len(t) = P + 1 + Len(r)
        /\ \A i \in 1 .. P : t[i] = pre[i]
        /\ t[P + 1] = x
        /\ \A k \in 1 .. Len(r) : t[P + 1 + k] = r[k]
        /\ DOMAIN t = 1 .. P + 1 + Len(r)
    <3> HIDE DEF P
    <3>1. /\ t \in Seq(Item) /\ Len(t) = Len(pre) + 1 + Len(r)
          /\ \A i \in 1 .. Len(pre) : t[i] = pre[i]
          /\ t[Len(pre) + 1] = x
          /\ \A k \in 1 .. Len(r) : t[Len(pre) + 1 + k] = r[k]
          /\ DOMAIN t = 1 .. Len(pre) + 1 + Len(r)
      <4>1. pre \in Seq(Item) /\ x \in Item /\ r \in Seq(Item)
        BY <2>4, <2>6
      <4> QED
        BY <2>7, <4>1, Pushed, SMT
    <3> QED
      BY <3>1 DEF P
  <2>9. P \in Nat /\ Len(r) \in Nat /\ DOMAIN r = 1 .. Len(r) /\ DOMAIN d = 1 .. P
    BY <2>2, <2>4
  <2>10. \A i \in 1 .. P : ~ t[i].out /\ t[i].m = d[i] /\ d[i] \in ToSet(d)
    BY <2>3, <2>4, <2>8, <2>9 DEF ToSet
  <2>11. t[P + 1].out /\ t[P + 1].m = m
    BY <2>6, <2>8
  <2> HIDE DEF P
  <2>12. ASSUME NEW i \in DOMAIN t
         PROVE  i \in 1 .. P \/ i = P + 1 \/ \E k \in DOMAIN r : i = P + 1 + k
    <3>1. i \in Int /\ 1 <= i /\ i <= P + 1 + Len(r)
      BY <2>8, <2>9
    <3>2. CASE i > P + 1
      <4>1. i - (P + 1) \in DOMAIN r /\ i = P + 1 + (i - (P + 1))
        BY <2>9, <3>1, <3>2
      <4> QED
        BY <4>1
    <3> QED
      BY <2>9, <3>1, <3>2
  <2>13. \A k \in DOMAIN r : t[P + 1 + k] = r[k] /\ P + 1 + k \in DOMAIN t /\ k \in Nat
    BY <2>8, <2>9
  <2>14. Above(t, depends)
    <3> SUFFICES ASSUME NEW i \in DOMAIN t, NEW j \in DOMAIN t, i < j, t[j].out
                 PROVE  Reaches(t[j].m, t[i].m, depends)
      BY DEF Above
    <3>1. CASE j = P + 1
      <4>1. i \in 1 .. P
        BY <2>8, <2>9, <3>1
      <4>2. t[i].m \in ToSet(d) /\ t[j].m = m
        BY <2>10, <2>11, <3>1, <4>1
      <4> QED
        BY <1>3, <4>2, ReachesDependency DEF d
    <3>2. CASE \E k \in DOMAIN r : j = P + 1 + k
      <4>1. PICK k \in DOMAIN r : j = P + 1 + k
        BY <3>2
      <4>2. t[j] = r[k] /\ r[k].out
        BY <2>13, <4>1
      <4>3. Reaches(r[k].m, m, depends)
        BY <4>2
      <4>4. CASE i \in 1 .. P
        <5>1. Reaches(m, t[i].m, depends)
          BY <1>3, <2>10, <4>4, ReachesDependency DEF d
        <5> QED
          BY <4>2, <4>3, <5>1, ReachesTransitively
      <4>5. CASE i = P + 1
        BY <2>11, <4>2, <4>3, <4>5
      <4>6. CASE \E l \in DOMAIN r : i = P + 1 + l
        <5>1. PICK l \in DOMAIN r : i = P + 1 + l
          BY <4>6
        <5>2. l < k /\ t[i] = r[l]
          BY <2>9, <2>13, <4>1, <5>1
        <5> QED
          BY <4>2, <5>2 DEF Above
      <4> QED
        BY <2>12, <4>4, <4>5, <4>6
    <3> QED
      BY <2>10, <2>12, <3>1, <3>2
  <2>15. Awaited(v.visited, t, depends)
    <3> SUFFICES ASSUME NEW j \in DOMAIN t, t[j].out, NEW n \in ToSet(depends[t[j].m])
                 PROVE  n \in v.visited \/ \E i \in DOMAIN t : i < j /\ t[i].m = n
      BY DEF Awaited
    <3>1. CASE j = P + 1
      <4>1. n \in ToSet(d)
        BY <2>11, <3>1 DEF d
      <4>2. PICK i \in 1 .. P : d[i] = n
        BY <2>9, <4>1 DEF ToSet
      <4>3. i \in DOMAIN t /\ i < j /\ t[i].m = n
        BY <2>8, <2>9, <2>10, <3>1, <4>2
      <4> QED
        BY <4>3
    <3>2. CASE \E k \in DOMAIN r : j = P + 1 + k
      <4>1. PICK k \in DOMAIN r : j = P + 1 + k
        BY <3>2
      <4>2. t[j] = r[k] /\ r[k].out
        BY <2>13, <4>1
      <4>3. n \in v.visited \/ \E i \in DOMAIN r : i < k /\ r[i].m = n
        BY <1>1, <4>2 DEF Awaited
      <4>4. ASSUME NEW i \in DOMAIN r, i < k, r[i].m = n
            PROVE  P + 1 + i \in DOMAIN t /\ P + 1 + i < j /\ t[P + 1 + i].m = n
        BY <2>9, <2>13, <4>1, <4>4
      <4> QED
        BY <4>3, <4>4
    <3> QED
      BY <2>10, <2>12, <3>1, <3>2
  <2> QED
    BY <1>1, <2>1, <2>14, <2>15 DEF Ordered, v
<1> QED
  BY <1>2, <1>3

(* The item on top is put out.                                             *)
LEMMA OutOrders ==
  ASSUME NEW w, NEW depends, Sorting(w, depends), Ordered(w, depends), w.todo # <<>>, Head(w.todo).out
  PROVE  InOrder(Append(w.out, Head(w.todo).m), depends)
<1> DEFINE n == w.todo[1].m
           o == Append(w.out, n)
<1>1. /\ w.todo \in Seq(Item) /\ Head(w.todo) = w.todo[1] /\ 1 \in DOMAIN w.todo /\ w.todo[1].out
      /\ \A i \in DOMAIN w.todo : i \in Nat /\ (i = 1 \/ 1 < i) /\ ~ (i < 1)
      /\ n \in STRING /\ w.out \in Seq(STRING)
  BY DEF Sorting, Work, Item
<1> HIDE DEF n
<1>2. /\ DOMAIN w.out = 1 .. Len(w.out) /\ DOMAIN o = 1 .. Len(w.out) + 1 /\ Len(w.out) \in Nat
      /\ \A i \in DOMAIN w.out : o[i] = w.out[i]
      /\ o[Len(w.out) + 1] = n
  BY <1>1
<1> HIDE DEF o
<1> SUFFICES ASSUME NEW i \in DOMAIN o, NEW m \in ToSet(depends[o[i]]) \cap DOMAIN depends
             PROVE  (\E j \in DOMAIN o : j < i /\ o[j] = m) \/ Reaches(m, o[i], depends)
  BY <1>1 DEF InOrder, n, o
<1>3. CASE i \in DOMAIN w.out
  <2>1. (\E j \in DOMAIN w.out : j < i /\ w.out[j] = m) \/ Reaches(m, w.out[i], depends)
    BY <1>2, <1>3 DEF Ordered, InOrder
  <2>2. \A j \in DOMAIN w.out : j \in DOMAIN o /\ o[j] = w.out[j]
    BY <1>2
  <2> QED
    BY <1>3, <2>1, <2>2
<1>4. CASE i = Len(w.out) + 1
  <2>1. o[i] = n
    BY <1>2, <1>4
  <2>2. m \in w.visited
    BY <1>1, <2>1 DEF Ordered, Awaited, n
  <2>3. \/ \E j \in DOMAIN w.out : w.out[j] = m
        \/ \E j \in DOMAIN w.todo : w.todo[j].out /\ w.todo[j].m = m
    BY <2>2 DEF Sorting
  <2>4. CASE \E j \in DOMAIN w.out : w.out[j] = m
    <3>1. PICK j \in DOMAIN w.out : w.out[j] = m
      BY <2>4
    <3>2. j \in DOMAIN o /\ j < i /\ o[j] = m
      BY <1>2, <1>4, <3>1
    <3> QED
      BY <3>2
  <2>5. CASE \E j \in DOMAIN w.todo : w.todo[j].out /\ w.todo[j].m = m
    <3>1. PICK j \in DOMAIN w.todo : w.todo[j].out /\ w.todo[j].m = m
      BY <2>5
    <3>2. CASE j = 1
      <4>1. m = n
        BY <3>1, <3>2 DEF n
      <4> QED
        BY <2>1, <4>1 DEF Reaches
    <3>3. CASE 1 < j
      <4>1. Reaches(w.todo[j].m, w.todo[1].m, depends)
        BY <1>1, <3>1, <3>3 DEF Ordered, Above
      <4> QED
        BY <2>1, <3>1, <4>1 DEF n
    <3> QED
      BY <1>1, <3>2, <3>3
  <2> QED
    BY <2>3, <2>4, <2>5
<1> QED
  BY <1>2, <1>3, <1>4

\* A turn of the sort puts out no method before its dependencies.
LEMMA TurnOrders ==
  ASSUME NEW names, NEW depends, Batch(names, depends), NEW w, Sorting(w, depends), Ordered(w, depends)
  PROVE  Ordered(TopoTurn(w, names, depends), depends)
<1> DEFINE v == TopoTurn(w, names, depends)
           left == {i \in DOMAIN names : names[i] \notin w.visited}
<1>1. /\ w \in Work /\ w.todo \in Seq(Item)
      /\ \A d \in DOMAIN depends : depends[d] \in Seq(STRING)
      /\ Above(w.todo, depends) /\ Awaited(w.visited, w.todo, depends) /\ InOrder(w.out, depends)
  BY DEF Sorting, Work, Batch, Ordered
<1>2. CASE w.todo = <<>>
  <2>1. CASE left = {}
    <3>1. v = w
      BY <1>2, <2>1 DEF TopoTurn
    <3> QED
      BY <3>1
  <2>2. CASE left # {}
    <3> DEFINE m == names[Min(left)]
               r == <<>>
    <3>1. v = Visit(w, m, r, depends)
      BY <1>2, <2>2 DEF TopoTurn
    <3>2. Min(left) \in left
      <4>1. left \in SUBSET Nat /\ IsFiniteSet(left)
        <5>1. left \in SUBSET DOMAIN names
          OBVIOUS
        <5> QED
          BY <5>1, FS_Subset DEF Batch
      <4> HIDE DEF left
      <4> QED
        BY <2>2, <4>1, LeastIsThere
    <3>3. m \in STRING
      BY <3>2 DEF Batch
    <3>4. r \in Seq(Item) /\ DOMAIN r = {}
      OBVIOUS
    <3> HIDE DEF v, m, r, left
    <3>5. Above(r, depends) /\ Awaited(w.visited \cup {m}, r, depends)
      BY <3>4 DEF Above, Awaited
    <3>6. Ordered(Visit(w, m, r, depends), depends)
      BY <1>1, <3>3, <3>4, <3>5, VisitOrders
    <3> QED
      BY <3>1, <3>6 DEF v
  <2> QED
    BY <2>1, <2>2
<1>3. CASE w.todo # <<>>
  <2> DEFINE top == Head(w.todo)
             r == Tail(w.todo)
  <2>1. /\ Above(r, depends) /\ Awaited(w.visited \cup {top.m}, r, depends)
        /\ \A j \in DOMAIN r : r[j].out => Reaches(r[j].m, top.m, depends)
    BY <1>1, <1>3, PopOrders
  <2>2. r \in Seq(Item) /\ top = w.todo[1] /\ 1 \in DOMAIN w.todo /\ top.m \in STRING /\ top.out \in BOOLEAN
    <3>1. r \in Seq(Item) /\ top = w.todo[1] /\ 1 \in DOMAIN w.todo /\ top \in Item
      BY <1>1, <1>3
    <3> HIDE DEF top, r
    <3> QED
      BY <3>1 DEF Item
  <2>3. CASE top.out
    <3>1. v = [w EXCEPT !.todo = r, !.out = Append(@, top.m)]
      BY <1>3, <2>3 DEF TopoTurn
    <3>2. v.visited = w.visited /\ v.todo = r /\ v.out = Append(w.out, top.m)
      BY <1>1, <3>1 DEF Work
    <3>3. top.m \in w.visited
      BY <2>2, <2>3 DEF Sorting
    <3>4. InOrder(Append(w.out, top.m), depends)
      BY <1>3, <2>3, OutOrders
    <3>5. w.visited \cup {top.m} = w.visited
      BY <3>3
    <3> HIDE DEF v, top, r
    <3> QED
      BY <2>1, <3>2, <3>4, <3>5 DEF Ordered, v
  <2>4. CASE ~ top.out /\ top.m \in w.visited
    <3>1. v = [w EXCEPT !.todo = r]
      BY <1>3, <2>4 DEF TopoTurn
    <3>2. v.visited = w.visited /\ v.todo = r /\ v.out = w.out
      BY <1>1, <3>1 DEF Work
    <3>3. w.visited \cup {top.m} = w.visited
      BY <2>4
    <3> HIDE DEF v, top, r
    <3> QED
      BY <1>1, <2>1, <3>2, <3>3 DEF Ordered, v
  <2>5. CASE ~ top.out /\ top.m \notin w.visited
    <3>1. v = Visit(w, top.m, r, depends)
      BY <1>3, <2>5 DEF TopoTurn
    <3> HIDE DEF v, top, r
    <3>2. Ordered(Visit(w, top.m, r, depends), depends)
      BY <1>1, <2>1, <2>2, VisitOrders
    <3> QED
      BY <3>1, <3>2 DEF v
  <2> QED
    BY <2>2, <2>3, <2>4, <2>5
<1> QED
  BY <1>2, <1>3

NothingSorted == [visited |-> {}, out |-> <<>>, todo |-> <<>>]

(* f is a sort's state after each of N turns, the last of which leaves     *)
(* nothing to do.                                                          *)
Sorts(f, N, names, depends) ==
  /\ f[0] = NothingSorted /\ \A n \in 1 .. N : f[n] = TopoTurn(f[n - 1], names, depends)
  /\ \A n \in 0 .. N : Sorting(f[n], depends) /\ Ordered(f[n], depends)
  /\ Remaining(f[N], names, depends) = 0

\* A family of states the turns lead through.
LEMMA TurnsRun ==
  ASSUME NEW project, NEW fqcn, NEW names, Batch(names, Runnable(project, fqcn, names))
  PROVE  \E f : \E N \in Nat : /\ TopoSort(project, fqcn, names) = f[N].out
                            /\ Sorts(f, N, names, Runnable(project, fqcn, names))
<1> DEFINE d == Runnable(project, fqcn, names)
           N == Turns(names, d)
           x == [visited |-> {}, out |-> <<>>, todo |-> <<>>]
           Rest(w) == Remaining(w, names, d)
           St == [n \in Nat |-> {w \in Work : Sorting(w, d) /\ Ordered(w, d) /\ Rest(w) <= N - n}]
           G == [w \in Work |-> TopoTurn(w, names, d)]
           after == CHOOSE f : f = [n \in 0 .. N |-> IF n = 0 THEN x ELSE TopoTurn(f[n - 1], names, d)]
<1>1. TopoSort(project, fqcn, names) = after[N].out
  BY DEF TopoSort
<1>2. N \in Nat /\ Rest(x) \in Nat /\ Rest(x) <= N
  <2>1. /\ Cardinality(ToSet(names)) \in Nat /\ Cardinality(DOMAIN names) \in Nat
        /\ Cardinality(ToSet(names)) <= Cardinality(DOMAIN names) /\ Deepest(d) \in Nat
    BY BatchBounds
  <2>2. N = Cardinality(DOMAIN names) * (2 + Deepest(d))
    BY DEF Turns, Deepest
  <2>3. Rest(x) = Cardinality(ToSet(names)) * (2 + Deepest(d))
    <3>1. ToSet(names) \ x.visited = ToSet(names) /\ Len(x.todo) = 0
      OBVIOUS
    <3>2. \A c \in Nat, e \in Nat : 0 + c * (2 + e) = c * (2 + e)
      OBVIOUS
    <3> HIDE DEF x, d
    <3> QED
      BY <2>1, <3>1, <3>2 DEF Remaining
  <2>4. \A c \in Nat, b \in Nat, e \in Nat : c <= b => c * (2 + e) <= b * (2 + e) /\ c * (2 + e) \in Nat /\ b * (2 + e) \in Nat
    OBVIOUS
  <2> HIDE DEF d, x, N, Rest
  <2> QED
    BY <2>1, <2>2, <2>3, <2>4
<1>3. x \in Work /\ Sorting(x, d) /\ Ordered(x, d)
  <2>1. x \in Work
    BY DEF Work
  <2>2. Sorting(x, d)
    BY <2>1 DEF Sorting
  <2>3. Ordered(x, d)
    BY DEF Ordered, Above, Awaited, InOrder
  <2> QED
    BY <2>1, <2>2, <2>3
<1> HIDE DEF d, x, N
<1>4. \A n \in 1 .. N : \A w \in St[n - 1] : TopoTurn(w, names, d) \in St[n] /\ G[w] = TopoTurn(w, names, d)
  <2> SUFFICES ASSUME NEW n \in 1 .. N, NEW w \in St[n - 1]
               PROVE  TopoTurn(w, names, d) \in St[n] /\ G[w] = TopoTurn(w, names, d)
    OBVIOUS
  <2>1. n \in Nat /\ n - 1 \in Nat /\ n <= N
    BY <1>2
  <2>2. w \in Work /\ Sorting(w, d) /\ Ordered(w, d) /\ Rest(w) <= N - (n - 1)
    BY <2>1
  <2> DEFINE v == TopoTurn(w, names, d)
  <2>3. /\ Sorting(v, d) /\ Rest(w) \in Nat /\ Rest(v) \in Nat
        /\ Rest(v) = 0 \/ Rest(v) < Rest(w)
    BY <2>2, TurnKeeps DEF d
  <2>4. v \in Work /\ Ordered(v, d)
    BY <2>2, <2>3, TurnOrders DEF Sorting, d
  <2> HIDE DEF v, Rest
  <2>5. \A a \in Nat, b \in Nat : ((a = 0 \/ a < b) /\ b <= N - (n - 1)) => a <= N - n
    BY <1>2, <2>1
  <2>6. Rest(v) <= N - n
    BY <2>2, <2>3, <2>5
  <2> QED
    BY <2>1, <2>2, <2>3, <2>4, <2>6 DEF v
<1>5. x \in St[0]
  <2>1. 0 \in Nat /\ N - 0 = N
    BY <1>2
  <2> HIDE DEF Rest
  <2> QED
    BY <1>2, <1>3, <2>1
<1> HIDE DEF G, St
<1>6. PICK g : /\ g = [n \in 0 .. N |-> IF n = 0 THEN x ELSE G[g[n - 1]]]
               /\ \A n \in 0 .. N : g[n] \in St[n]
  <2>1. N \in Nat /\ Leads(G, St, N)
    BY <1>2, <1>4 DEF Leads
  <2>2. \E g : Iterates(g, x, G, St, N)
    BY <1>5, <2>1, Iteration
  <2> QED
    BY <2>2 DEF Iterates
<1>7. g = [n \in 0 .. N |-> IF n = 0 THEN x ELSE TopoTurn(g[n - 1], names, d)]
  <2>1. \A n \in 0 .. N : g[n] = IF n = 0 THEN x ELSE TopoTurn(g[n - 1], names, d)
    <3> SUFFICES ASSUME NEW n \in 0 .. N PROVE g[n] = IF n = 0 THEN x ELSE TopoTurn(g[n - 1], names, d)
      OBVIOUS
    <3>1. g[n] = IF n = 0 THEN x ELSE G[g[n - 1]]
      BY <1>6
    <3>2. CASE n # 0
      <4>1. n \in 1 .. N /\ n - 1 \in 0 .. N
        BY <1>2, <3>2
      <4>2. g[n - 1] \in St[n - 1]
        BY <1>6, <4>1
      <4> QED
        BY <1>4, <3>1, <4>1, <4>2
    <3> QED
      BY <3>1, <3>2
  <2> DEFINE h == [n \in 0 .. N |-> IF n = 0 THEN x ELSE TopoTurn(g[n - 1], names, d)]
  <2>2. h = [n \in 0 .. N |-> h[n]] /\ \A n \in 0 .. N : h[n] = IF n = 0 THEN x ELSE TopoTurn(g[n - 1], names, d)
    OBVIOUS
  <2>3. g = [n \in 0 .. N |-> g[n]]
    BY <1>6
  <2>4. \A n \in 0 .. N : g[n] = h[n]
    <3> HIDE DEF h
    <3> QED BY <2>1, <2>2
  <2>5. g = h
    <3> HIDE DEF h
    <3> QED BY <2>2, <2>3, <2>4
  <2> QED
    BY <2>5
<1>8. after = [n \in 0 .. N |-> IF n = 0 THEN x ELSE TopoTurn(after[n - 1], names, d)]
  BY <1>7
<1> HIDE DEF after
<1>9. after[0] = x /\ \A n \in 1 .. N : after[n] = TopoTurn(after[n - 1], names, d)
  <2>1. 0 \in 0 .. N /\ \A n \in 1 .. N : n \in 0 .. N /\ n # 0
    BY <1>2
  <2>2. \A n \in 0 .. N : after[n] = IF n = 0 THEN x ELSE TopoTurn(after[n - 1], names, d)
    BY <1>8
  <2> QED
    BY <2>1, <2>2
<1>10. \A n \in 0 .. N : after[n] \in St[n]
  <2>1. \A n \in 1 .. N : after[n - 1] \in St[n - 1] => after[n] \in St[n]
    BY <1>4, <1>9
  <2> QED
    BY <1>2, <1>5, <1>9, <2>1, Along
<1>11. after[N] \in Work /\ Sorting(after[N], d) /\ Ordered(after[N], d) /\ Rest(after[N]) <= N - N
  <2>1. N \in 0 .. N /\ N \in Nat
    BY <1>2
  <2>2. after[N] \in St[N]
    BY <1>10, <2>1
  <2> HIDE DEF Rest
  <2> QED
    BY <2>1, <2>2 DEF St
<1>12. Rest(after[N]) = 0
  <2>1. Rest(after[N]) \in Nat
    BY <1>11, TurnKeeps DEF d
  <2> HIDE DEF Rest
  <2>2. \A a \in Nat : a <= N - N => a = 0
    BY <1>2
  <2> QED
    BY <1>11, <2>1, <2>2
<1>13. \A n \in 0 .. N : Sorting(after[n], d) /\ Ordered(after[n], d)
  <2>1. \A n \in 0 .. N : n \in Nat /\ after[n] \in St[n]
    BY <1>2, <1>10
  <2> HIDE DEF Rest
  <2> QED
    BY <2>1 DEF St
<1>14. Sorts(after, N, names, d)
  <2>1. after[0] = NothingSorted
    BY <1>9 DEF x, NothingSorted
  <2>2. \A n \in 1 .. N : after[n] = TopoTurn(after[n - 1], names, d)
    BY <1>9
  <2>3. Remaining(after[N], names, d) = 0
    BY <1>12
  <2> QED
    BY <1>13, <2>1, <2>2, <2>3 DEF Sorts
<1> QED
  BY <1>1, <1>2, <1>14 DEF d

\* What the last turn leaves.
LEMMA TurnsEnd ==
  ASSUME NEW project, NEW fqcn, NEW names, Batch(names, Runnable(project, fqcn, names))
  PROVE  \E w : /\ TopoSort(project, fqcn, names) = w.out
               /\ Sorting(w, Runnable(project, fqcn, names))
               /\ Ordered(w, Runnable(project, fqcn, names))
               /\ Remaining(w, names, Runnable(project, fqcn, names)) = 0
<1> DEFINE d == Runnable(project, fqcn, names)
<1>0. PICK f : \E N \in Nat : TopoSort(project, fqcn, names) = f[N].out /\ Sorts(f, N, names, d)
  BY TurnsRun
<1>1. PICK N \in Nat : TopoSort(project, fqcn, names) = f[N].out /\ Sorts(f, N, names, d)
  BY <1>0
<1>2. N \in 0 .. N
  OBVIOUS
<1> HIDE DEF d
<1>3. Sorting(f[N], d) /\ Ordered(f[N], d) /\ Remaining(f[N], names, d) = 0
  BY <1>1, <1>2 DEF Sorts
<1> QED
  BY <1>1, <1>3 DEF d

\* Nothing is left of a sort that no turn is left for.
LEMMA SortIsOver ==
  ASSUME NEW names, NEW d, Batch(names, d), NEW w, Sorting(w, d), Remaining(w, names, d) = 0
  PROVE  ToSet(names) \subseteq w.visited /\ w.todo = <<>>
<1> DEFINE L == ToSet(names) \ w.visited
<1>0. IsFiniteSet(ToSet(names)) /\ Deepest(d) \in Nat
  BY BatchBounds DEF Batch
<1>1. IsFiniteSet(L) /\ Cardinality(L) \in Nat
  <2>1. L \in SUBSET ToSet(names)
    OBVIOUS
  <2> QED
    BY <1>0, <2>1, FS_Subset, FS_CardinalityType
<1>2. Len(w.todo) \in Nat /\ w.todo \in Seq(Item)
  BY DEF Sorting, Work
<1>3. Len(w.todo) + Cardinality(L) * (2 + Deepest(d)) = 0
  BY DEF Remaining
<1>4. \A a \in Nat, c \in Nat, e \in Nat : a + c * (2 + e) = 0 => a = 0 /\ c = 0
  <2> SUFFICES ASSUME NEW a \in Nat, NEW c \in Nat, NEW e \in Nat, a + c * (2 + e) = 0
               PROVE  a = 0 /\ c = 0
    OBVIOUS
  <2>1. c * (2 + e) \in Nat
    BY Products
  <2>2. a = 0 /\ c * (2 + e) = 0
    BY <2>1
  <2>3. c # 0 => c * (2 + e) >= 2
    OBVIOUS
  <2> QED
    BY <2>2, <2>3
<1> HIDE DEF L
<1>5. Len(w.todo) = 0 /\ Cardinality(L) = 0
  BY <1>0, <1>1, <1>2, <1>3, <1>4
<1>6. L = {}
  BY <1>1, <1>5, FS_EmptySet
<1>7. w.todo = <<>>
  BY <1>2, <1>5
<1> QED
  BY <1>6, <1>7 DEF L

(* MethodPlanner::topoSort puts each method of a batch that the class has  *)
(* out, once, whatever depends on what: Turns turns are enough.            *)
THEOREM TopoSortRuns ==
  ASSUME NEW project, NEW fqcn, NEW names, Batch(names, Runnable(project, fqcn, names))
  PROVE  LET out == TopoSort(project, fqcn, names)
             d == Runnable(project, fqcn, names)
         IN /\ out \in Seq(STRING)
            /\ ToSet(out) = DOMAIN d
            /\ \A i, j \in DOMAIN out : out[i] = out[j] => i = j
            /\ Len(out) = Cardinality(DOMAIN d)
<1> DEFINE d == Runnable(project, fqcn, names)
           out == TopoSort(project, fqcn, names)
<1> HIDE DEF d, out
<1>1. PICK w : out = w.out /\ Sorting(w, d) /\ Remaining(w, names, d) = 0
  BY TurnsEnd DEF out, d
<1>2. /\ IsFiniteSet(ToSet(names)) /\ DOMAIN d \subseteq ToSet(names) /\ Deepest(d) \in Nat
  BY BatchBounds DEF Batch, d
<1>3. ToSet(names) \subseteq w.visited /\ w.todo = <<>>
  BY <1>1, SortIsOver DEF d
<1>4. out \in Seq(STRING) /\ \A i, j \in DOMAIN out : out[i] = out[j] => i = j
  BY <1>1 DEF Sorting, Work
<1>5. ToSet(out) = DOMAIN d
  <2>1. \A i \in DOMAIN out : out[i] \in DOMAIN d
    BY <1>1 DEF Sorting
  <2>2. \A m \in DOMAIN d : \E i \in DOMAIN out : out[i] = m
    <3>1. \A m \in w.visited : m \in DOMAIN d =>
            \/ \E i \in DOMAIN w.out : w.out[i] = m
            \/ \E i \in DOMAIN w.todo : w.todo[i].out /\ w.todo[i].m = m
      BY <1>1 DEF Sorting
    <3>2. DOMAIN w.todo = {}
      BY <1>3
    <3> QED
      BY <1>1, <1>2, <1>3, <3>1, <3>2
  <2> QED
    BY <2>1, <2>2 DEF ToSet
<1>6. Len(out) = Cardinality(DOMAIN d)
  <2>1. DOMAIN out = 1 .. Len(out) /\ Len(out) \in Nat
    BY <1>4
  <2>2. out \in [1 .. Len(out) -> DOMAIN d]
    <3>1. out \in [1 .. Len(out) -> STRING]
      BY <1>4
    <3>2. \A i \in 1 .. Len(out) : out[i] \in DOMAIN d
      BY <1>5, <2>1 DEF ToSet
    <3> QED
      BY <3>1, <3>2
  <2>3. out \in Bijection(1 .. Len(out), DOMAIN d)
    BY <1>4, <1>5, <2>1, <2>2 DEF Bijection, Injection, Surjection, IsInjective, ToSet
  <2>4. Cardinality(DOMAIN d) = Cardinality(1 .. Len(out))
    <3>1. IsFiniteSet(1 .. Len(out)) /\ ExistsBijection(1 .. Len(out), DOMAIN d)
      BY <2>1, <2>3, FS_Interval DEF ExistsBijection
    <3> QED
      BY <3>1, FS_Bijection
  <2>5. Cardinality(1 .. Len(out)) = Len(out)
    <3>1. \A n \in Nat : Cardinality(1 .. n) = n
      BY FS_Interval
    <3> QED
      BY <2>1, <3>1
  <2> QED
    BY <2>4, <2>5
<1> QED
  BY <1>4, <1>5, <1>6 DEF d, out

(* MethodPlanner::topoSort puts a method out after those it depends on,    *)
(* unless such a method depends on it in turn, over whatever others.       *)
THEOREM DependenciesRunBefore ==
  ASSUME NEW project, NEW fqcn, NEW names, Batch(names, Runnable(project, fqcn, names))
  PROVE  LET out == TopoSort(project, fqcn, names)
             d == Runnable(project, fqcn, names)
         IN \A i, j \in DOMAIN out :
              out[j] \in ToSet(d[out[i]]) => j < i \/ Reaches(out[j], out[i], d)
<1> DEFINE d == Runnable(project, fqcn, names)
           out == TopoSort(project, fqcn, names)
<1>1. PICK w : out = w.out /\ Sorting(w, d) /\ Ordered(w, d)
  BY TurnsEnd
<1> HIDE DEF d, out
<1> SUFFICES ASSUME NEW i \in DOMAIN out, NEW j \in DOMAIN out, out[j] \in ToSet(d[out[i]]),
                    ~ Reaches(out[j], out[i], d)
             PROVE  j < i
  BY DEF d, out
<1>2. out[j] \in DOMAIN d
  BY <1>1 DEF Sorting
<1>3. PICK l \in DOMAIN out : l < i /\ out[l] = out[j]
  BY <1>1, <1>2 DEF Ordered, InOrder
<1>4. l = j
  BY <1>1, <1>3 DEF Sorting
<1> QED
  BY <1>3, <1>4

(* A set of U's members grown by what those in it lead to: it is closed    *)
(* after as many turns as U has members.                                   *)
Grows(f, x, before, N) ==
  f = [k \in 0 .. N |-> IF k = 0 THEN x ELSE LET T == f[k - 1] IN T \cup UNION {before[m] : m \in T}]

ClosedIn(C, x, before, U) == C \in SUBSET U /\ x \subseteq C /\ \A m \in C : before[m] \subseteq C

\* A set grown along a relation, as often as there are elements, is closed under it.
LEMMA GrowthCloses ==
  ASSUME NEW U, IsFiniteSet(U), NEW before, \A m \in U : before[m] \in SUBSET U,
         NEW x \in SUBSET U, x # {}, NEW N \in Nat, Cardinality(U) <= N
  PROVE  /\ \E f : Grows(f, x, before, N)
         /\ \A f : Grows(f, x, before, N) => ClosedIn(f[N], x, before, U)
<1> DEFINE step(S) == UNION {before[m] : m \in S}
           Done(T) == \A m \in T : before[m] \subseteq T
           St == [n \in Nat |-> {T \in SUBSET U : x \subseteq T /\ (Done(T) \/ Cardinality(T) > n)}]
           G == [T \in SUBSET U |-> T \cup step(T)]
<1>2. ASSUME NEW T \in SUBSET U
      PROVE  T \cup step(T) \in SUBSET U /\ (Done(T) => T \cup step(T) = T) /\ (~ Done(T) => T \cup step(T) # T)
  OBVIOUS
<1>3. ASSUME NEW n \in 1 .. N, NEW T \in St[n - 1]
      PROVE  T \cup step(T) \in St[n] /\ G[T] = T \cup step(T)
  <2> DEFINE V == T \cup step(T)
  <2>1. n \in Nat /\ n - 1 \in Nat
    OBVIOUS
  <2>2. T \in SUBSET U /\ x \subseteq T /\ (Done(T) \/ Cardinality(T) > n - 1)
    <3> HIDE DEF Done
    <3> QED BY <2>1
  <2>3. V \in SUBSET U /\ x \subseteq V /\ (Done(T) => V = T) /\ (~ Done(T) => V # T) /\ T \subseteq V
    BY <1>2, <2>2
  <2> HIDE DEF Done, V
  <2>4. Done(V) \/ Cardinality(V) > n
    <3>1. CASE Done(T)
      BY <2>3, <3>1
    <3>2. CASE ~ Done(T)
      <4>1. IsFiniteSet(V) /\ IsFiniteSet(T)
        BY <2>2, <2>3, FS_Subset
      <4>2. T \in SUBSET V /\ Cardinality(T) <= Cardinality(V) /\ Cardinality(T) # Cardinality(V)
        BY <2>3, <3>2, <4>1, FS_Subset
      <4>3. Cardinality(T) \in Nat /\ Cardinality(V) \in Nat
        BY <4>1, FS_CardinalityType
      <4> QED
        BY <2>1, <2>2, <3>2, <4>2, <4>3
    <3> QED
      BY <3>1, <3>2
  <2> HIDE DEF step
  <2> QED
    BY <2>1, <2>2, <2>3, <2>4 DEF V
<1>4. x \in St[0]
  <2>1. IsFiniteSet(x) /\ Cardinality(x) \in Nat /\ Cardinality(x) # 0
    BY FS_Subset, FS_CardinalityType, FS_EmptySet
  <2>2. 0 \in Nat /\ Cardinality(x) > 0
    BY <2>1
  <2> HIDE DEF Done
  <2> QED
    BY <2>2
<1> HIDE DEF St, G, step
<1>5. PICK g : /\ g = [n \in 0 .. N |-> IF n = 0 THEN x ELSE G[g[n - 1]]]
               /\ \A n \in 0 .. N : g[n] \in St[n]
  <2>1. Leads(G, St, N)
    BY <1>3 DEF Leads
  <2>2. \E g : Iterates(g, x, G, St, N)
    BY <1>4, <2>1, Iteration
  <2> QED
    BY <2>2 DEF Iterates
<1>6. g = [n \in 0 .. N |-> IF n = 0 THEN x ELSE g[n - 1] \cup step(g[n - 1])]
  <2> DEFINE h == [n \in 0 .. N |-> IF n = 0 THEN x ELSE g[n - 1] \cup step(g[n - 1])]
  <2>1. \A n \in 0 .. N : h[n] = IF n = 0 THEN x ELSE g[n - 1] \cup step(g[n - 1])
    OBVIOUS
  <2>2. g = [n \in 0 .. N |-> g[n]] /\ h = [n \in 0 .. N |-> h[n]]
    BY <1>5
  <2>3. ASSUME NEW n \in 0 .. N PROVE g[n] = h[n]
    <3>1. g[n] = IF n = 0 THEN x ELSE G[g[n - 1]]
      BY <1>5
    <3>2. CASE n # 0
      <4>1. n \in 1 .. N /\ n - 1 \in 0 .. N
        BY <3>2
      <4>2. g[n - 1] \in St[n - 1]
        BY <1>5, <4>1
      <4>3. G[g[n - 1]] = g[n - 1] \cup step(g[n - 1])
        BY <1>3, <4>1, <4>2
      <4> QED
        BY <2>1, <3>1, <3>2, <4>3
    <3> QED
      BY <2>1, <3>1, <3>2
  <2> HIDE DEF h
  <2>4. g = h
    BY <2>2, <2>3
  <2> QED
    BY <2>4 DEF h
<1>7. Grows(g, x, before, N)
  BY <1>6 DEF Grows, step
<1> SUFFICES ASSUME NEW grown, Grows(grown, x, before, N) PROVE ClosedIn(grown[N], x, before, U)
  BY <1>7
<1>8. grown[0] = x /\ \A n \in 1 .. N : grown[n] = grown[n - 1] \cup step(grown[n - 1])
  <2>1. 0 \in 0 .. N /\ \A n \in 1 .. N : n \in 0 .. N /\ n # 0
    OBVIOUS
  <2>2. \A n \in 0 .. N : grown[n] = IF n = 0 THEN x ELSE grown[n - 1] \cup step(grown[n - 1])
    BY DEF Grows, step
  <2> QED
    BY <2>1, <2>2
<1>9. \A n \in 0 .. N : grown[n] \in St[n]
  <2>1. ASSUME NEW n \in 1 .. N, grown[n - 1] \in St[n - 1]
        PROVE  grown[n] \in St[n]
    <3>1. grown[n - 1] \cup step(grown[n - 1]) \in St[n]
      BY <1>3, <2>1
    <3>2. grown[n] = grown[n - 1] \cup step(grown[n - 1])
      BY <1>8
    <3> QED
      BY <3>1, <3>2
  <2> QED
    BY <1>4, <1>8, <2>1, Along
<1> DEFINE C == grown[N]
<1>10. C \in SUBSET U /\ x \subseteq C /\ (Done(C) \/ Cardinality(C) > N)
  <2>1. C \in St[N]
    BY <1>9
  <2> HIDE DEF C, Done
  <2> QED
    BY <2>1 DEF St
<1>11. Cardinality(C) <= Cardinality(U) /\ Cardinality(C) \in Nat /\ Cardinality(U) \in Nat
  BY <1>10, FS_Subset, FS_CardinalityType
<1>12. Done(C)
  <2> HIDE DEF C, Done
  <2> QED BY <1>10, <1>11
<1> QED
  BY <1>10, <1>12 DEF ClosedIn

----------------------------------------------------------------------------
(* build_queue.                                                            *)
FoundOk(found) ==
  /\ DOMAIN found \in SUBSET Nat
  /\ \A k \in DOMAIN found : DOMAIN found[k] \in SUBSET Nat /\ IsFiniteSet(DOMAIN found[k])

(* The cases of a class agree in what is said of the class.                *)
Uniform(found) ==
  \A k \in DOMAIN found : \A i, j \in DOMAIN found[k] :
    found[k][i].hooks = found[k][j].hooks /\ found[k][i].isolated = found[k][j].isolated

Plannable(found, S) == FoundOk(found) /\ Uniform(found) /\ S \subseteq TestsOf(found) /\ IsFiniteSet(S)

RealOf(found, S, K) == {t \in S : t[1] \in K /\ ~Case(found, t).tautological}

Marked(found, S, k) ==
  \E t \in S : t[1] = k /\ (Case(found, t).stateful \/ Case(found, t).isolated)
InOnePiece(found, S, k) ==
  \E t \in S : t[1] = k /\ Case(found, t).hooks /\ ~Case(found, t).isolated

Batches == [class : Nat, methods : SUBSET Nat, isolated : BOOLEAN]
Plans == [classes : SUBSET Batches, force : BOOLEAN]

(* A dependency that build_queue does not tear apart: within an isolated   *)
(* class, or between a synthetic pass and a test, it does, and without     *)
(* hooks between the tests with a data provider and those without.         *)
Bound(c, d) ==
  /\ d.method \in ToSet(c.depends)
  /\ ~c.tautological /\ ~d.tautological
  /\ ~c.isolated
  /\ c.hooks \/ c.provider = d.provider

(* Tests of a class that are bound to each other are all in ms, or none.   *)
Kept(ms, found, S, k) ==
  \A i, j \in DOMAIN found[k] :
    <<k, i>> \in S /\ <<k, j>> \in S /\ Bound(found[k][i], found[k][j]) => (i \in ms <=> j \in ms)

(* A batch of tests to run, with all of them if the class has to stay in   *)
(* one piece, and with those that are bound to them.                       *)
WellCut(b, found, S) ==
  /\ b \in Batches /\ b.methods # {} /\ IsFiniteSet(b.methods)
  /\ BatchTests(b) \subseteq RealOf(found, S, {b.class})
  /\ InOnePiece(found, S, b.class) => BatchTests(b) = RealOf(found, S, {b.class})
  /\ Kept(b.methods, found, S, b.class)

WellPlanned(p, found, S) ==
  /\ p \in Plans /\ p.classes # {}
  /\ \A b \in p.classes : WellCut(b, found, S) /\ (Marked(found, S, b.class) => p.force)
  /\ \A b, c \in p.classes : b = c \/ b.class # c.class

(* Plans for the tests T, each of which is in one of them.                 *)
Fair(P, T, found, S) ==
  /\ \A p \in P : WellPlanned(p, found, S)
  /\ UNION {PlanTests(p) : p \in P} = T
  /\ \A p, q \in P : p = q \/ PlanTests(p) \cap PlanTests(q) = {}

Accumulators == [plans : SUBSET Plans, bin : SUBSET Batches, size : Nat, force : BOOLEAN]
Bin(q) == [classes |-> q.bin, force |-> q.force]

(* Plans and a bin for the tests T.                                        *)
Packs(q, T, found, S) ==
  /\ q \in Accumulators
  /\ q.bin # {} => WellPlanned(Bin(q), found, S)
  /\ \E U : /\ Fair(q.plans, U, found, S)
            /\ U \cap PlanTests(Bin(q)) = {}
            /\ T = U \cup PlanTests(Bin(q))

\* Fair plans of disjoint tests are fair together.
LEMMA FairUnion ==
  ASSUME NEW found, NEW S, NEW P, NEW T, NEW Q, NEW U,
         Fair(P, T, found, S), Fair(Q, U, found, S), T \cap U = {}
  PROVE  Fair(P \cup Q, T \cup U, found, S)
<1>1. /\ UNION {PlanTests(p) : p \in P} = T /\ UNION {PlanTests(p) : p \in Q} = U
      /\ \A p, q \in P : p = q \/ PlanTests(p) \cap PlanTests(q) = {}
      /\ \A p, q \in Q : p = q \/ PlanTests(p) \cap PlanTests(q) = {}
      /\ \A p \in P \cup Q : WellPlanned(p, found, S)
  BY DEF Fair
<1>2. \A p \in P : PlanTests(p) \subseteq T
  BY <1>1
<1>3. \A p \in Q : PlanTests(p) \subseteq U
  BY <1>1
<1>4. UNION {PlanTests(p) : p \in P \cup Q} = T \cup U
  BY <1>1
<1>5. \A p, q \in P \cup Q : p = q \/ PlanTests(p) \cap PlanTests(q) = {}
  BY <1>1, <1>2, <1>3
<1> QED
  BY <1>1, <1>4, <1>5 DEF Fair

\* A single sound plan is fair.
LEMMA FairOne ==
  ASSUME NEW found, NEW S, NEW p, WellPlanned(p, found, S)
  PROVE  Fair({p}, PlanTests(p), found, S)
BY DEF Fair

\* So is no plan.
LEMMA FairNone ==
  ASSUME NEW found, NEW S
  PROVE  Fair({}, {}, found, S)
BY DEF Fair

\* Closing the bin loses no test of it.
LEMMA FlushPacks ==
  ASSUME NEW found, NEW S, NEW q, NEW T, Packs(q, T, found, S)
  PROVE  /\ Packs(Flush(q), T, found, S)
         /\ Flush(q).bin = {}
         /\ Fair(Flush(q).plans, T, found, S)
<1>1. q \in Accumulators
  BY DEF Packs
<1>2. PICK U : /\ Fair(q.plans, U, found, S)
               /\ U \cap PlanTests(Bin(q)) = {}
               /\ T = U \cup PlanTests(Bin(q))
  BY DEF Packs
<1>3. CASE q.bin = {}
  <2>1. Flush(q) = q
    BY <1>3 DEF Flush
  <2>2. PlanTests(Bin(q)) = {}
    BY <1>3 DEF PlanTests, Bin
  <2> QED
    BY <1>2, <1>3, <2>1, <2>2
<1>4. CASE q.bin # {}
  <2> DEFINE r == Flush(q)
  <2>1. r = [plans |-> q.plans \cup {Bin(q)}, bin |-> {}, size |-> 0, force |-> FALSE]
    BY <1>4 DEF Flush, EmptyBin, Bin
  <2>2. WellPlanned(Bin(q), found, S) /\ Bin(q) \in Plans
    BY <1>4 DEF Packs, WellPlanned
  <2>3. Fair(q.plans \cup {Bin(q)}, T, found, S)
    BY <1>2, <2>2, FairOne, FairUnion
  <2>4. r.plans = q.plans \cup {Bin(q)} /\ r.bin = {} /\ r \in Accumulators
    BY <1>1, <2>1, <2>2 DEF Accumulators
  <2> HIDE DEF r
  <2>5. PlanTests(Bin(r)) = {}
    BY <2>4 DEF PlanTests, Bin
  <2>6. Packs(r, T, found, S)
    BY <2>3, <2>4, <2>5 DEF Packs
  <2> QED
    BY <2>3, <2>4, <2>6 DEF r
<1> QED
  BY <1>3, <1>4

\* Adding finished plans keeps what is packed, and leaves the bin alone.
LEMMA AddPlansPacks ==
  ASSUME NEW found, NEW S, NEW q, NEW T, Packs(q, T, found, S),
         NEW Q, NEW V, Fair(Q, V, found, S), T \cap V = {}
  PROVE  Packs(AddPlans(q, Q), T \cup V, found, S) /\ AddPlans(q, Q).bin = q.bin
<1> DEFINE r == AddPlans(q, Q)
<1>1. q \in Accumulators
  BY DEF Packs
<1>2. PICK U : /\ Fair(q.plans, U, found, S)
               /\ U \cap PlanTests(Bin(q)) = {}
               /\ T = U \cup PlanTests(Bin(q))
  BY DEF Packs
<1>3. Q \in SUBSET Plans
  BY DEF Fair, WellPlanned
<1>4. r \in Accumulators /\ r.plans = q.plans \cup Q /\ r.bin = q.bin /\ r.force = q.force
  BY <1>1, <1>3 DEF AddPlans, Accumulators
<1> HIDE DEF r
<1>5. Bin(r) = Bin(q)
  BY <1>4 DEF Bin
<1>6. Fair(r.plans, U \cup V, found, S)
  BY <1>2, <1>4, FairUnion
<1>7. /\ (U \cup V) \cap PlanTests(Bin(r)) = {}
      /\ T \cup V = (U \cup V) \cup PlanTests(Bin(r))
  BY <1>2, <1>5
<1>8. r.bin # {} => WellPlanned(Bin(r), found, S)
  BY <1>4, <1>5 DEF Packs
<1>9. Packs(r, T \cup V, found, S)
  BY <1>4, <1>6, <1>7, <1>8 DEF Packs
<1> QED
  BY <1>4, <1>9 DEF r

\* Packing a batch, forced or not, adds its tests once.
LEMMA PackPacks ==
  ASSUME NEW found, NEW S, NEW q, NEW T, Packs(q, T, found, S),
         NEW b, NEW force \in BOOLEAN, NEW target, WellCut(b, found, S), Marked(found, S, b.class) => force,
         T \cap BatchTests(b) = {}, \A c \in q.bin : c.class # b.class
  PROVE  Packs(Pack(q, b, force, target), T \cup BatchTests(b), found, S)
<1> DEFINE p == [classes |-> {b}, force |-> force]
           binned == [q EXCEPT !.bin = @ \cup {b}, !.size = @ + Cardinality(b.methods), !.force = @ \/ force]
<1>1. q \in Accumulators /\ b \in Batches /\ Cardinality(b.methods) \in Nat
  BY FS_CardinalityType DEF Packs, WellCut
<1>2. PICK U : /\ Fair(q.plans, U, found, S)
               /\ U \cap PlanTests(Bin(q)) = {}
               /\ T = U \cup PlanTests(Bin(q))
  BY DEF Packs
<1>3. WellPlanned(p, found, S) /\ PlanTests(p) = BatchTests(b)
  BY <1>1 DEF WellPlanned, Plans, PlanTests
<1>4. Packs(AddPlans(Flush(q), {p}), T \cup BatchTests(b), found, S)
  <2>1. Fair({p}, BatchTests(b), found, S)
    <3> HIDE DEF p
    <3> QED BY <1>3, FairOne
  <2> HIDE DEF p
  <2> QED
    BY <2>1, FlushPacks, AddPlansPacks
<1>5. Packs(binned, T \cup BatchTests(b), found, S)
  <2>1. /\ binned \in Accumulators /\ binned.plans = q.plans /\ binned.bin = q.bin \cup {b}
        /\ binned.force = (q.force \/ force)
    <3>1. q.size + Cardinality(b.methods) \in Nat
      BY <1>1 DEF Accumulators
    <3>2. (q.force \/ force) \in BOOLEAN
      OBVIOUS
    <3> QED
      BY <1>1, <3>1, <3>2 DEF Accumulators
  <2> HIDE DEF binned
  <2>2. PlanTests(Bin(binned)) = PlanTests(Bin(q)) \cup BatchTests(b)
    BY <2>1 DEF PlanTests, Bin
  <2>3. WellPlanned(Bin(binned), found, S)
    <3>1. Bin(binned).classes = q.bin \cup {b} /\ Bin(binned).force = (q.force \/ force) /\ Bin(binned) \in Plans
      BY <2>1 DEF Bin, Accumulators, Plans
    <3>2. q.bin # {} => /\ \A c \in q.bin : WellCut(c, found, S) /\ (Marked(found, S, c.class) => q.force)
                        /\ \A c, d \in q.bin : c = d \/ c.class # d.class
      BY DEF Packs, WellPlanned, Bin
    <3>3. \A c \in q.bin \cup {b} : WellCut(c, found, S) /\ (Marked(found, S, c.class) => (q.force \/ force))
      BY <3>2
    <3>4. \A c, d \in q.bin \cup {b} : c = d \/ c.class # d.class
      BY <3>2
    <3> QED
      BY <3>1, <3>3, <3>4 DEF WellPlanned
  <2>4. /\ U \cap PlanTests(Bin(binned)) = {}
        /\ T \cup BatchTests(b) = U \cup PlanTests(Bin(binned))
    BY <1>2, <2>2
  <2> QED
    BY <1>2, <2>1, <2>3, <2>4 DEF Packs
<1>6. Packs(Flush(binned), T \cup BatchTests(b), found, S)
  <2> HIDE DEF binned
  <2> QED BY <1>5, FlushPacks
<1>7. \/ Pack(q, b, force, target) = AddPlans(Flush(q), {p})
      \/ Pack(q, b, force, target) = binned
      \/ Pack(q, b, force, target) = Flush(binned)
  BY DEF Pack
<1> QED
  <2> HIDE DEF binned, p
  <2> QED BY <1>4, <1>5, <1>6, <1>7

(* The dependency chains are a partition of the methods, whatever the      *)
(* union-find computed.                                                    *)
LEMMA ChainsPartition ==
  ASSUME NEW cases, NEW methods
  PROVE  LET chains == DependencyChains(cases, methods)
         IN /\ UNION chains = methods
            /\ \A c \in chains : c # {}
            /\ \A c, d \in chains : c = d \/ c \cap d = {}
<1>1. PICK parent : parent = FoldSet(LAMBDA e, p : Join(p, e[1], e[2]), [i \in methods |-> i],
                                     Edges(cases, methods))
  OBVIOUS
<1> DEFINE of(r) == {i \in methods : Find(parent, i) = r}
           roots == {Find(parent, i) : i \in methods}
<1>2. DependencyChains(cases, methods) = {of(r) : r \in roots}
  BY <1>1 DEF DependencyChains
<1>3. /\ \A r \in roots : of(r) \subseteq methods /\ of(r) # {}
      /\ \A i \in methods : Find(parent, i) \in roots /\ i \in of(Find(parent, i))
      /\ \A r, s \in roots : r = s \/ of(r) \cap of(s) = {}
  OBVIOUS
<1> DEFINE chains == {of(r) : r \in roots}
<1>4. /\ UNION chains = methods
      /\ \A c \in chains : c # {}
      /\ \A c, d \in chains : c = d \/ c \cap d = {}
  <2> HIDE DEF of, roots
  <2> QED BY <1>3
<1> QED
  <2> HIDE DEF chains
  <2>1. DependencyChains(cases, methods) = chains
    BY <1>2 DEF chains
  <2> QED
    BY <1>4, <2>1

----------------------------------------------------------------------------
(* root is what find computes over parent: the only function its recursion *)
(* has, which leads each method to one that is its own parent.             *)
Roots(parent, root, U) ==
  /\ parent \in [U -> U] /\ root \in [U -> U]
  /\ \A x \in U : /\ root[x] = IF parent[x] = x THEN x ELSE root[parent[x]]
                  /\ parent[root[x]] = root[x]
  /\ \A f : f = [x \in U |-> IF parent[x] = x THEN x ELSE f[parent[x]]] => f = root

\* Find computes that function.
LEMMA FindsRoot ==
  ASSUME NEW U, NEW parent, NEW root, Roots(parent, root, U), NEW x \in U
  PROVE  Find(parent, x) = root[x]
<1> DEFINE Is(f) == f = [i \in DOMAIN parent |-> IF parent[i] = i THEN i ELSE f[parent[i]]]
<1>1. DOMAIN parent = U
  BY DEF Roots
<1>2. Is(root)
  BY <1>1 DEF Roots
<1>3. \A f : Is(f) => f = root
  BY <1>1 DEF Roots
<1>4. Find(parent, x) = (CHOOSE f : Is(f))[x]
  BY DEF Find
<1> HIDE DEF Is
<1> QED
  BY <1>2, <1>3, <1>4

\* A method that is its own parent is its own root.
LEMMA RootOfRoot ==
  ASSUME NEW U, NEW parent, NEW root, Roots(parent, root, U), NEW x \in U
  PROVE  root[x] \in U /\ root[root[x]] = root[x]
BY DEF Roots

(* The root function after the root a was hung below the root b.           *)
Moved(root, a, b, U) == [x \in U |-> IF root[x] = a THEN b ELSE root[x]]

\* Hanging one root below another moves what was below it, and nothing else.
LEMMA MovedRoots ==
  ASSUME NEW U, NEW parent, NEW root, Roots(parent, root, U), NEW a \in U, NEW b \in U,
         parent[a] = a, parent[b] = b, a # b
  PROVE  Roots([parent EXCEPT ![a] = b], Moved(root, a, b, U), U)
<1> DEFINE q == [parent EXCEPT ![a] = b]
           r == Moved(root, a, b, U)
<1>1. /\ parent \in [U -> U] /\ root \in [U -> U]
      /\ \A x \in U : root[x] = IF parent[x] = x THEN x ELSE root[parent[x]]
      /\ \A x \in U : parent[root[x]] = root[x]
  BY DEF Roots
<1>2. q \in [U -> U] /\ q[a] = b /\ q[b] = b /\ \A x \in U : x # a => q[x] = parent[x]
  BY <1>1
<1>3. r \in [U -> U] /\ \A x \in U : r[x] = IF root[x] = a THEN b ELSE root[x]
  BY <1>1 DEF Moved
<1>4. root[a] = a /\ root[b] = b
  BY <1>1
<1> HIDE DEF q, r
<1>5. ASSUME NEW x \in U
      PROVE  r[x] = (IF q[x] = x THEN x ELSE r[q[x]]) /\ q[r[x]] = r[x]
  <2>1. CASE x = a
    BY <1>2, <1>3, <1>4, <2>1
  <2>2. CASE x # a /\ parent[x] = x
    BY <1>1, <1>2, <1>3, <2>2
  <2>3. CASE x # a /\ parent[x] # x
    <3>1. parent[x] \in U /\ root[x] = root[parent[x]] /\ q[x] = parent[x] /\ root[x] \in U
      BY <1>1, <1>2, <2>3
    <3>2. r[parent[x]] = r[x]
      BY <1>3, <3>1
    <3>3. q[r[x]] = r[x]
      BY <1>1, <1>2, <1>3, <3>1
    <3> QED
      BY <2>3, <3>1, <3>2, <3>3
  <2> QED
    BY <2>1, <2>2, <2>3
<1>6. ASSUME NEW f, f = [x \in U |-> IF q[x] = x THEN x ELSE f[q[x]]]
      PROVE  f = r
  <2>1. \A x \in U : f[x] = IF q[x] = x THEN x ELSE f[q[x]]
    BY <1>6
  <2>2. f[b] = b /\ f[a] = b
    BY <1>2, <2>1
  <2> DEFINE g == [x \in U |-> IF root[x] = a THEN IF f[x] = b THEN a ELSE b ELSE f[x]]
  <2>3. \A x \in U : g[x] = IF root[x] = a THEN IF f[x] = b THEN a ELSE b ELSE f[x]
    OBVIOUS
  <2> HIDE DEF g
  <2>4. ASSUME NEW x \in U
        PROVE  g[x] = IF parent[x] = x THEN x ELSE g[parent[x]]
    <3>1. CASE x = a
      BY <1>4, <2>2, <2>3, <3>1
    <3>2. CASE x # a /\ parent[x] = x
      BY <1>1, <1>2, <2>1, <2>3, <3>2
    <3>3. CASE x # a /\ parent[x] # x
      BY <1>1, <1>2, <2>1, <2>3, <3>3
    <3> QED
      BY <3>1, <3>2, <3>3
  <2>5. g = [x \in U |-> IF parent[x] = x THEN x ELSE g[parent[x]]]
    <3>1. g = [x \in U |-> g[x]]
      BY DEF g
    <3> QED
      BY <2>4, <3>1
  <2>6. g = root
    BY <2>5 DEF Roots
  <2>7. \A x \in U : f[x] = r[x]
    BY <1>3, <2>3, <2>6
  <2> QED
    BY <1>3, <1>6, <2>7
<1> QED
  BY <1>2, <1>3, <1>5, <1>6 DEF Roots, q, r
(* U is joined up along s: no root leads out of a set closed under s, and  *)
(* the two ends of an edge have the same root.                             *)
Linked(x, y, s, U) ==
  \A T \in SUBSET U : x \in T /\ (\A e \in s : e[1] \in T <=> e[2] \in T) => y \in T

JoinedUp(root, s, U) ==
  /\ \A e \in s : root[e[1]] = root[e[2]]
  /\ \A x, y \in U : root[x] = root[y] => Linked(x, y, s, U)

JoinedBy(parent, s, U) == \E root : Roots(parent, root, U) /\ JoinedUp(root, s, U)

\* Before any join every method is its own root.
LEMMA NothingJoined ==
  ASSUME NEW U
  PROVE  JoinedBy([i \in U |-> i], {}, U)
<1> DEFINE p == [i \in U |-> i]
<1>1. p \in [U -> U] /\ \A x \in U : p[x] = x
  OBVIOUS
<1>2. ASSUME NEW f, f = [x \in U |-> IF p[x] = x THEN x ELSE f[p[x]]]
      PROVE  f = p
  BY <1>2
<1> HIDE DEF p
<1>3. Roots(p, p, U)
  BY <1>1, <1>2 DEF Roots
<1>4. JoinedUp(p, {}, U)
  BY <1>1 DEF JoinedUp, Linked
<1> QED
  BY <1>3, <1>4 DEF JoinedBy, p

\* A join along an edge joins up what it links.
LEMMA OneJoined ==
  ASSUME NEW U, NEW s, NEW e \in s, s \subseteq U \X U, NEW parent, JoinedBy(parent, s \ {e}, U)
  PROVE  JoinedBy(Join(parent, e[1], e[2]), s, U)
<1>1. PICK root : Roots(parent, root, U) /\ JoinedUp(root, s \ {e}, U)
  BY DEF JoinedBy
<1>2. e[1] \in U /\ e[2] \in U
  OBVIOUS
<1>3. PICK a \in U, b \in U : /\ a = root[e[1]] /\ b = root[e[2]]
                             /\ root[a] = a /\ root[b] = b
                             /\ parent[a] = a /\ parent[b] = b
  BY <1>1, <1>2, RootOfRoot DEF Roots
<1>4. Join(parent, e[1], e[2]) = [parent EXCEPT ![a] = b]
  <2>1. Find(parent, e[1]) = root[e[1]] /\ Find(parent, e[2]) = root[e[2]]
    BY <1>1, <1>2, FindsRoot
  <2> QED
    BY <1>3, <2>1 DEF Join
<1>5. /\ \A d \in s : d = e \/ root[d[1]] = root[d[2]]
      /\ \A x, y \in U : root[x] = root[y] => Linked(x, y, s \ {e}, U)
  BY <1>1 DEF JoinedUp
<1>6. \A x, y \in U : Linked(x, y, s \ {e}, U) => Linked(x, y, s, U)
  BY DEF Linked
<1>7. CASE a = b
  <2>1. Join(parent, e[1], e[2]) = parent
    BY <1>1, <1>3, <1>4, <1>7 DEF Roots
  <2>2. JoinedUp(root, s, U)
    BY <1>3, <1>5, <1>6, <1>7 DEF JoinedUp
  <2> QED
    BY <1>1, <2>1, <2>2 DEF JoinedBy
<1>8. CASE a # b
  <2> DEFINE r == Moved(root, a, b, U)
  <2>1. Roots([parent EXCEPT ![a] = b], r, U)
    BY <1>1, <1>3, <1>8, MovedRoots
  <2>2. \A x \in U : r[x] = IF root[x] = a THEN b ELSE root[x]
    BY DEF Moved
  <2> HIDE DEF r
  <2>3. \A d \in s : r[d[1]] = r[d[2]]
    <3> SUFFICES ASSUME NEW d \in s PROVE r[d[1]] = r[d[2]]
      OBVIOUS
    <3>1. d[1] \in U /\ d[2] \in U
      OBVIOUS
    <3> QED
      BY <1>3, <1>5, <2>2, <3>1
  <2>4. ASSUME NEW x \in U, NEW y \in U, r[x] = r[y]
        PROVE  Linked(x, y, s, U)
    <3> SUFFICES ASSUME NEW T \in SUBSET U, x \in T, \A d \in s : d[1] \in T <=> d[2] \in T
                 PROVE  y \in T
      BY DEF Linked
    <3>1. \A v, w \in U : root[v] = root[w] /\ v \in T => w \in T
      BY <1>5 DEF Linked
    <3>2. e[1] \in T <=> e[2] \in T
      OBVIOUS
    <3>3. CASE root[x] = root[y]
      BY <3>1, <3>3
    <3>4. CASE root[x] = a /\ root[y] = b
      BY <1>2, <1>3, <3>1, <3>2, <3>4
    <3>5. CASE root[x] = b /\ root[y] = a
      BY <1>2, <1>3, <3>1, <3>2, <3>5
    <3> QED
      BY <2>2, <2>4, <3>3, <3>4, <3>5
  <2>5. JoinedUp(r, s, U)
    BY <2>3, <2>4 DEF JoinedUp
  <2> QED
    BY <1>4, <2>1, <2>5 DEF JoinedBy
<1> QED
  BY <1>7, <1>8

(* One value of the fold over the edges, in terms of the others.           *)
Turned(f, s, U) ==
  IF s = {} THEN [i \in U |-> i]
  ELSE LET e == CHOOSE e \in s : TRUE IN Join(f[s \ {e}], e[1], e[2])

IsFold(f, E, U) == f = [s \in SUBSET E |-> Turned(f, s, U)]

\* The sizes of the sets of edges the fold goes through.
LEMMA FewerEdges ==
  ASSUME NEW s, IsFiniteSet(s)
  PROVE  /\ Cardinality(s) \in Nat
         /\ Cardinality(s) = 0 => s = {}
         /\ \A e \in s : /\ IsFiniteSet(s \ {e})
                         /\ Cardinality(s \ {e}) \in Nat
                         /\ Cardinality(s \ {e}) = Cardinality(s) - 1
BY FS_CardinalityType, FS_EmptySet, FS_RemoveElement

\* The next value depends on the value for one edge less alone.
LEMMA TurnedAlike ==
  ASSUME NEW U, NEW s, NEW f, NEW g, s # {} => \A e \in s : f[s \ {e}] = g[s \ {e}]
  PROVE  Turned(f, s, U) = Turned(g, s, U)
<1>1. CASE s = {}
  BY <1>1 DEF Turned
<1>2. CASE s # {}
  <2>1. PICK e \in s : e = CHOOSE d \in s : TRUE
    BY <1>2
  <2>2. f[s \ {e}] = g[s \ {e}]
    BY <1>2
  <2>3. /\ Turned(f, s, U) = Join(f[s \ {e}], e[1], e[2])
        /\ Turned(g, s, U) = Join(g[s \ {e}], e[1], e[2])
    BY <1>2, <2>1 DEF Turned
  <2> QED
    BY <2>2, <2>3
<1> QED
  BY <1>1, <1>2

RightUpTo(n, f, E, U) ==
  /\ DOMAIN f = SUBSET E /\ f = [s \in SUBSET E |-> f[s]]
  /\ \A s \in SUBSET E : Cardinality(s) <= n => f[s] = Turned(f, s, U)

\* The fold exists: n rounds of it are right about the sets of up to n edges.
LEMMA FoldExists ==
  ASSUME NEW U, NEW E, IsFiniteSet(E)
  PROVE  \E f : IsFold(f, E, U)
<1> DEFINE N == {n \in Nat : \E f : RightUpTo(n, f, E, U)}
<1>1. \A s \in SUBSET E : IsFiniteSet(s) /\ Cardinality(s) \in Nat /\ Cardinality(s) <= Cardinality(E)
  BY FS_Subset, FS_CardinalityType
<1>2. 0 \in N
  <2> DEFINE f == [s \in SUBSET E |-> [i \in U |-> i]]
  <2>1. ASSUME NEW s \in SUBSET E, Cardinality(s) <= 0
        PROVE  f[s] = Turned(f, s, U)
    <3>1. s = {}
      BY <1>1, <2>1, FewerEdges
    <3> QED
      BY <3>1 DEF Turned
  <2>2. RightUpTo(0, f, E, U)
    BY <2>1 DEF RightUpTo
  <2> QED
    BY <2>2
<1>3. ASSUME NEW n \in N PROVE n + 1 \in N
  <2>1. n \in Nat /\ n + 1 \in Nat
    OBVIOUS
  <2>2. PICK f : RightUpTo(n, f, E, U)
    BY <1>3
  <2> DEFINE g == [s \in SUBSET E |-> Turned(f, s, U)]
  <2>3. \A s \in SUBSET E : g[s] = Turned(f, s, U)
    OBVIOUS
  <2>4. DOMAIN g = SUBSET E /\ g = [s \in SUBSET E |-> g[s]]
    OBVIOUS
  <2> HIDE DEF g, N
  <2>5. ASSUME NEW s \in SUBSET E, Cardinality(s) <= n + 1
        PROVE  g[s] = Turned(g, s, U)
    <3>1. \A e \in s : f[s \ {e}] = g[s \ {e}]
      <4> SUFFICES ASSUME NEW e \in s PROVE f[s \ {e}] = g[s \ {e}]
        OBVIOUS
      <4>1. /\ Cardinality(s) \in Nat /\ Cardinality(s \ {e}) \in Nat
            /\ Cardinality(s \ {e}) = Cardinality(s) - 1
        BY <1>1, FewerEdges
      <4>2. Cardinality(s \ {e}) <= n /\ s \ {e} \in SUBSET E
        BY <2>1, <2>5, <4>1
      <4> QED
        BY <2>2, <2>3, <4>2 DEF RightUpTo
    <3>2. Turned(f, s, U) = Turned(g, s, U)
      BY <3>1, TurnedAlike
    <3> QED
      BY <2>3, <3>2
  <2>6. RightUpTo(n + 1, g, E, U)
    BY <2>4, <2>5 DEF RightUpTo
  <2> QED
    BY <2>1, <2>6 DEF N
<1>4. N = Nat
  <2>1. N \subseteq Nat
    OBVIOUS
  <2> HIDE DEF N
  <2> QED
    BY <1>2, <1>3, <2>1, NatSetInduction
<1>5. Cardinality(E) \in N
  BY <1>1, <1>4
<1>6. PICK f : RightUpTo(Cardinality(E), f, E, U)
  BY <1>5
<1>7. \A s \in SUBSET E : f[s] = Turned(f, s, U)
  BY <1>1, <1>6 DEF RightUpTo
<1>8. f = [s \in SUBSET E |-> f[s]]
  BY <1>6 DEF RightUpTo
<1>9. f = [s \in SUBSET E |-> Turned(f, s, U)]
  BY <1>7, <1>8
<1> QED
  BY <1>9 DEF IsFold

\* Folding Join over the edges joins up the methods along them.
LEMMA FoldJoins ==
  ASSUME NEW U, NEW E, IsFiniteSet(E), E \subseteq U \X U
  PROVE  JoinedBy(FoldSet(LAMBDA e, p : Join(p, e[1], e[2]), [i \in U |-> i], E), E, U)
<1>1. FoldSet(LAMBDA e, p : Join(p, e[1], e[2]), [i \in U |-> i], E) = (CHOOSE f : IsFold(f, E, U))[E]
  BY DEF FoldSet, MapThenFoldSet, IsFold, Turned
<1>2. PICK f : IsFold(f, E, U) /\ f = CHOOSE g : IsFold(g, E, U)
  BY FoldExists
<1>3. \A s \in SUBSET E : f[s] = Turned(f, s, U)
  BY <1>2 DEF IsFold
<1> DEFINE Right(n) == \A s \in SUBSET E : Cardinality(s) = n => JoinedBy(f[s], s, U)
           N == {n \in Nat : Right(n)}
<1>4. \A s \in SUBSET E : IsFiniteSet(s) /\ Cardinality(s) \in Nat
  BY FS_Subset, FS_CardinalityType
<1>5. 0 \in N
  <2> SUFFICES ASSUME NEW s \in SUBSET E, Cardinality(s) = 0 PROVE JoinedBy(f[s], s, U)
    OBVIOUS
  <2>1. s = {}
    BY <1>4, FewerEdges
  <2>2. f[s] = [i \in U |-> i]
    BY <1>3, <2>1 DEF Turned
  <2> QED
    BY <2>1, <2>2, NothingJoined
<1>6. ASSUME NEW n \in N PROVE n + 1 \in N
  <2>0. n \in Nat /\ n + 1 \in Nat /\ Right(n)
    OBVIOUS
  <2> SUFFICES ASSUME NEW s \in SUBSET E, Cardinality(s) = n + 1
               PROVE  JoinedBy(f[s], s, U)
    BY <2>0
  <2>1. IsFiniteSet(s) /\ Cardinality(s) \in Nat /\ s # {}
    BY <1>4, <2>0, FS_EmptySet
  <2>2. PICK e \in s : e = CHOOSE d \in s : TRUE
    BY <2>1
  <2>3. f[s] = Join(f[s \ {e}], e[1], e[2])
    BY <1>3, <2>1, <2>2 DEF Turned
  <2>4. s \ {e} \in SUBSET E /\ Cardinality(s \ {e}) = n
    BY <2>0, <2>1, FewerEdges
  <2>5. JoinedBy(f[s \ {e}], s \ {e}, U)
    BY <2>0, <2>4
  <2> QED
    BY <2>3, <2>5, OneJoined
<1>7. N = Nat
  <2>1. N \subseteq Nat
    OBVIOUS
  <2> HIDE DEF N
  <2> QED
    BY <1>5, <1>6, <2>1, NatSetInduction
<1>8. JoinedBy(f[E], E, U)
  <2>1. Cardinality(E) \in N
    BY <1>4, <1>7
  <2> QED
    BY <2>1
<1> QED
  BY <1>1, <1>2, <1>8
\* dependency_chains returns the classes of methods with the same root, for a root function that joins
\* up the methods along their dependencies.
LEMMA ChainsHaveRoots ==
  ASSUME NEW cases, NEW methods, IsFiniteSet(methods)
  PROVE  \E root : /\ root \in [methods -> methods]
                   /\ JoinedUp(root, Edges(cases, methods), methods)
                   /\ DependencyChains(cases, methods) =
                        {{j \in methods : root[j] = root[i]} : i \in methods}
<1> DEFINE E == Edges(cases, methods)
<1>1. IsFiniteSet(E) /\ E \subseteq methods \X methods
  BY FS_Product, FS_Subset DEF Edges
<1>2. PICK parent : parent = FoldSet(LAMBDA e, p : Join(p, e[1], e[2]), [i \in methods |-> i], E)
  OBVIOUS
<1>3. DependencyChains(cases, methods) =
        {{i \in methods : Find(parent, i) = r} : r \in {Find(parent, i) : i \in methods}}
  BY <1>2 DEF DependencyChains
<1> HIDE DEF E
<1>4. JoinedBy(parent, E, methods)
  BY <1>1, <1>2, FoldJoins
<1>5. PICK root : Roots(parent, root, methods) /\ JoinedUp(root, E, methods)
  BY <1>4 DEF JoinedBy
<1>6. \A i \in methods : Find(parent, i) = root[i]
  BY <1>5, FindsRoot
<1>7. DependencyChains(cases, methods) = {{j \in methods : root[j] = root[i]} : i \in methods}
  <2> DEFINE found(r) == {i \in methods : Find(parent, i) = r}
             below(r) == {i \in methods : root[i] = r}
             roots == {Find(parent, i) : i \in methods}
  <2>1. DependencyChains(cases, methods) = {found(r) : r \in roots}
    BY <1>3
  <2>2. /\ \A r : found(r) = below(r)
        /\ \A r \in roots : \E i \in methods : r = root[i]
        /\ \A i \in methods : root[i] \in roots
    BY <1>6
  <2>3. {found(r) : r \in roots} = {below(root[i]) : i \in methods}
    <3> HIDE DEF found, below, roots
    <3> QED BY <2>2
  <2> QED
    BY <2>1, <2>3
<1>8. root \in [methods -> methods]
  BY <1>5 DEF Roots
<1> QED
  BY <1>5, <1>7, <1>8 DEF E

\* A dependency never leads out of a chain.
LEMMA ChainsAreClosed ==
  ASSUME NEW cases, NEW methods, IsFiniteSet(methods),
         NEW c \in DependencyChains(cases, methods), NEW i \in methods, NEW j \in methods,
         cases[j].method \in ToSet(cases[i].depends)
  PROVE  i \in c <=> j \in c
<1>1. PICK root : /\ JoinedUp(root, Edges(cases, methods), methods)
                  /\ DependencyChains(cases, methods) =
                       {{k \in methods : root[k] = root[l]} : l \in methods}
  BY ChainsHaveRoots
<1>2. root[i] = root[j]
  <2>1. <<i, j>> \in Edges(cases, methods)
    BY DEF Edges
  <2> QED
    BY <1>1, <2>1 DEF JoinedUp
<1>3. PICK l \in methods : c = {k \in methods : root[k] = root[l]}
  BY <1>1
<1> QED
  BY <1>2, <1>3

(* What the methods of T are linked to, in Component's sense.              *)
LinkedTo(T, cases, methods) ==
  {j \in methods : \E m \in T : \/ cases[m].method \in ToSet(cases[j].depends)
                               \/ cases[j].method \in ToSet(cases[m].depends)}

\* Component is closed under the links, and a part of any set of methods that is.
LEMMA ComponentIsLeast ==
  ASSUME NEW cases, NEW methods, IsFiniteSet(methods), NEW i \in methods
  PROVE  LET C == Component(i, cases, methods)
         IN /\ i \in C /\ C \subseteq methods /\ LinkedTo(C, cases, methods) \subseteq C
            /\ \A T \in SUBSET methods : i \in T /\ LinkedTo(T, cases, methods) \subseteq T => C \subseteq T
<1> DEFINE N == Cardinality(methods)
           Is(g) == g = [k \in 0 .. N |-> IF k = 0 THEN {i} ELSE LET T == g[k - 1] IN T \cup LinkedTo(T, cases, methods)]
           G == [T \in SUBSET methods |-> T \cup LinkedTo(T, cases, methods)]
           St == [k \in 0 .. N |-> SUBSET methods]
           before == [m \in methods |-> LinkedTo({m}, cases, methods)]
<1>1. Component(i, cases, methods) = (CHOOSE g : Is(g))[N]
  BY DEF Component, Closure, LinkedTo
<1>2. N \in Nat
  BY FS_CardinalityType
<1>3. \A T : LinkedTo(T, cases, methods) \subseteq methods
  BY DEF LinkedTo
<1>4. ASSUME NEW T \in SUBSET methods
      PROVE  LinkedTo(T, cases, methods) = UNION {before[m] : m \in T}
  <2>1. \A j : j \in LinkedTo(T, cases, methods) <=> \E m \in T : j \in LinkedTo({m}, cases, methods)
    BY DEF LinkedTo
  <2>2. \A m \in T : before[m] = LinkedTo({m}, cases, methods)
    OBVIOUS
  <2> HIDE DEF before
  <2> QED
    BY <2>1, <2>2
<1>5. \A m \in methods : before[m] \in SUBSET methods
  BY <1>3
<1> HIDE DEF N, before
<1>6. \E g : Is(g)
  <2>1. {i} \in St[0]
    BY <1>2
  <2>2. Leads(G, St, N)
    BY <1>2, <1>3 DEF Leads
  <2>3. PICK g : Iterates(g, {i}, G, St, N)
    <3> HIDE DEF G, St
    <3> QED BY <1>2, <2>1, <2>2, Iteration
  <2>4. \A k \in 0 .. N : g[k] \in SUBSET methods
    BY <2>3 DEF Iterates
  <2>5. g = [k \in 0 .. N |-> IF k = 0 THEN {i} ELSE G[g[k - 1]]]
    BY <2>3 DEF Iterates
  <2>6. \A k \in 0 .. N : k # 0 => G[g[k - 1]] = g[k - 1] \cup LinkedTo(g[k - 1], cases, methods)
    BY <1>2, <2>4
  <2>7. Is(g)
    <3> HIDE DEF G
    <3> QED BY <2>5, <2>6
  <2> QED
    BY <2>7
<1>7. PICK g : Is(g) /\ g = CHOOSE f : Is(f)
  BY <1>6
<1>8. /\ g[0] = {i}
      /\ \A k \in 1 .. N : g[k] = g[k - 1] \cup LinkedTo(g[k - 1], cases, methods)
  <2>1. \A k \in 0 .. N : g[k] = IF k = 0 THEN {i} ELSE g[k - 1] \cup LinkedTo(g[k - 1], cases, methods)
    BY <1>7
  <2>2. 0 \in 0 .. N /\ \A k \in 1 .. N : k \in 0 .. N /\ k # 0
    BY <1>2
  <2> QED
    BY <2>1, <2>2
<1>9. ASSUME NEW T \in SUBSET methods, i \in T, LinkedTo(T, cases, methods) \subseteq T
      PROVE  \A k \in 0 .. N : g[k] \in SUBSET T
  <2> DEFINE D == [k \in 0 .. N |-> SUBSET T]
  <2>1. \A S \in SUBSET T : S \cup LinkedTo(S, cases, methods) \in SUBSET T
    BY <1>9 DEF LinkedTo
  <2>2. \A k \in 0 .. N : D[k] = SUBSET T
    OBVIOUS
  <2> HIDE DEF D
  <2>3. g[0] \in D[0]
    BY <1>2, <1>8, <1>9, <2>2
  <2>4. \A k \in 1 .. N : g[k - 1] \in D[k - 1] => g[k] \in D[k]
    BY <1>2, <1>8, <2>1, <2>2
  <2>5. \A k \in 0 .. N : g[k] \in D[k]
    BY <1>2, <2>3, <2>4, Along
  <2> QED
    BY <2>2, <2>5
<1>10. \A k \in 0 .. N : g[k] \in SUBSET methods
  BY <1>3, <1>9
<1>11. Grows(g, {i}, before, N)
  <2>1. \A k \in 0 .. N : k # 0 => LinkedTo(g[k - 1], cases, methods) = UNION {before[m] : m \in g[k - 1]}
    BY <1>2, <1>4, <1>10
  <2>2. g = [k \in 0 .. N |-> IF k = 0 THEN {i} ELSE LET T == g[k - 1] IN T \cup UNION {before[m] : m \in T}]
    BY <1>7, <2>1
  <2> QED
    BY <2>2 DEF Grows
<1>12. ClosedIn(g[N], {i}, before, methods)
  <2>1. {i} \in SUBSET methods /\ {i} # {} /\ Cardinality(methods) <= N
    BY <1>2 DEF N
  <2> QED
    BY <1>2, <1>5, <1>11, <2>1, GrowthCloses
<1>13. LinkedTo(g[N], cases, methods) \subseteq g[N] /\ i \in g[N] /\ g[N] \subseteq methods
  BY <1>4, <1>12 DEF ClosedIn
<1>14. \A T \in SUBSET methods : i \in T /\ LinkedTo(T, cases, methods) \subseteq T => g[N] \subseteq T
  <2>1. N \in 0 .. N
    BY <1>2
  <2> QED
    BY <1>9, <2>1
<1>15. Component(i, cases, methods) = g[N]
  BY <1>1, <1>7
<1> QED
  BY <1>13, <1>14, <1>15

(* dependency_chains, whatever the class: the union-find computes the      *)
(* connected components of the dependencies between the methods.           *)
THEOREM ChainsAreTheComponents ==
  ASSUME NEW cases, NEW methods, IsFiniteSet(methods)
  PROVE  DependencyChains(cases, methods) = {Component(i, cases, methods) : i \in methods}
<1>1. PICK root : /\ root \in [methods -> methods]
                  /\ JoinedUp(root, Edges(cases, methods), methods)
                  /\ DependencyChains(cases, methods) =
                       {{j \in methods : root[j] = root[i]} : i \in methods}
  BY ChainsHaveRoots
<1>2. ASSUME NEW i \in methods
      PROVE  Component(i, cases, methods) = {j \in methods : root[j] = root[i]}
  <2> DEFINE C == Component(i, cases, methods)
             R == {j \in methods : root[j] = root[i]}
  <2>1. /\ i \in C /\ C \subseteq methods /\ LinkedTo(C, cases, methods) \subseteq C
        /\ \A T \in SUBSET methods : i \in T /\ LinkedTo(T, cases, methods) \subseteq T => C \subseteq T
    BY ComponentIsLeast
  <2>2. i \in R /\ R \subseteq methods
    OBVIOUS
  <2>3. LinkedTo(R, cases, methods) \subseteq R
    <3> SUFFICES ASSUME NEW j \in methods, NEW m \in R,
                        \/ cases[m].method \in ToSet(cases[j].depends)
                        \/ cases[j].method \in ToSet(cases[m].depends)
                 PROVE  root[j] = root[i]
      BY DEF LinkedTo
    <3>1. <<j, m>> \in Edges(cases, methods) \/ <<m, j>> \in Edges(cases, methods)
      BY DEF Edges
    <3>2. root[j] = root[m]
      BY <1>1, <3>1 DEF JoinedUp
    <3> QED
      BY <3>2
  <2>4. C \subseteq R
    <3> HIDE DEF C, R
    <3> QED BY <2>1, <2>2, <2>3
  <2>5. ASSUME NEW j \in R PROVE j \in C
    <3>1. Linked(i, j, Edges(cases, methods), methods)
      BY <1>1 DEF JoinedUp
    <3>2. \A e \in Edges(cases, methods) : e[1] \in C <=> e[2] \in C
      BY <2>1 DEF LinkedTo, Edges
    <3> HIDE DEF C
    <3> QED
      BY <2>1, <3>1, <3>2 DEF Linked
  <2> QED
    BY <2>4, <2>5
<1> DEFINE C(i) == Component(i, cases, methods)
           R(i) == {j \in methods : root[j] = root[i]}
<1>3. \A i \in methods : C(i) = R(i)
  BY <1>2
<1>4. {C(i) : i \in methods} = {R(i) : i \in methods}
  <2> HIDE DEF C, R
  <2> QED BY <1>3
<1> QED
  BY <1>1, <1>4

----------------------------------------------------------------------------
(* The loop over the classes.                                              *)
RealMethods(g) == {j \in g.methods : ~g.cases[j].tautological}

\* g is the group of class k: its pending methods, and the marks that decide how they are packed.
GroupOk(g, found, S, k) ==
  /\ k \in DOMAIN found /\ k \in Nat /\ g.class = k /\ g.cases = found[k]
  /\ g.methods \subseteq DOMAIN found[k]
  /\ g.isolated \in BOOLEAN /\ g.stateful \in BOOLEAN
  /\ Marked(found, S, k) => g.isolated \/ g.stateful
  /\ InOnePiece(found, S, k) => ~g.isolated /\ g.hooks
  /\ RealOf(found, S, {k}) = {k} \X RealMethods(g)
  /\ RealMethods(g) \in SUBSET Nat /\ \A ms \in SUBSET RealMethods(g) : IsFiniteSet(ms)

(* What GroupByClass says of a class with pending tests.                   *)
LEMMA GroupOf ==
  ASSUME NEW found, NEW S, Plannable(found, S), NEW k \in {t[1] : t \in S}
  PROVE  GroupOk(GroupByClass(found, S)[k], found, S, k)
<1> DEFINE g == GroupByClass(found, S)[k]
           methods == {j \in DOMAIN found[k] : <<k, j>> \in S}
           real == {j \in methods : ~found[k][j].tautological}
<1>1. /\ g.class = k /\ g.cases = found[k] /\ g.methods = methods
      /\ g.hooks = found[k][Min(methods)].hooks
      /\ g.stateful = (\E j \in methods : found[k][j].stateful)
      /\ g.isolated = (\E j \in methods : found[k][j].isolated)
  BY DEF GroupByClass
<1> HIDE DEF g
<1>2. \A t \in S : /\ t[1] \in DOMAIN found /\ t[2] \in DOMAIN found[t[1]] /\ t = <<t[1], t[2]>>
                   /\ Case(found, t) = found[t[1]][t[2]]
  BY DEF Plannable, TestsOf, Case
<1>3. /\ k \in DOMAIN found /\ k \in Nat
      /\ DOMAIN found[k] \in SUBSET Nat /\ IsFiniteSet(DOMAIN found[k])
  BY <1>2 DEF Plannable, FoundOk
<1>4. \A t \in S : t[1] = k => t[2] \in methods /\ t = <<k, t[2]>> /\ Case(found, t) = found[k][t[2]]
  BY <1>2
<1>5. \A j \in methods : <<k, j>> \in S /\ <<k, j>>[1] = k /\ Case(found, <<k, j>>) = found[k][j]
  BY DEF Case
<1>6. methods \subseteq DOMAIN found[k] /\ \A ms \in SUBSET methods : IsFiniteSet(ms)
  <2>1. methods \subseteq DOMAIN found[k]
    OBVIOUS
  <2> HIDE DEF methods
  <2> QED
    BY <1>3, <2>1, FS_Subset
<1>7. Min(methods) \in methods \/ methods = {}
  <2>1. methods \in SUBSET Nat /\ IsFiniteSet(methods)
    BY <1>3, <1>6
  <2> HIDE DEF methods
  <2> QED
    BY <2>1, LeastIsThere
<1>8. \A i, j \in methods : /\ found[k][i].hooks = found[k][j].hooks
                            /\ found[k][i].isolated = found[k][j].isolated
  BY <1>3 DEF Plannable, Uniform
<1>9. RealOf(found, S, {k}) = {k} \X real
  <2>1. ASSUME NEW t \in RealOf(found, S, {k}) PROVE t \in {k} \X real
    <3>1. t \in S /\ t[1] = k /\ ~Case(found, t).tautological
      BY DEF RealOf
    <3>2. t[2] \in methods /\ t = <<k, t[2]>> /\ ~found[k][t[2]].tautological
      BY <1>4, <3>1
    <3> QED
      BY <3>2
  <2>2. \A j \in real : <<k, j>> \in RealOf(found, S, {k})
    BY <1>5 DEF RealOf
  <2>3. \A t \in {k} \X real : t \in RealOf(found, S, {k})
    BY <2>2
  <2> QED
    BY <2>1, <2>3
<1> HIDE DEF methods
<1>10. Marked(found, S, k) => g.isolated \/ g.stateful
  BY <1>1, <1>4 DEF Marked
<1>11. InOnePiece(found, S, k) => ~g.isolated /\ g.hooks
  <2> SUFFICES ASSUME NEW t \in S, t[1] = k, Case(found, t).hooks, ~Case(found, t).isolated
               PROVE  ~g.isolated /\ g.hooks
    BY DEF InOnePiece
  <2>1. t[2] \in methods /\ found[k][t[2]].hooks /\ ~found[k][t[2]].isolated
    BY <1>4
  <2>2. Min(methods) \in methods
    BY <1>7, <2>1
  <2>3. found[k][Min(methods)].hooks = found[k][t[2]].hooks
    BY <1>8, <2>1, <2>2
  <2>4. \A j \in methods : ~found[k][j].isolated
    BY <1>8, <2>1
  <2> QED
    BY <1>1, <2>1, <2>3, <2>4
<1>12. g.isolated \in BOOLEAN /\ g.stateful \in BOOLEAN
  BY <1>1
<1>13. real \in SUBSET Nat /\ \A ms \in SUBSET real : IsFiniteSet(ms)
  BY <1>3, <1>6
<1>14. RealMethods(g) = real
  BY <1>1 DEF RealMethods
<1> HIDE DEF real
<1> QED
  BY <1>1, <1>3, <1>6, <1>9, <1>10, <1>11, <1>12, <1>13, <1>14 DEF g, GroupOk

\* The methods a class is cut into: an isolated one has no bound tests, a class with hooks is not cut,
\* and in any other the chains, and the tests with a data provider, are closed.
LEMMA GroupKeeps ==
  ASSUME NEW found, NEW S, Plannable(found, S), NEW k \in {t[1] : t \in S},
         NEW g, g = GroupByClass(found, S)[k],
         NEW real, real = RealMethods(g),
         NEW provided, provided = {j \in real : g.cases[j].provider}
  PROVE  /\ g.isolated => \A ms : Kept(ms, found, S, k)
         /\ Kept(real, found, S, k)
         /\ ~g.hooks => /\ Kept(provided, found, S, k)
                        /\ \A ms \in DependencyChains(g.cases, real \ provided) : Kept(ms, found, S, k)
<1> DEFINE methods == {j \in DOMAIN found[k] : <<k, j>> \in S}
<1>1. /\ g.cases = found[k] /\ g.methods = methods
      /\ g.hooks = found[k][Min(methods)].hooks
      /\ g.isolated = (\E j \in methods : found[k][j].isolated)
  BY DEF GroupByClass
<1>2. real = {j \in methods : ~found[k][j].tautological}
  BY <1>1 DEF RealMethods
<1>3. k \in DOMAIN found /\ methods \in SUBSET Nat /\ IsFiniteSet(methods)
  <2>1. \A t \in S : t[1] \in DOMAIN found
    BY DEF Plannable, TestsOf
  <2>2. k \in DOMAIN found
    BY <2>1
  <2>3. DOMAIN found[k] \in SUBSET Nat /\ IsFiniteSet(DOMAIN found[k])
    BY <2>2 DEF Plannable, FoundOk
  <2>4. methods \subseteq DOMAIN found[k]
    OBVIOUS
  <2> HIDE DEF methods
  <2> QED
    BY <2>2, <2>3, <2>4, FS_Subset
<1>4. \A i, j \in methods : /\ found[k][i].hooks = found[k][j].hooks
                            /\ found[k][i].isolated = found[k][j].isolated
  BY <1>3 DEF Plannable, Uniform
<1>5. \A i \in methods : found[k][i].hooks = g.hooks /\ (g.isolated => found[k][i].isolated)
  <2> SUFFICES ASSUME NEW i \in methods
               PROVE  found[k][i].hooks = g.hooks /\ (g.isolated => found[k][i].isolated)
    OBVIOUS
  <2>1. Min(methods) \in methods
    <3> HIDE DEF methods
    <3> QED BY <1>3, LeastIsThere
  <2> HIDE DEF methods
  <2> QED
    BY <1>1, <1>4, <2>1
<1> DEFINE Edge(i, j) == i \in methods /\ j \in methods /\ Bound(found[k][i], found[k][j])
<1>6. ASSUME NEW ms, \A i, j : Edge(i, j) => (i \in ms <=> j \in ms)
      PROVE  Kept(ms, found, S, k)
  BY <1>6 DEF Kept
<1>7. \A i, j : Edge(i, j) => /\ i \in real /\ j \in real /\ ~g.isolated
                              /\ found[k][j].method \in ToSet(found[k][i].depends)
                              /\ g.hooks \/ found[k][i].provider = found[k][j].provider
  BY <1>2, <1>5 DEF Bound
<1>8. \A i \in real : i \in provided <=> found[k][i].provider
  BY <1>1
<1> HIDE DEF methods, Edge
<1>9. g.isolated => \A ms : Kept(ms, found, S, k)
  BY <1>6, <1>7
<1>10. Kept(real, found, S, k)
  BY <1>6, <1>7
<1>11. ASSUME ~g.hooks PROVE Kept(provided, found, S, k)
  BY <1>6, <1>7, <1>8, <1>11
<1>12. ASSUME ~g.hooks, NEW ms \in DependencyChains(g.cases, real \ provided)
       PROVE  Kept(ms, found, S, k)
  <2> DEFINE plain == real \ provided
  <2>1. IsFiniteSet(plain)
    <3>1. plain \subseteq methods
      BY <1>2
    <3> QED
      BY <1>3, <3>1, FS_Subset
  <2>2. ms \subseteq plain
    BY <1>12, ChainsPartition
  <2>3. ASSUME NEW i, NEW j, Edge(i, j) PROVE i \in ms <=> j \in ms
    <3>1. /\ i \in real /\ j \in real /\ (i \in provided <=> j \in provided)
          /\ g.cases[j].method \in ToSet(g.cases[i].depends)
      BY <1>1, <1>7, <1>8, <1>12, <2>3
    <3>2. CASE i \in plain /\ j \in plain
      <4> HIDE DEF plain
      <4>1. ms \in DependencyChains(g.cases, plain)
        BY DEF plain
      <4> QED
        BY <2>1, <3>1, <3>2, <4>1, ChainsAreClosed
    <3>3. CASE i \notin plain /\ j \notin plain
      BY <2>2, <3>3
    <3> QED
      BY <3>1, <3>2, <3>3
  <2> QED
    BY <1>6, <2>3
<1> QED
  BY <1>9, <1>10, <1>11, <1>12

(* One more class is packed.                                               *)
LEMMA AddClassPacks ==
  ASSUME NEW found, NEW S, Plannable(found, S), NEW k \in {t[1] : t \in S}, NEW target,
         NEW q, NEW T, Packs(q, T, found, S), \A t \in T : t[1] # k
  PROVE  Packs(AddClass(q, GroupByClass(found, S)[k], target), T \cup RealOf(found, S, {k}), found, S)
<1> DEFINE g == GroupByClass(found, S)[k]
           real == RealMethods(g)
           provided == {j \in real : g.cases[j].provider}
           plain == real \ provided
           batch(ms) == [class |-> g.class, methods |-> ms, isolated |-> g.isolated]
           plan(ms, force) == [classes |-> {batch(ms)}, force |-> force]
           plans(C, force) == {plan(ms, force) : ms \in C}
           chained == IF plain = {} THEN q
                      ELSE AddPlans(Flush(q), plans(DependencyChains(g.cases, plain), g.stateful))
           r == AddClass(q, g, target)
<1>1. /\ k \in Nat /\ g.class = k
      /\ g.isolated \in BOOLEAN /\ g.stateful \in BOOLEAN
      /\ Marked(found, S, k) => g.isolated \/ g.stateful
      /\ InOnePiece(found, S, k) => ~g.isolated /\ g.hooks
      /\ RealOf(found, S, {k}) = {k} \X real
      /\ real \in SUBSET Nat /\ \A ms \in SUBSET real : IsFiniteSet(ms)
  <2>1. GroupOk(g, found, S, k)
    BY GroupOf
  <2> HIDE DEF g
  <2> QED
    BY <2>1 DEF GroupOk
<1>2. \/ g.isolated /\ r = AddPlans(q, {plan({j}, TRUE) : j \in real})
      \/ ~g.isolated /\ real = {} /\ r = q
      \/ ~g.isolated /\ real # {} /\ g.hooks /\ r = Pack(q, batch(real), g.stateful, target)
      \/ ~g.isolated /\ real # {} /\ ~g.hooks /\ provided = {} /\ r = chained
      \/ ~g.isolated /\ real # {} /\ ~g.hooks /\ provided # {}
         /\ r = Pack(chained, batch(provided), g.stateful, target)
  <2> HIDE DEF g
  <2> QED
    BY <1>1 DEF AddClass, Splittable, RealMethods
<1>a. /\ g.isolated => \A ms : Kept(ms, found, S, k)
      /\ Kept(real, found, S, k)
      /\ ~g.hooks => /\ Kept(provided, found, S, k)
                     /\ \A ms \in DependencyChains(g.cases, plain) : Kept(ms, found, S, k)
  <2> HIDE DEF g, real, provided
  <2> QED
    BY GroupKeeps DEF g, real, provided
<1> HIDE DEF g, r, real
<1>3. \A ms : batch(ms).class = k /\ batch(ms).methods = ms /\ BatchTests(batch(ms)) = {k} \X ms
  BY <1>1 DEF BatchTests
<1>4. ASSUME NEW ms \in SUBSET real, ms # {}, InOnePiece(found, S, k) => ms = real, Kept(ms, found, S, k)
      PROVE  WellCut(batch(ms), found, S)
  <2>1. batch(ms) \in Batches
    BY <1>1, <1>4 DEF Batches
  <2>2. IsFiniteSet(ms) /\ {k} \X ms \subseteq {k} \X real
    BY <1>1, <1>4
  <2> HIDE DEF batch
  <2> QED
    BY <1>1, <1>3, <1>4, <2>1, <2>2 DEF WellCut
<1>5. ASSUME NEW ms \in SUBSET real, ms # {}, InOnePiece(found, S, k) => ms = real, Kept(ms, found, S, k),
             NEW force \in BOOLEAN, Marked(found, S, k) => force
      PROVE  WellPlanned(plan(ms, force), found, S) /\ PlanTests(plan(ms, force)) = {k} \X ms
  <2>1. WellCut(batch(ms), found, S)
    BY <1>4, <1>5
  <2>2. batch(ms) \in Batches
    BY <2>1 DEF WellCut
  <2> HIDE DEF batch
  <2> QED
    BY <1>3, <1>5, <2>1, <2>2 DEF WellPlanned, Plans, PlanTests
<1>6. \A ms : T \cap ({k} \X ms) = {}
  OBVIOUS
<1>7. ASSUME NEW C, UNION C \subseteq real, \A c \in C : c # {}, \A c, d \in C : c = d \/ c \cap d = {},
             ~InOnePiece(found, S, k), \A c \in C : Kept(c, found, S, k),
             NEW force \in BOOLEAN, Marked(found, S, k) => force
      PROVE  Fair(plans(C, force), {k} \X UNION C, found, S)
  <2>1. \A ms \in C : WellPlanned(plan(ms, force), found, S) /\ PlanTests(plan(ms, force)) = {k} \X ms
    <3> TAKE ms \in C
    <3>1. ms \in SUBSET real /\ ms # {}
      BY <1>7
    <3> HIDE DEF plan
    <3> QED
      BY <1>5, <1>7, <3>1
  <2> HIDE DEF plan
  <2>2. \A p \in plans(C, force) : WellPlanned(p, found, S) /\ \E ms \in C : p = plan(ms, force)
    BY <2>1
  <2>3. UNION {PlanTests(p) : p \in plans(C, force)} = {k} \X UNION C
    <3>1. \A ms \in C : plan(ms, force) \in plans(C, force)
      OBVIOUS
    <3> HIDE DEF plans
    <3>2. ASSUME NEW t \in UNION {PlanTests(p) : p \in plans(C, force)} PROVE t \in {k} \X UNION C
      <4>1. PICK ms \in C : t \in {k} \X ms
        BY <2>1, <2>2
      <4> QED
        BY <4>1
    <3>3. ASSUME NEW t \in {k} \X UNION C PROVE t \in UNION {PlanTests(p) : p \in plans(C, force)}
      <4>1. PICK ms \in C : t \in {k} \X ms
        OBVIOUS
      <4> QED
        BY <2>1, <3>1, <4>1
    <3> QED
      BY <3>2, <3>3
  <2>4. \A p, u \in plans(C, force) : p = u \/ PlanTests(p) \cap PlanTests(u) = {}
    <3>1. \A c, d \in C : c = d \/ ({k} \X c) \cap ({k} \X d) = {}
      BY <1>7
    <3> HIDE DEF plans
    <3> QED
      BY <2>1, <2>2, <3>1
  <2> HIDE DEF plans
  <2> QED
    BY <2>2, <2>3, <2>4 DEF Fair
<1>8. \A c \in q.bin : c.class # k
  <2> SUFFICES ASSUME NEW c \in q.bin, c.class = k PROVE FALSE
    OBVIOUS
  <2>1. WellPlanned(Bin(q), found, S) /\ PlanTests(Bin(q)) \subseteq T
    BY DEF Packs
  <2>2. c \in Bin(q).classes
    BY DEF Bin
  <2>3. c.methods # {} /\ BatchTests(c) \subseteq T
    BY <2>1, <2>2 DEF WellPlanned, WellCut, PlanTests
  <2>4. PICK j \in c.methods : <<k, j>> \in BatchTests(c)
    BY <2>3 DEF BatchTests
  <2> QED
    BY <2>3, <2>4
<1>9. CASE g.isolated
  <2> DEFINE C == {{j} : j \in real}
  <2>1. r = AddPlans(q, plans(C, TRUE))
    <3>1. {plan({j}, TRUE) : j \in real} = plans(C, TRUE)
      <4> HIDE DEF plan
      <4> QED OBVIOUS
    <3> QED
      BY <1>2, <1>9, <3>1
  <2>2. /\ UNION C = real /\ \A c \in C : c # {}
        /\ \A c, d \in C : c = d \/ c \cap d = {}
    OBVIOUS
  <2> HIDE DEF C, plans
  <2>3. Fair(plans(C, TRUE), {k} \X real, found, S)
    BY <1>1, <1>7, <1>9, <1>a, <2>2
  <2>4. Packs(r, T \cup ({k} \X real), found, S)
    BY <1>6, <2>1, <2>3, AddPlansPacks
  <2> QED
    BY <1>1, <2>4 DEF r, g
<1>10. CASE ~g.isolated /\ real = {}
  BY <1>1, <1>2, <1>10 DEF r, g
<1>11. CASE ~g.isolated /\ g.hooks /\ real # {}
  <2>1. r = Pack(q, batch(real), g.stateful, target)
    BY <1>2, <1>11
  <2>2. WellCut(batch(real), found, S) /\ BatchTests(batch(real)) = {k} \X real /\ batch(real).class = k
    BY <1>3, <1>4, <1>11, <1>a
  <2> HIDE DEF batch
  <2> QED
    <3>1. Packs(r, T \cup ({k} \X real), found, S)
      BY <1>1, <1>6, <1>8, <1>11, <2>1, <2>2, PackPacks
    <3> QED
      BY <1>1, <3>1 DEF r, g
<1>12. CASE ~g.isolated /\ ~g.hooks /\ real # {}
  <2>1. /\ provided \subseteq real /\ plain \subseteq real /\ provided \cup plain = real
        /\ plain \cap provided = {} /\ ~InOnePiece(found, S, k) /\ (Marked(found, S, k) => g.stateful)
    BY <1>1, <1>12
  <2>a. Kept(provided, found, S, k) /\ \A ms \in DependencyChains(g.cases, plain) : Kept(ms, found, S, k)
    BY <1>12, <1>a
  <2> HIDE DEF provided, plain
  <2>2. Packs(chained, T \cup ({k} \X plain), found, S) /\ \A c \in chained.bin : c.class # k
    <3>1. CASE plain = {}
      BY <1>8, <3>1
    <3>2. CASE plain # {}
      <4> DEFINE C == DependencyChains(g.cases, plain)
      <4>1. UNION C = plain /\ (\A c \in C : c # {}) /\ \A c, d \in C : c = d \/ c \cap d = {}
        BY ChainsPartition
      <4>3. chained = AddPlans(Flush(q), plans(C, g.stateful))
        BY <3>2
      <4> HIDE DEF C, plans
      <4>2. Fair(plans(C, g.stateful), {k} \X plain, found, S)
        BY <1>1, <1>7, <2>1, <2>a, <4>1 DEF C
      <4> HIDE DEF chained
      <4>4. Packs(Flush(q), T, found, S) /\ Flush(q).bin = {}
        BY FlushPacks
      <4>5. T \cap ({k} \X plain) = {}
        BY <1>6
      <4> QED
        BY <4>2, <4>3, <4>4, <4>5, AddPlansPacks
    <3> QED
      BY <3>1, <3>2
  <2> HIDE DEF chained
  <2>3. CASE provided = {}
    <3>1. r = chained /\ plain = real
      BY <1>2, <1>12, <2>1, <2>3
    <3> QED
      BY <1>1, <2>2, <3>1 DEF r, g
  <2>4. CASE provided # {}
    <3>1. r = Pack(chained, batch(provided), g.stateful, target)
      BY <1>2, <1>12, <2>4
    <3>2. WellCut(batch(provided), found, S) /\ BatchTests(batch(provided)) = {k} \X provided /\ batch(provided).class = k
      BY <1>3, <1>4, <2>1, <2>4, <2>a
    <3> HIDE DEF batch
    <3>3. (T \cup ({k} \X plain)) \cap BatchTests(batch(provided)) = {}
      BY <1>6, <2>1, <3>2
    <3>4. Packs(r, (T \cup ({k} \X plain)) \cup BatchTests(batch(provided)), found, S)
      BY <1>1, <2>1, <2>2, <3>1, <3>2, <3>3, PackPacks
    <3>5. (T \cup ({k} \X plain)) \cup BatchTests(batch(provided)) = T \cup RealOf(found, S, {k})
      BY <1>1, <2>1, <3>2
    <3> QED
      BY <3>4, <3>5 DEF r, g
  <2> QED
    BY <2>3, <2>4
<1> QED
  BY <1>9, <1>10, <1>11, <1>12

(* All classes are packed.                                                 *)
LEMMA PackedPacks ==
  ASSUME NEW found, NEW S, Plannable(found, S), NEW workers
  PROVE  Packs(Packed(found, S, workers), S \ Synthetic(found, S), found, S)
<1> DEFINE groups == GroupByClass(found, S)
           K == {t[1] : t \in S}
           N == Cardinality(DOMAIN groups)
           x == [q |-> EmptyBin, todo |-> DOMAIN groups]
           first(w) == Foremost(w.todo, S)
           turn(w) == [q |-> AddClass(w.q, groups[first(w)], Target(S, workers)), todo |-> w.todo \ {first(w)}]
           W == [q : Accumulators, todo : SUBSET K]
           done(w) == RealOf(found, S, K \ w.todo)
           St == [n \in Nat |-> {w \in W : Cardinality(w.todo) = N - n /\ Packs(w.q, done(w), found, S)}]
           G == [w \in W |-> turn(w)]
           after == CHOOSE f : f = [n \in 0 .. N |-> IF n = 0 THEN x ELSE turn(f[n - 1])]
<1>1. Packed(found, S, workers) = after[N].q
  BY DEF Packed
<1>2. DOMAIN groups = K
  BY DEF GroupByClass
<1>3. /\ K \in SUBSET Nat /\ IsFiniteSet(K) /\ N \in Nat /\ IsFiniteSet(S)
      /\ \A U \in SUBSET K : IsFiniteSet(U) /\ U \in SUBSET Nat
  <2>1. K \in SUBSET Nat /\ IsFiniteSet(S)
    BY DEF Plannable, FoundOk, TestsOf
  <2>2. IsFiniteSet(K)
    <3> DEFINE h == [t \in S |-> t[1]]
    <3>1. {h[t] : t \in S} = K
      OBVIOUS
    <3> HIDE DEF h, K
    <3> QED
      BY <2>1, <3>1, ImageIsFinite
  <2>3. \A U \in SUBSET K : IsFiniteSet(U)
    <3> HIDE DEF K
    <3> QED BY <2>2, FS_Subset
  <2> HIDE DEF K
  <2> QED
    BY <1>2, <2>1, <2>2, <2>3, FS_CardinalityType
<1>4. EmptyBin \in Accumulators /\ Packs(EmptyBin, {}, found, S)
  <2>1. /\ EmptyBin \in Accumulators /\ EmptyBin.bin = {} /\ EmptyBin.plans = {}
    BY DEF EmptyBin, Accumulators
  <2>2. PlanTests(Bin(EmptyBin)) = {}
    BY <2>1 DEF PlanTests, Bin
  <2> QED
    BY <2>1, <2>2, FairNone DEF Packs
<1>5. x \in St[0]
  <2>1. x \in W /\ x.todo = K /\ x.q = EmptyBin
    BY <1>2, <1>4
  <2>2. done(x) = {}
    BY <2>1 DEF RealOf
  <2>3. Cardinality(x.todo) = N - 0
    BY <1>2, <1>3, <2>1
  <2> HIDE DEF x, W, done, N
  <2> QED
    BY <1>4, <2>1, <2>2, <2>3
<1> HIDE DEF x, N, K
<1>6. \A n \in 1 .. N : \A w \in St[n - 1] : turn(w) \in St[n] /\ G[w] = turn(w)
  <2> SUFFICES ASSUME NEW n \in 1 .. N, NEW w \in St[n - 1]
               PROVE  turn(w) \in St[n] /\ G[w] = turn(w)
    OBVIOUS
  <2> DEFINE k == first(w)
             v == turn(w)
  <2>1. n \in Nat /\ n - 1 \in Nat /\ n <= N
    BY <1>3
  <2>2. w \in W /\ Cardinality(w.todo) = N - (n - 1) /\ Packs(w.q, done(w), found, S)
    BY <2>1
  <2>3. w.todo \in SUBSET K /\ IsFiniteSet(w.todo) /\ w.todo # {}
    <3>1. w.todo \in SUBSET K
      BY <2>2
    <3>2. N - (n - 1) # 0
      BY <1>3, <2>1
    <3> QED
      BY <1>3, <2>2, <3>1, <3>2, FS_EmptySet
  <2>4. k \in w.todo /\ k \in K
    <3>1. w.todo \in SUBSET Nat
      BY <1>3, <2>3
    <3> QED
      BY <1>3, <2>3, <3>1, ForemostIsThere
  <2> HIDE DEF first
  <2>5. Packs(AddClass(w.q, groups[k], Target(S, workers)), done(w) \cup RealOf(found, S, {k}), found, S)
    <3>1. \A t \in done(w) : t[1] # k
      BY <2>4 DEF RealOf
    <3>2. k \in {t[1] : t \in S}
      BY <2>4 DEF K
    <3> HIDE DEF done, k
    <3> QED
      BY <2>2, <3>1, <3>2, AddClassPacks
  <2>6. v.q = AddClass(w.q, groups[k], Target(S, workers)) /\ v.todo = w.todo \ {k}
    OBVIOUS
  <2>7. done(v) = done(w) \cup RealOf(found, S, {k})
    <3>1. K \ v.todo = (K \ w.todo) \cup {k}
      BY <2>4, <2>6
    <3> HIDE DEF v, k
    <3> QED
      BY <3>1 DEF RealOf
  <2>8. Packs(v.q, done(v), found, S)
    BY <2>5, <2>6, <2>7
  <2>9. Cardinality(v.todo) = N - n
    <3>1. Cardinality(w.todo \ {k}) = Cardinality(w.todo) - 1
      BY <2>3, <2>4, FS_RemoveElement
    <3>2. N - (n - 1) - 1 = N - n
      BY <1>3, <2>1
    <3> QED
      BY <2>2, <2>6, <3>1, <3>2
  <2>10. v \in W
    <3>1. v.q \in Accumulators
      BY <2>8 DEF Packs
    <3>2. v = [q |-> v.q, todo |-> v.todo] /\ v.todo \in SUBSET K
      BY <2>3, <2>6
    <3> HIDE DEF v
    <3> QED
      BY <3>1, <3>2
  <2> HIDE DEF v, done, W, turn
  <2>11. G[w] = turn(w)
    BY <2>2
  <2> QED
    BY <2>1, <2>8, <2>9, <2>10, <2>11 DEF v
<1> HIDE DEF G, St
<1>7. PICK g : /\ g = [n \in 0 .. N |-> IF n = 0 THEN x ELSE G[g[n - 1]]]
               /\ \A n \in 0 .. N : g[n] \in St[n]
  <2>1. N \in Nat /\ Leads(G, St, N)
    BY <1>3, <1>6 DEF Leads
  <2>2. \E g : Iterates(g, x, G, St, N)
    BY <1>5, <2>1, Iteration
  <2> QED
    BY <2>2 DEF Iterates
<1> HIDE DEF turn
<1>8. g = [n \in 0 .. N |-> IF n = 0 THEN x ELSE turn(g[n - 1])]
  <2>1. \A n \in 0 .. N : g[n] = IF n = 0 THEN x ELSE turn(g[n - 1])
    <3> SUFFICES ASSUME NEW n \in 0 .. N PROVE g[n] = IF n = 0 THEN x ELSE turn(g[n - 1])
      OBVIOUS
    <3>1. g[n] = IF n = 0 THEN x ELSE G[g[n - 1]]
      BY <1>7
    <3>2. CASE n # 0
      <4>1. n \in 1 .. N /\ n - 1 \in 0 .. N
        BY <1>3, <3>2
      <4>2. g[n - 1] \in St[n - 1]
        BY <1>7, <4>1
      <4> QED
        BY <1>6, <3>1, <4>1, <4>2
    <3> QED
      BY <3>1, <3>2
  <2> DEFINE h == [n \in 0 .. N |-> IF n = 0 THEN x ELSE turn(g[n - 1])]
  <2>2. h = [n \in 0 .. N |-> h[n]] /\ \A n \in 0 .. N : h[n] = IF n = 0 THEN x ELSE turn(g[n - 1])
    OBVIOUS
  <2>3. g = [n \in 0 .. N |-> g[n]]
    BY <1>7
  <2>4. \A n \in 0 .. N : g[n] = h[n]
    <3> HIDE DEF h
    <3> QED BY <2>1, <2>2
  <2>5. g = h
    <3> HIDE DEF h
    <3> QED BY <2>2, <2>3, <2>4
  <2> QED
    BY <2>5
<1>9. after = [n \in 0 .. N |-> IF n = 0 THEN x ELSE turn(after[n - 1])]
  BY <1>8
<1> HIDE DEF after
<1>10. after[0] = x /\ \A n \in 1 .. N : after[n] = turn(after[n - 1])
  <2>1. 0 \in 0 .. N /\ \A n \in 1 .. N : n \in 0 .. N /\ n # 0
    BY <1>3
  <2>2. \A n \in 0 .. N : after[n] = IF n = 0 THEN x ELSE turn(after[n - 1])
    BY <1>9
  <2> QED
    BY <2>1, <2>2
<1>11. after[N] \in St[N]
  <2>1. \A n \in 1 .. N : after[n - 1] \in St[n - 1] => after[n] \in St[n]
    BY <1>6, <1>10
  <2>2. \A n \in 0 .. N : after[n] \in St[n]
    BY <1>3, <1>5, <1>10, <2>1, Along
  <2> QED
    BY <1>3, <2>2
<1>12. after[N] \in W /\ Cardinality(after[N].todo) = N - N /\ Packs(after[N].q, done(after[N]), found, S)
  <2> HIDE DEF W, done
  <2> QED BY <1>3, <1>11 DEF St
<1>13. done(after[N]) = S \ Synthetic(found, S)
  <2>1. after[N].todo \in SUBSET K
    BY <1>12
  <2>2. N - N = 0
    BY <1>3
  <2>3. after[N].todo = {}
    BY <1>3, <1>12, <2>1, <2>2, FS_EmptySet
  <2>4. \A t \in S : t[1] \in K
    BY DEF K
  <2> QED
    BY <2>3, <2>4 DEF RealOf, Synthetic
<1> QED
  BY <1>1, <1>12, <1>13

(* build_queue puts each test to run in one plan and keeps the tests of a  *)
(* class together inside a plan; a plan with a stateful or isolated class  *)
(* ends its worker; a class with hooks stays in one piece.                 *)
THEOREM BuildQueueIsFair ==
  ASSUME NEW found, NEW S, Plannable(found, S), NEW workers
  PROVE  Fair(BuildQueue(found, S, workers), S \ Synthetic(found, S), found, S)
BY PackedPacks, FlushPacks DEF BuildQueue

----------------------------------------------------------------------------
(* A part of a class run by itself ends as it does in a run of the whole,  *)
(* when no dependency leads in or out of it.                               *)

(* In s, a comes before b.                                                 *)
Ahead(s, a, b) == \E i, j \in DOMAIN s : i < j /\ s[i] = a /\ s[j] = b

(* s and r contain the same members of N, in the same order.               *)
SameOrder(s, r, N) ==
  /\ \A a \in N : a \in ToSet(s) <=> a \in ToSet(r)
  /\ \A a, b \in N : Ahead(s, a, b) <=> Ahead(r, a, b)

\* What is put at the end comes after all that is there.
LEMMA AheadOfLast ==
  ASSUME NEW S, NEW s \in Seq(S), NEW m \in S
  PROVE  /\ \A a : a \in ToSet(Append(s, m)) <=> (a \in ToSet(s) \/ a = m)
         /\ \A a, b : Ahead(Append(s, m), a, b) <=> (Ahead(s, a, b) \/ (a \in ToSet(s) /\ b = m))
<1> DEFINE L == Len(s)
<1>0. PICK t : t = Append(s, m)
  OBVIOUS
<1>a. t \in Seq(S) /\ Len(t) = L + 1 /\ L \in Nat /\ DOMAIN s = 1 .. L
  BY <1>0
<1>b. \A i \in 1 .. L : t[i] = s[i]
  BY <1>0
<1>c. t[L + 1] = m
  BY <1>0
<1>d. DOMAIN t = 1 .. L + 1
  BY <1>a
<1>1. /\ t \in Seq(S) /\ Len(t) = L + 1
      /\ L \in Nat /\ DOMAIN s = 1 .. L /\ DOMAIN t = 1 .. L + 1
      /\ \A i \in DOMAIN s : t[i] = s[i]
      /\ t[L + 1] = m
  BY <1>a, <1>b, <1>c, <1>d
<1>2. DOMAIN t = DOMAIN s \cup {L + 1} /\ \A i \in DOMAIN s : i < L + 1 /\ i \in Nat /\ L + 1 \notin DOMAIN s
  BY <1>1
<1>3. \A a : a \in ToSet(t) <=> (a \in ToSet(s) \/ a = m)
  BY <1>1, <1>2 DEF ToSet
<1>4. ASSUME NEW a, NEW b, Ahead(t, a, b) PROVE Ahead(s, a, b) \/ (a \in ToSet(s) /\ b = m)
  <2>1. PICK i, j \in DOMAIN t : i < j /\ t[i] = a /\ t[j] = b
    BY <1>4 DEF Ahead
  <2>2. i \in DOMAIN s
    BY <1>1, <2>1
  <2>3. CASE j \in DOMAIN s
    BY <1>1, <2>1, <2>2, <2>3 DEF Ahead
  <2>4. CASE j = L + 1
    BY <1>1, <2>1, <2>2, <2>4 DEF ToSet
  <2> QED
    BY <1>2, <2>3, <2>4
<1>5. ASSUME NEW a, NEW b, Ahead(s, a, b) \/ (a \in ToSet(s) /\ b = m) PROVE Ahead(t, a, b)
  <2>1. CASE Ahead(s, a, b)
    <3>1. PICK i, j \in DOMAIN s : i < j /\ s[i] = a /\ s[j] = b
      BY <2>1 DEF Ahead
    <3> QED
      BY <1>1, <1>2, <3>1 DEF Ahead
  <2>2. CASE a \in ToSet(s) /\ b = m
    <3>1. PICK i \in DOMAIN s : s[i] = a
      BY <2>2 DEF ToSet
    <3>2. t[i] = a /\ t[L + 1] = b /\ i < L + 1 /\ i \in DOMAIN t /\ L + 1 \in DOMAIN t
      BY <1>1, <1>2, <2>2, <3>1
    <3> QED
      BY <3>2 DEF Ahead
  <2> QED
    BY <1>5, <2>1, <2>2
<1> QED
  <2>1. \A a, b : Ahead(t, a, b) <=> (Ahead(s, a, b) \/ (a \in ToSet(s) /\ b = m))
    <3> SUFFICES ASSUME NEW a, NEW b
                 PROVE  Ahead(t, a, b) <=> (Ahead(s, a, b) \/ (a \in ToSet(s) /\ b = m))
      OBVIOUS
    <3>1. Ahead(t, a, b) => (Ahead(s, a, b) \/ (a \in ToSet(s) /\ b = m))
      BY <1>4
    <3>2. (Ahead(s, a, b) \/ (a \in ToSet(s) /\ b = m)) => Ahead(t, a, b)
      BY <1>5
    <3>3. Ahead(t, a, b) \in BOOLEAN /\ Ahead(s, a, b) \in BOOLEAN
      BY DEF Ahead
    <3> QED
      BY <3>1, <3>2, <3>3
  <2> QED
    BY ONLY <1>0, <1>3, <2>1

(* Two sorts agree on what belongs to N.                                   *)
Alike(w, v, N) == w.visited \cap N = v.visited \cap N /\ SameOrder(w.out, v.out, N)

Within(N, depends) == {x \in Item : x.m \in N \/ (x.m \notin DOMAIN depends /\ ~x.out)}
Outside(N) == {x \in Item : x.m \notin N}

(* The sort v of N does what the sort w of more does, or waits until w is  *)
(* back at N.                                                              *)
Follows(w, v, N, depends) ==
  /\ Alike(w, v, N)
  /\ \/ w.todo = v.todo /\ w.todo \in Seq(Within(N, depends))
     \/ v.todo = <<>> /\ w.todo \in Seq(Outside(N))

(* The methods N by their names part are some of those names has, d and e  *)
(* what the two depend on, and no dependency leads into N or out of it.    *)
SetApart(part, e, names, d, N) ==
  /\ Batch(names, d) /\ Batch(part, e) /\ DOMAIN d = ToSet(names)
  /\ N = ToSet(part) /\ DOMAIN part = {i \in DOMAIN names : names[i] \in N}
  /\ \A i \in DOMAIN part : part[i] = names[i]
  /\ DOMAIN e = N /\ N \subseteq DOMAIN d /\ \A m \in N : e[m] = d[m]
  /\ \A m \in N : \A b \in ToSet(d[m]) : b \in N \/ b \notin DOMAIN d
  /\ \A m \in DOMAIN d \ N : \A b \in ToSet(d[m]) : b \notin N

\* What a visit puts on the stack is in a set with the method and what it depends on.
LEMMA VisitPuts ==
  ASSUME NEW w \in Work, NEW m \in STRING, NEW P \in SUBSET Item, NEW rest \in Seq(P), NEW d,
         m \in DOMAIN d => /\ d[m] \in Seq(STRING) /\ [m |-> m, out |-> TRUE] \in P
                           /\ \A b \in ToSet(d[m]) : [m |-> b, out |-> FALSE] \in P
  PROVE  /\ Visit(w, m, rest, d).todo \in Seq(P)
         /\ Visit(w, m, rest, d).visited = w.visited \cup {m}
         /\ Visit(w, m, rest, d).out = w.out
<1>1. CASE m \notin DOMAIN d
  BY <1>1 DEF Visit
<1>2. CASE m \in DOMAIN d
  <2> DEFINE pre == [i \in DOMAIN d[m] |-> [m |-> d[m][i], out |-> FALSE]]
             x == [m |-> m, out |-> TRUE]
  <2>1. Visit(w, m, rest, d) = [visited |-> w.visited \cup {m}, out |-> w.out, todo |-> pre \o <<x>> \o rest]
    BY <1>2 DEF Visit
  <2>2. pre \in Seq(P) /\ x \in P
    <3>1. \A i \in DOMAIN d[m] : [m |-> d[m][i], out |-> FALSE] \in P
      BY <1>2 DEF ToSet
    <3>2. DOMAIN d[m] = 1 .. Len(d[m]) /\ Len(d[m]) \in Nat
      BY <1>2
    <3> QED
      BY <1>2, <3>1, <3>2
  <2> HIDE DEF pre, x
  <2>3. pre \o <<x>> \o rest \in Seq(P)
    BY <2>2
  <2> QED
    BY <2>1, <2>3
<1> QED
  BY <1>1, <1>2

\* Two sorts stay alike when both put a member of N out, or one of them something else.
LEMMA OutsAlike ==
  ASSUME NEW N, NEW s \in Seq(STRING), NEW r \in Seq(STRING), SameOrder(s, r, N), NEW m \in STRING
  PROVE  /\ m \in N => SameOrder(Append(s, m), Append(r, m), N)
         /\ m \notin N => SameOrder(Append(s, m), r, N)
<1>1. /\ \A a : a \in ToSet(Append(s, m)) <=> (a \in ToSet(s) \/ a = m)
      /\ \A a, b : Ahead(Append(s, m), a, b) <=> (Ahead(s, a, b) \/ (a \in ToSet(s) /\ b = m))
  BY AheadOfLast
<1>2. /\ \A a : a \in ToSet(Append(r, m)) <=> (a \in ToSet(r) \/ a = m)
      /\ \A a, b : Ahead(Append(r, m), a, b) <=> (Ahead(r, a, b) \/ (a \in ToSet(r) /\ b = m))
  BY AheadOfLast
<1>0. \A q, a, b : Ahead(q, a, b) \in BOOLEAN
  BY DEF Ahead
<1>3. /\ \A a \in N : a \in ToSet(s) <=> a \in ToSet(r)
      /\ \A a, b \in N : Ahead(s, a, b) <=> Ahead(r, a, b)
  BY DEF SameOrder
<1>4. ASSUME m \in N PROVE SameOrder(Append(s, m), Append(r, m), N)
  <2>1. \A a \in N : a \in ToSet(Append(s, m)) <=> a \in ToSet(Append(r, m))
    BY <1>1, <1>2, <1>3
  <2>2. ASSUME NEW a \in N, NEW b \in N PROVE Ahead(Append(s, m), a, b) <=> Ahead(Append(r, m), a, b)
    BY <1>0, <1>1, <1>2, <1>3
  <2> QED
    BY <2>1, <2>2 DEF SameOrder
<1>5. ASSUME m \notin N PROVE SameOrder(Append(s, m), r, N)
  <2>1. \A a \in N : a \in ToSet(Append(s, m)) <=> a \in ToSet(r)
    BY <1>1, <1>3, <1>5
  <2>2. ASSUME NEW a \in N, NEW b \in N PROVE Ahead(Append(s, m), a, b) <=> Ahead(r, a, b)
    BY <1>0, <1>1, <1>3, <1>5
  <2> QED
    BY <2>1, <2>2 DEF SameOrder
<1> QED
  BY <1>4, <1>5

\* Both sorts visit a method of N: they go on alike.
LEMMA BothVisit ==
  ASSUME NEW part, NEW e, NEW names, NEW d, NEW N, SetApart(part, e, names, d, N),
         NEW w \in Work, NEW v \in Work, Alike(w, v, N),
         NEW m \in N, NEW rest \in Seq(Within(N, d))
  PROVE  Follows(Visit(w, m, rest, d), Visit(v, m, rest, e), N, d)
<1> DEFINE w1 == Visit(w, m, rest, d)
           v1 == Visit(v, m, rest, e)
<1>1. m \in DOMAIN d /\ m \in DOMAIN e /\ d[m] = e[m]
  BY DEF SetApart
<1>2. d[m] \in Seq(STRING) /\ m \in STRING /\ \A b \in ToSet(d[m]) : b \in STRING
  <2>1. d[m] \in Seq(STRING)
    BY <1>1 DEF SetApart, Batch
  <2>2. \A b \in ToSet(d[m]) : b \in STRING
    BY <2>1 DEF ToSet
  <2>3. m \in STRING
    <3>1. m \in ToSet(names) /\ names \in [DOMAIN names -> STRING]
      BY <1>1 DEF SetApart, Batch
    <3> QED
      BY <3>1 DEF ToSet
  <2> QED
    BY <2>1, <2>2, <2>3
<1>3. [m |-> m, out |-> TRUE] \in Within(N, d)
  BY <1>2 DEF Within, Item
<1>4. \A b \in ToSet(d[m]) : [m |-> b, out |-> FALSE] \in Within(N, d)
  <2> SUFFICES ASSUME NEW b \in ToSet(d[m]) PROVE [m |-> b, out |-> FALSE] \in Within(N, d)
    OBVIOUS
  <2>1. b \in N \/ b \notin DOMAIN d
    BY DEF SetApart
  <2> QED
    BY <1>2, <2>1 DEF Within, Item
<1>5. Within(N, d) \in SUBSET Item
  BY DEF Within
<1>6. w1.todo \in Seq(Within(N, d)) /\ w1.visited = w.visited \cup {m} /\ w1.out = w.out
  BY <1>2, <1>3, <1>4, <1>5, VisitPuts
<1>7. v1.visited = v.visited \cup {m} /\ v1.out = v.out
  BY DEF Visit
<1>8. w1.todo = v1.todo
  BY <1>1 DEF Visit
<1> HIDE DEF w1, v1
<1>9. Alike(w1, v1, N)
  BY <1>6, <1>7 DEF Alike
<1> QED
  BY <1>6, <1>8, <1>9 DEF Follows, w1, v1

\* The larger sort visits another method while the smaller one waits.
LEMMA OneVisits ==
  ASSUME NEW part, NEW e, NEW names, NEW d, NEW N, SetApart(part, e, names, d, N),
         NEW w \in Work, NEW v \in Work, Alike(w, v, N), v.todo = <<>>,
         NEW m \in STRING, m \notin N, NEW rest \in Seq(Outside(N))
  PROVE  Follows(Visit(w, m, rest, d), v, N, d)
<1> DEFINE w1 == Visit(w, m, rest, d)
<1>2. m \in DOMAIN d => d[m] \in Seq(STRING) /\ \A b \in ToSet(d[m]) : b \in STRING /\ b \notin N
  <2> SUFFICES ASSUME m \in DOMAIN d PROVE d[m] \in Seq(STRING) /\ \A b \in ToSet(d[m]) : b \in STRING /\ b \notin N
    OBVIOUS
  <2>1. d[m] \in Seq(STRING)
    BY DEF SetApart, Batch
  <2>2. \A b \in ToSet(d[m]) : b \in STRING
    BY <2>1 DEF ToSet
  <2>3. \A b \in ToSet(d[m]) : b \notin N
    BY DEF SetApart
  <2> QED
    BY <2>1, <2>2, <2>3
<1>3. [m |-> m, out |-> TRUE] \in Outside(N)
  BY DEF Outside, Item
<1>4. m \in DOMAIN d => \A b \in ToSet(d[m]) : [m |-> b, out |-> FALSE] \in Outside(N)
  BY <1>2 DEF Outside, Item
<1>5. Outside(N) \in SUBSET Item
  BY DEF Outside
<1>6. w1.todo \in Seq(Outside(N)) /\ w1.visited = w.visited \cup {m} /\ w1.out = w.out
  BY <1>2, <1>3, <1>4, <1>5, VisitPuts
<1> HIDE DEF w1
<1>7. Alike(w1, v, N)
  BY <1>6 DEF Alike
<1> QED
  BY <1>6, <1>7 DEF Follows, w1
\* With nothing on either stack, the next name of the larger batch: the smaller one's next, too, or
\* none of its names.
LEMMA NextName ==
  ASSUME NEW part, NEW e, NEW names, NEW d, NEW N, SetApart(part, e, names, d, N),
         NEW w \in Work, NEW v \in Work, Alike(w, v, N), w.todo = <<>>, v.todo = <<>>
  PROVE  \/ Follows(TopoTurn(w, names, d), v, N, d)
         \/ Follows(TopoTurn(w, names, d), TopoTurn(v, part, e), N, d)
<1> DEFINE left == {i \in DOMAIN names : names[i] \notin w.visited}
           has == {i \in DOMAIN part : part[i] \notin v.visited}
           m == names[Min(left)]
<1>1. /\ DOMAIN names \in SUBSET Nat /\ IsFiniteSet(DOMAIN names) /\ names \in [DOMAIN names -> STRING]
      /\ DOMAIN part = {i \in DOMAIN names : names[i] \in N}
      /\ \A i \in DOMAIN part : part[i] = names[i]
  BY DEF SetApart, Batch
<1>2. <<>> \in Seq(Within(N, d)) /\ <<>> \in Seq(Outside(N))
  OBVIOUS
<1>3. CASE left = {}
  <2>1. TopoTurn(w, names, d) = w
    BY <1>3 DEF TopoTurn
  <2> QED
    BY <1>2, <2>1 DEF Follows
<1>4. CASE left # {}
  <2>1. left \in SUBSET Nat /\ IsFiniteSet(left)
    <3>1. left \subseteq DOMAIN names
      OBVIOUS
    <3> QED
      BY <1>1, <3>1, FS_Subset
  <2>2. TopoTurn(w, names, d) = Visit(w, m, <<>>, d)
    BY <1>4 DEF TopoTurn
  <2>3. Min(left) \in left /\ \A l \in left : Min(left) <= l
    <3> HIDE DEF left
    <3> QED BY <1>4, <2>1, LeastIsThere
  <2>4. m \in STRING /\ m \notin w.visited /\ Min(left) \in DOMAIN names
    BY <1>1, <2>3
  <2>5. CASE m \notin N
    <3> HIDE DEF m
    <3>1. Follows(Visit(w, m, <<>>, d), v, N, d)
      BY <1>2, <2>4, <2>5, OneVisits
    <3> QED
      BY <2>2, <3>1
  <2>6. CASE m \in N
    <3>1. \A n \in N : n \in w.visited <=> n \in v.visited
      BY DEF Alike
    <3>2. Min(left) \in has
      BY <1>1, <2>4, <2>6, <3>1
    <3>3. has \subseteq left
      BY <1>1, <3>1
    <3>4. Min(has) \in has /\ \A l \in has : Min(has) <= l
      <4>1. has \in SUBSET Nat /\ IsFiniteSet(has)
        <5> HIDE DEF has, left
        <5> QED BY <2>1, <3>3, FS_Subset
      <4> HIDE DEF has
      <4> QED BY <3>2, <4>1, LeastIsThere
    <3>5. Min(has) = Min(left)
      <4>1. Min(has) \in left /\ Min(left) <= Min(has) /\ Min(has) <= Min(left)
        BY <2>3, <3>2, <3>3, <3>4
      <4>2. Min(has) \in Nat /\ Min(left) \in Nat
        <5> HIDE DEF left, has
        <5> QED BY <2>1, <2>3, <4>1
      <4> HIDE DEF left, has
      <4> QED
        BY <4>1, <4>2
    <3>6. part[Min(has)] = m
      BY <1>1, <3>2, <3>5
    <3>7. TopoTurn(v, part, e) = Visit(v, m, <<>>, e)
      BY <3>2, <3>6 DEF TopoTurn
    <3> HIDE DEF m
    <3>8. Follows(Visit(w, m, <<>>, d), Visit(v, m, <<>>, e), N, d)
      BY <1>2, <2>6, BothVisit
    <3> QED
      BY <2>2, <3>7, <3>8
  <2> QED
    BY <2>5, <2>6
<1> QED
  BY <1>3, <1>4

\* An item at the top of the stack of both sorts.
LEMMA BothTurn ==
  ASSUME NEW part, NEW e, NEW names, NEW d, NEW N, SetApart(part, e, names, d, N),
         NEW w \in Work, NEW v \in Work, Alike(w, v, N),
         w.todo = v.todo, w.todo \in Seq(Within(N, d)), w.todo # <<>>
  PROVE  Follows(TopoTurn(w, names, d), TopoTurn(v, part, e), N, d)
<1> DEFINE top == Head(w.todo)
           rest == Tail(w.todo)
           m == top.m
           w1 == TopoTurn(w, names, d)
           v1 == TopoTurn(v, part, e)
<1>1. top \in Within(N, d) /\ rest \in Seq(Within(N, d))
  OBVIOUS
<1>2. /\ m \in STRING /\ top.out \in BOOLEAN
      /\ m \in N \/ (m \notin DOMAIN d /\ ~top.out)
  BY <1>1 DEF Within, Item
<1>3. /\ w.out \in Seq(STRING) /\ v.out \in Seq(STRING) /\ SameOrder(w.out, v.out, N)
      /\ \A n \in N : n \in w.visited <=> n \in v.visited
  BY DEF Work, Alike
<1>4. Head(v.todo) = top /\ Tail(v.todo) = rest /\ v.todo # <<>>
  OBVIOUS
<1>5. m \notin N => m \notin DOMAIN e
  BY <1>2 DEF SetApart
<1>6. CASE top.out
  <2>1. /\ w1 = [w EXCEPT !.todo = rest, !.out = Append(@, m)]
        /\ v1 = [v EXCEPT !.todo = rest, !.out = Append(@, m)]
    BY <1>4, <1>6 DEF TopoTurn
  <2>2. m \in N
    BY <1>2, <1>6
  <2> HIDE DEF m, rest, w1, v1
  <2>3. SameOrder(Append(w.out, m), Append(v.out, m), N)
    <3> DEFINE s == w.out
               r == v.out
    <3>1. s \in Seq(STRING) /\ r \in Seq(STRING) /\ SameOrder(s, r, N) /\ m \in STRING
      BY <1>2, <1>3
    <3> HIDE DEF s, r
    <3>2. SameOrder(Append(s, m), Append(r, m), N)
      BY <2>2, <3>1, OutsAlike
    <3> QED
      BY <3>2 DEF s, r
  <2>4. /\ w1.visited = w.visited /\ w1.todo = rest /\ w1.out = Append(w.out, m)
        /\ v1.visited = v.visited /\ v1.todo = rest /\ v1.out = Append(v.out, m)
    BY <2>1 DEF Work
  <2>5. Alike(w1, v1, N)
    BY <2>3, <2>4 DEF Alike
  <2> QED
    BY <1>1, <2>4, <2>5 DEF Follows, w1, v1, rest
<1>7. CASE ~top.out /\ m \in N
  <2>1. CASE m \in w.visited
    <3>1. w1 = [w EXCEPT !.todo = rest] /\ v1 = [v EXCEPT !.todo = rest]
      BY <1>3, <1>4, <1>7, <2>1 DEF TopoTurn
    <3> HIDE DEF m, rest, w1, v1
    <3>2. /\ w1.visited = w.visited /\ w1.todo = rest /\ w1.out = w.out
          /\ v1.visited = v.visited /\ v1.todo = rest /\ v1.out = v.out
      BY <3>1 DEF Work
    <3>3. Alike(w1, v1, N)
      BY <3>2 DEF Alike
    <3> QED
      BY <1>1, <3>2, <3>3 DEF Follows, w1, v1, rest
  <2>2. CASE m \notin w.visited
    <3>1. w1 = Visit(w, m, rest, d) /\ v1 = Visit(v, m, rest, e)
      BY <1>3, <1>4, <1>7, <2>2 DEF TopoTurn
    <3> HIDE DEF m, rest, w1, v1
    <3>2. Follows(Visit(w, m, rest, d), Visit(v, m, rest, e), N, d)
      BY <1>1, <1>7, BothVisit DEF rest
    <3> QED
      BY <3>1, <3>2 DEF w1, v1
  <2> QED
    BY <2>1, <2>2
<1>8. CASE ~top.out /\ m \notin N
  <2>1. w1 \in {[w EXCEPT !.todo = rest], Visit(w, m, rest, d)}
    BY <1>8 DEF TopoTurn
  <2>2. v1 \in {[v EXCEPT !.todo = rest], Visit(v, m, rest, e)}
    BY <1>4, <1>8 DEF TopoTurn
  <2>3. m \notin DOMAIN d /\ m \notin DOMAIN e
    BY <1>2, <1>5, <1>8
  <2>4. m \notin N
    BY <1>8
  <2> HIDE DEF m, rest, w1, v1
  <2>5. w1.todo = rest /\ w1.out = w.out /\ w1.visited \in {w.visited, w.visited \cup {m}}
    BY <2>1, <2>3 DEF Visit, Work
  <2>6. v1.todo = rest /\ v1.out = v.out /\ v1.visited \in {v.visited, v.visited \cup {m}}
    BY <2>2, <2>3 DEF Visit, Work
  <2>7. w1.visited \cap N = w.visited \cap N /\ v1.visited \cap N = v.visited \cap N
    BY <2>4, <2>5, <2>6
  <2>8. Alike(w1, v1, N)
    BY <2>5, <2>6, <2>7 DEF Alike
  <2> QED
    BY <1>1, <2>5, <2>6, <2>8 DEF Follows, w1, v1, rest
<1> QED
  BY <1>2, <1>6, <1>7, <1>8

\* An item at the top of the stack of the larger sort, while the smaller one waits.
LEMMA OneTurn ==
  ASSUME NEW part, NEW e, NEW names, NEW d, NEW N, SetApart(part, e, names, d, N),
         NEW w \in Work, NEW v \in Work, Alike(w, v, N),
         v.todo = <<>>, w.todo \in Seq(Outside(N)), w.todo # <<>>
  PROVE  Follows(TopoTurn(w, names, d), v, N, d)
<1> DEFINE top == Head(w.todo)
           rest == Tail(w.todo)
           m == top.m
           w1 == TopoTurn(w, names, d)
<1>1. top \in Outside(N) /\ rest \in Seq(Outside(N))
  OBVIOUS
<1>2. m \in STRING /\ top.out \in BOOLEAN /\ m \notin N
  BY <1>1 DEF Outside, Item
<1>3. /\ w.out \in Seq(STRING) /\ v.out \in Seq(STRING) /\ SameOrder(w.out, v.out, N)
  BY DEF Work, Alike
<1>4. CASE top.out
  <2>1. w1 = [w EXCEPT !.todo = rest, !.out = Append(@, m)]
    BY <1>4 DEF TopoTurn
  <2> HIDE DEF m, rest, w1
  <2>2. SameOrder(Append(w.out, m), v.out, N)
    <3> DEFINE s == w.out
               r == v.out
    <3>1. s \in Seq(STRING) /\ r \in Seq(STRING) /\ SameOrder(s, r, N) /\ m \in STRING /\ m \notin N
      BY <1>2, <1>3
    <3> HIDE DEF s, r
    <3>2. SameOrder(Append(s, m), r, N)
      BY <3>1, OutsAlike
    <3> QED
      BY <3>2 DEF s, r
  <2>3. w1.visited = w.visited /\ w1.todo = rest /\ w1.out = Append(w.out, m)
    BY <2>1 DEF Work
  <2>4. Alike(w1, v, N)
    BY <2>2, <2>3 DEF Alike
  <2> QED
    BY <1>1, <2>3, <2>4 DEF Follows, w1, rest
<1>5. CASE ~top.out /\ m \in w.visited
  <2>1. w1 = [w EXCEPT !.todo = rest]
    BY <1>5 DEF TopoTurn
  <2> HIDE DEF m, rest, w1
  <2>2. w1.visited = w.visited /\ w1.todo = rest /\ w1.out = w.out
    BY <2>1 DEF Work
  <2>3. Alike(w1, v, N)
    BY <2>2 DEF Alike
  <2> QED
    BY <1>1, <2>2, <2>3 DEF Follows, w1, rest
<1>6. CASE ~top.out /\ m \notin w.visited
  <2>1. w1 = Visit(w, m, rest, d)
    BY <1>6 DEF TopoTurn
  <2> HIDE DEF m, rest, w1
  <2>2. Follows(Visit(w, m, rest, d), v, N, d)
    BY <1>1, <1>2, OneVisits DEF rest
  <2> QED
    BY <2>1, <2>2 DEF w1
<1> QED
  BY <1>2, <1>4, <1>5, <1>6

\* Whatever the turn, the sort of the part follows the other: with a turn of its own, or by waiting.
LEMMA TurnFollows ==
  ASSUME NEW part, NEW e, NEW names, NEW d, NEW N, SetApart(part, e, names, d, N),
         NEW w \in Work, NEW v \in Work, Follows(w, v, N, d)
  PROVE  \/ Follows(TopoTurn(w, names, d), v, N, d)
         \/ Follows(TopoTurn(w, names, d), TopoTurn(v, part, e), N, d)
<1>1. Alike(w, v, N)
  BY DEF Follows
<1>2. CASE w.todo = v.todo /\ w.todo \in Seq(Within(N, d)) /\ w.todo # <<>>
  BY <1>1, <1>2, BothTurn
<1>3. CASE v.todo = <<>> /\ w.todo \in Seq(Outside(N)) /\ w.todo # <<>>
  BY <1>1, <1>3, OneTurn
<1>4. CASE w.todo = <<>>
  <2>1. v.todo = <<>>
    BY <1>4 DEF Follows
  <2> QED
    BY <1>1, <1>4, <2>1, NextName
<1> QED
  BY <1>2, <1>3, <1>4 DEF Follows
\* A sort with nothing left to do stays as it is.
LEMMA SortRests ==
  ASSUME NEW names, NEW d, NEW w, ToSet(names) \subseteq w.visited, w.todo = <<>>
  PROVE  TopoTurn(w, names, d) = w
<1>1. {i \in DOMAIN names : names[i] \notin w.visited} = {}
  BY DEF ToSet
<1> QED
  BY <1>1 DEF TopoTurn

\* Sorted with others of its class or by itself, a part set apart ends up in the same order.
LEMMA PartSortsAlike ==
  ASSUME NEW part, NEW e, NEW names, NEW d, NEW N, SetApart(part, e, names, d, N),
         NEW f, NEW M \in Nat, Sorts(f, M, names, d),
         NEW g, NEW K \in Nat, Sorts(g, K, part, e)
  PROVE  SameOrder(f[M].out, g[K].out, N)
<1>1. /\ f[0] = NothingSorted /\ \A n \in 1 .. M : f[n] = TopoTurn(f[n - 1], names, d)
      /\ \A n \in 0 .. M : Sorting(f[n], d)
      /\ Remaining(f[M], names, d) = 0
  BY DEF Sorts
<1>2. /\ g[0] = NothingSorted /\ \A n \in 1 .. K : g[n] = TopoTurn(g[n - 1], part, e)
      /\ \A n \in 0 .. K : Sorting(g[n], e)
      /\ Remaining(g[K], part, e) = 0
  BY DEF Sorts
<1>3. Batch(names, d) /\ Batch(part, e) /\ N = ToSet(part)
  BY DEF SetApart
<1>4. TopoTurn(g[K], part, e) = g[K]
  <2>1. Sorting(g[K], e)
    BY <1>2
  <2>2. ToSet(part) \subseteq g[K].visited /\ g[K].todo = <<>>
    BY <1>2, <1>3, <2>1, SortIsOver
  <2> QED
    BY <2>2, SortRests
<1> DEFINE Followed(n) == \E k \in 0 .. K : Follows(f[n], g[k], N, d)
           T == {n \in Nat : n <= M => Followed(n)}
<1>5. 0 \in T
  <2>1. SameOrder(<<>>, <<>>, N)
    BY DEF SameOrder
  <2>2. <<>> \in Seq(Within(N, d))
    OBVIOUS
  <2>3. Follows(NothingSorted, NothingSorted, N, d)
    BY <2>1, <2>2 DEF Follows, Alike, NothingSorted
  <2>4. 0 \in 0 .. K
    OBVIOUS
  <2> QED
    BY <1>1, <1>2, <2>3, <2>4
<1>6. ASSUME NEW n \in T PROVE n + 1 \in T
  <2> SUFFICES ASSUME n + 1 <= M PROVE Followed(n + 1)
    OBVIOUS
  <2>1. n \in 0 .. M /\ n + 1 \in 1 .. M /\ n + 1 - 1 = n
    OBVIOUS
  <2>2. PICK k \in 0 .. K : Follows(f[n], g[k], N, d)
    BY <2>1
  <2>3. Sorting(f[n], d) /\ Sorting(g[k], e)
    BY <1>1, <1>2, <2>1
  <2>4. f[n] \in Work /\ g[k] \in Work
    BY <2>3 DEF Sorting
  <2>5. f[n + 1] = TopoTurn(f[n], names, d)
    BY <1>1, <2>1
  <2>6. \/ Follows(f[n + 1], g[k], N, d)
        \/ Follows(f[n + 1], TopoTurn(g[k], part, e), N, d)
    BY <2>2, <2>4, <2>5, TurnFollows
  <2>7. CASE k = K
    BY <1>4, <2>6, <2>7
  <2>8. CASE k # K
    <3>1. k + 1 \in 1 .. K /\ k + 1 \in 0 .. K /\ k + 1 - 1 = k
      BY <2>8
    <3>2. g[k + 1] = TopoTurn(g[k], part, e)
      BY <1>2, <3>1
    <3> QED
      BY <2>6, <3>1, <3>2
  <2> QED
    BY <2>7, <2>8
<1>7. T = Nat
  <2>1. T \subseteq Nat
    OBVIOUS
  <2> HIDE DEF T
  <2> QED
    BY <1>5, <1>6, <2>1, NatSetInduction
<1>8. PICK k \in 0 .. K : Follows(f[M], g[k], N, d)
  BY <1>7
<1>9. ToSet(names) \subseteq f[M].visited /\ f[M].todo = <<>>
  <2>1. Sorting(f[M], d)
    BY <1>1
  <2> QED
    BY <1>1, <1>3, <2>1, SortIsOver
<1>10. ToSet(part) \subseteq g[k].visited /\ g[k].todo = <<>>
  <2>1. g[k].todo = <<>> /\ f[M].visited \cap N = g[k].visited \cap N
    BY <1>8, <1>9 DEF Follows, Alike
  <2>2. N \subseteq ToSet(names)
    BY DEF SetApart
  <2> QED
    BY <1>3, <1>9, <2>1, <2>2
<1>11. g[K] = g[k]
  <2> DEFINE R == {n \in Nat : k + n <= K => g[k + n] = g[k]}
  <2>1. 0 \in R
    OBVIOUS
  <2>2. ASSUME NEW n \in R PROVE n + 1 \in R
    <3> SUFFICES ASSUME k + (n + 1) <= K PROVE g[k + (n + 1)] = g[k]
      OBVIOUS
    <3>1. k + (n + 1) \in 1 .. K /\ k + (n + 1) - 1 = k + n /\ k + n <= K
      OBVIOUS
    <3>2. g[k + (n + 1)] = TopoTurn(g[k + n], part, e) /\ g[k + n] = g[k]
      BY <1>2, <3>1
    <3> QED
      BY <1>10, <3>2, SortRests
  <2>3. R = Nat
    <3>1. R \subseteq Nat
      OBVIOUS
    <3> HIDE DEF R
    <3> QED
      BY <2>1, <2>2, <3>1, NatSetInduction
  <2>4. K - k \in Nat /\ k + (K - k) = K
    OBVIOUS
  <2>5. \A n \in Nat : k + n <= K => g[k + n] = g[k]
    BY <2>3
  <2>6. g[k + (K - k)] = g[k]
    BY <2>4, <2>5
  <2> QED
    BY <2>4, <2>6
<1> QED
  BY <1>8, <1>11 DEF Follows, Alike
(* The rows of a method when those in P passed before it, and what has     *)
(* passed once the n-th method has run.                                    *)
RowsOf(project, fqcn, m, P) == MethodRows(ClassIn(project, fqcn), MethodIn(project, fqcn, m), P)

PassedThen(project, fqcn, m, P) ==
  IF "pass" \in ToSet(RowsOf(project, fqcn, m, P)) THEN P \cup {m} ELSE P

(* passed[n] are the methods that have passed after the n-th of order.     *)
Passes(passed, project, fqcn, order) ==
  passed = [n \in 0 .. Len(order) |->
              IF n = 0 THEN {} ELSE PassedThen(project, fqcn, order[n], passed[n - 1])]

\* RunClass can tell what has passed at any time.
LEMMA SomePass ==
  ASSUME NEW project, NEW fqcn, NEW order \in Seq(STRING)
  PROVE  \E passed : Passes(passed, project, fqcn, order)
<1> DEFINE L == Len(order)
           Do(n, P) == PassedThen(project, fqcn, order[n], P)
           U == (0 .. L) \X SUBSET STRING
           G == [s \in U |-> <<s[1] + 1, Do(s[1] + 1, s[2])>>]
           St == [n \in 0 .. L |-> {n} \X SUBSET STRING]
<1>1. L \in Nat /\ \A n \in 1 .. L : order[n] \in STRING
  OBVIOUS
<1>2. \A n \in 1 .. L : \A P \in SUBSET STRING : Do(n, P) \in SUBSET STRING
  BY <1>1 DEF PassedThen
<1> HIDE DEF L, Do
<1>3. \A n \in 1 .. L : \A s \in St[n - 1] : /\ s \in U /\ s = <<n - 1, s[2]>> /\ s[2] \in SUBSET STRING
                                        /\ G[s] = <<n, Do(n, s[2])>>
  <2> SUFFICES ASSUME NEW n \in 1 .. L, NEW s \in St[n - 1]
               PROVE  /\ s \in U /\ s = <<n - 1, s[2]>> /\ s[2] \in SUBSET STRING
                      /\ G[s] = <<n, Do(n, s[2])>>
    OBVIOUS
  <2>1. n - 1 \in 0 .. L /\ n - 1 + 1 = n
    BY <1>1
  <2>2. s \in {n - 1} \X SUBSET STRING
    BY <2>1
  <2>3. s \in U /\ s[1] = n - 1 /\ s[2] \in SUBSET STRING /\ s = <<s[1], s[2]>>
    BY <2>1, <2>2
  <2>4. G[s] = <<s[1] + 1, Do(s[1] + 1, s[2])>>
    BY <2>3
  <2> QED
    BY <2>1, <2>3, <2>4
<1>4. Leads(G, St, L)
  <2> SUFFICES ASSUME NEW n \in 1 .. L, NEW s \in St[n - 1] PROVE G[s] \in St[n]
    BY DEF Leads
  <2>1. n \in 0 .. L
    BY <1>1
  <2>2. G[s] = <<n, Do(n, s[2])>> /\ Do(n, s[2]) \in SUBSET STRING
    BY <1>2, <1>3
  <2> HIDE DEF G
  <2> QED
    BY <2>1, <2>2
<1>5. <<0, {}>> \in St[0]
  BY <1>1
<1> HIDE DEF G, St
<1>6. PICK f : Iterates(f, <<0, {}>>, G, St, L)
  BY <1>1, <1>4, <1>5, Iteration
<1> DEFINE passed == [n \in 0 .. L |-> f[n][2]]
<1>7. \A n \in 0 .. L : passed[n] = IF n = 0 THEN {} ELSE Do(n, passed[n - 1])
  <2> SUFFICES ASSUME NEW n \in 0 .. L PROVE f[n][2] = IF n = 0 THEN {} ELSE Do(n, passed[n - 1])
    OBVIOUS
  <2>1. f[n] = IF n = 0 THEN <<0, {}>> ELSE G[f[n - 1]]
    BY <1>6 DEF Iterates
  <2>2. CASE n = 0
    BY <2>1, <2>2
  <2>3. CASE n # 0
    <3>1. n \in 1 .. L /\ n - 1 \in 0 .. L
      BY <1>1, <2>3
    <3>2. f[n - 1] \in St[n - 1]
      BY <1>6, <3>1 DEF Iterates
    <3>3. f[n] = <<n, Do(n, f[n - 1][2])>>
      BY <1>3, <2>1, <2>3, <3>1, <3>2
    <3> QED
      BY <2>3, <3>1, <3>3
  <2> QED
    BY <2>2, <2>3
<1>8. passed = [n \in 0 .. L |-> IF n = 0 THEN {} ELSE Do(n, passed[n - 1])]
  <2> DEFINE h == [n \in 0 .. L |-> IF n = 0 THEN {} ELSE Do(n, passed[n - 1])]
  <2>1. \A n \in 0 .. L : passed[n] = h[n]
    <3> HIDE DEF passed
    <3> QED BY <1>7
  <2> QED
    BY <2>1
<1> HIDE DEF passed
<1> QED
  BY <1>8 DEF Passes, L, Do

(* Each method of order has the rows it has once those ahead of it that    *)
(* pass have passed.                                                       *)
RunsInOrder(run, order, project, fqcn) ==
  /\ DOMAIN run = ToSet(order)
  /\ \A m \in ToSet(order) :
       run[m] = RowsOf(project, fqcn, m,
                       {a \in ToSet(order) : Ahead(order, a, m) /\ "pass" \in ToSet(run[a])})

\* The rows of a method are those it has when the methods ahead of it that pass have passed.
LEMMA RunClassRows ==
  ASSUME NEW project, NEW fqcn, NEW names, TopoSort(project, fqcn, names) \in Seq(STRING),
         \A i, j \in DOMAIN TopoSort(project, fqcn, names) :
           TopoSort(project, fqcn, names)[i] = TopoSort(project, fqcn, names)[j] => i = j
  PROVE  RunsInOrder(RunClass(project, fqcn, names), TopoSort(project, fqcn, names), project, fqcn)
<1> DEFINE order == TopoSort(project, fqcn, names)
           run == RunClass(project, fqcn, names)
           L == Len(order)
           passed == CHOOSE p : Passes(p, project, fqcn, order)
           at(m) == CHOOSE n \in DOMAIN order : order[n] = m
           passing == {m \in ToSet(order) : "pass" \in ToSet(run[m])}
<1>1. run = [m \in ToSet(order) |-> RowsOf(project, fqcn, m, passed[at(m) - 1])]
  BY Zenon DEF RunClass, RowsOf, Passes, PassedThen
<1>2. Passes(passed, project, fqcn, order)
  BY SomePass
<1>a. order \in Seq(STRING) /\ \A i, j \in DOMAIN order : order[i] = order[j] => i = j
  OBVIOUS
<1> HIDE DEF passed, order, run
<1>3. L \in Nat /\ DOMAIN order = 1 .. L
  BY <1>a
<1>4. \A n \in 1 .. L : order[n] \in ToSet(order) /\ at(order[n]) = n
  <2> SUFFICES ASSUME NEW n \in 1 .. L PROVE order[n] \in ToSet(order) /\ at(order[n]) = n
    OBVIOUS
  <2>1. n \in DOMAIN order /\ \A i \in DOMAIN order : order[i] = order[n] => i = n
    BY <1>a, <1>3
  <2> QED
    BY <2>1 DEF ToSet
<1> HIDE DEF at
<1>5. \A n \in 1 .. L : run[order[n]] = RowsOf(project, fqcn, order[n], passed[n - 1])
  BY <1>1, <1>4
<1>6. passed[0] = {} /\ \A n \in 1 .. L : passed[n] = IF order[n] \in passing THEN passed[n - 1] \cup {order[n]} ELSE passed[n - 1]
  <2>0. \A n \in 0 .. L : passed[n] = IF n = 0 THEN {} ELSE PassedThen(project, fqcn, order[n], passed[n - 1])
    BY <1>2 DEF Passes
  <2>1. passed[0] = {}
    BY <1>3, <2>0
  <2>2. \A n \in 1 .. L : passed[n] = PassedThen(project, fqcn, order[n], passed[n - 1])
    BY <1>3, <2>0
  <2> QED
    BY <1>4, <1>5, <2>1, <2>2 DEF PassedThen
<1> HIDE DEF passing
<1> DEFINE upto(n) == {order[i] : i \in {j \in 1 .. n : order[j] \in passing}}
<1>7. \A n \in 0 .. L : passed[n] = upto(n)
  <2> DEFINE T == {n \in Nat : n <= L => passed[n] = upto(n)}
  <2>1. 0 \in T
    <3>1. upto(0) = {}
      OBVIOUS
    <3> QED
      BY <1>6, <3>1
  <2>2. ASSUME NEW n \in T PROVE n + 1 \in T
    <3> SUFFICES ASSUME n + 1 <= L PROVE passed[n + 1] = upto(n + 1)
      OBVIOUS
    <3>0. n \in Nat /\ n + 1 \in 1 .. L /\ n + 1 - 1 = n
      BY <1>3
    <3>1. passed[n] = upto(n)
      BY <1>3
    <3>2. passed[n + 1] = IF order[n + 1] \in passing THEN passed[n] \cup {order[n + 1]} ELSE passed[n]
      <4> HIDE DEF upto, T
      <4>1. \A i \in 1 .. L : passed[i] = IF order[i] \in passing THEN passed[i - 1] \cup {order[i]} ELSE passed[i - 1]
        BY <1>6
      <4>2. PICK i \in 1 .. L : i = n + 1 /\ i - 1 = n
        BY <3>0
      <4>3. passed[i] = IF order[i] \in passing THEN passed[i - 1] \cup {order[i]} ELSE passed[i - 1]
        BY <4>1
      <4> QED BY <4>2, <4>3
    <3>3. \A j \in 1 .. n + 1 : j \in 1 .. n \/ j = n + 1
      OBVIOUS
    <3>4. upto(n + 1) = IF order[n + 1] \in passing THEN upto(n) \cup {order[n + 1]} ELSE upto(n)
      <4>1. \A j \in 1 .. n : j \in 1 .. n + 1
        OBVIOUS
      <4>2. n + 1 \in 1 .. n + 1
        OBVIOUS
      <4> QED
        BY <3>3, <4>1, <4>2
    <3> QED
      BY <3>1, <3>2, <3>4
  <2>3. T = Nat
    <3>1. T \subseteq Nat
      OBVIOUS
    <3> HIDE DEF T
    <3> QED
      BY <2>1, <2>2, <3>1, NatSetInduction
  <2>4. \A n \in Nat : n <= L => passed[n] = upto(n)
    BY <2>3
  <2>5. \A n \in 0 .. L : n \in Nat /\ n <= L
    BY <1>3
  <2> QED
    BY <2>4, <2>5
<1>8. ASSUME NEW n \in 1 .. L
      PROVE  passed[n - 1] = {a \in ToSet(order) : Ahead(order, a, order[n]) /\ a \in passing}
  <2>1. n - 1 \in 0 .. L /\ \A j \in 1 .. n - 1 : j \in 1 .. L /\ j < n
    BY <1>3
  <2>2. passed[n - 1] = upto(n - 1)
    BY <1>7, <2>1
  <2>3. \A a \in upto(n - 1) : a \in ToSet(order) /\ Ahead(order, a, order[n]) /\ a \in passing
    <3> SUFFICES ASSUME NEW a \in upto(n - 1) PROVE a \in ToSet(order) /\ Ahead(order, a, order[n]) /\ a \in passing
      OBVIOUS
    <3>1. PICK i \in 1 .. n - 1 : a = order[i] /\ order[i] \in passing
      OBVIOUS
    <3>2. i \in DOMAIN order /\ n \in DOMAIN order /\ i < n
      BY <1>3, <2>1
    <3> QED
      BY <3>1, <3>2 DEF Ahead, ToSet
  <2>4. \A a : Ahead(order, a, order[n]) /\ a \in passing => a \in upto(n - 1)
    <3> SUFFICES ASSUME NEW a, Ahead(order, a, order[n]), a \in passing PROVE a \in upto(n - 1)
      OBVIOUS
    <3>1. PICK i \in DOMAIN order, j \in DOMAIN order : i < j /\ order[i] = a /\ order[j] = order[n]
      BY DEF Ahead
    <3>2. j = n /\ i \in 1 .. n - 1
      BY <1>a, <1>3, <3>1
    <3> QED
      BY <3>1, <3>2
  <2> HIDE DEF upto
  <2> QED
    BY <2>2, <2>3, <2>4
<1>9. ASSUME NEW m \in ToSet(order)
      PROVE  run[m] = RowsOf(project, fqcn, m, {a \in ToSet(order) : Ahead(order, a, m) /\ a \in passing})
  <2>1. PICK n \in 1 .. L : order[n] = m
    BY <1>3 DEF ToSet
  <2> QED
    BY <1>5, <1>8, <2>1
<1>10. DOMAIN run = ToSet(order)
  BY <1>1
<1> QED
  <2>1. \A m : {a \in ToSet(order) : Ahead(order, a, m) /\ a \in passing}
               = {a \in ToSet(order) : Ahead(order, a, m) /\ "pass" \in ToSet(run[a])}
    BY DEF passing
  <2> QED
    BY <1>9, <1>10, <2>1 DEF RunsInOrder, order, run
\* What passed before a method counts only for what it depends on.
LEMMA SamePassed ==
  ASSUME NEW project, NEW fqcn, NEW m, NEW P, NEW Q,
         \A b \in ToSet(MethodIn(project, fqcn, m).depends) : b \in P <=> b \in Q
  PROVE  RowsOf(project, fqcn, m, P) = RowsOf(project, fqcn, m, Q)
<1> DEFINE D == ToSet(MethodIn(project, fqcn, m).depends)
<1>1. D \subseteq P <=> D \subseteq Q
  OBVIOUS
<1>2. ToSet(MethodIn(project, fqcn, m).depends) \subseteq P <=> ToSet(MethodIn(project, fqcn, m).depends) \subseteq Q
  BY <1>1
<1>3. CASE D \subseteq P
  BY <1>1, <1>3, Zenon DEF RowsOf, MethodRows
<1>4. CASE ~ (D \subseteq P)
  BY <1>1, <1>4, Zenon DEF RowsOf, MethodRows
<1> QED
  BY <1>3, <1>4

(* The methods N run in the order few, or with others in the order order.  *)
TwoRuns(run, order, turn, few, N, project, fqcn) ==
  /\ order \in Seq(STRING) /\ few \in Seq(STRING)
  /\ RunsInOrder(run, order, project, fqcn) /\ RunsInOrder(turn, few, project, fqcn)
  /\ SameOrder(order, few, N) /\ ToSet(few) = N /\ N \subseteq ToSet(order)
  /\ \A i, j \in DOMAIN few : few[i] = few[j] => i = j
  /\ \A m \in N : \A b \in ToSet(MethodIn(project, fqcn, m).depends) : b \in N \/ b \notin ToSet(order)

\* Methods that are put in the same order, and depend on no others of their class, have the same rows.
LEMMA RunsAlike ==
  ASSUME NEW project, NEW fqcn, NEW N, NEW run, NEW order, NEW turn, NEW few,
         TwoRuns(run, order, turn, few, N, project, fqcn)
  PROVE  \A m \in N : turn[m] = run[m]
<1>0. /\ order \in Seq(STRING) /\ few \in Seq(STRING)
      /\ RunsInOrder(run, order, project, fqcn) /\ RunsInOrder(turn, few, project, fqcn)
      /\ SameOrder(order, few, N) /\ ToSet(few) = N /\ N \subseteq ToSet(order)
      /\ \A i, j \in DOMAIN few : few[i] = few[j] => i = j
      /\ \A m \in N : \A b \in ToSet(MethodIn(project, fqcn, m).depends) : b \in N \/ b \notin ToSet(order)
  BY DEF TwoRuns
<1> DEFINE L == Len(few)
           T == {n \in Nat : \A i \in 1 .. L : i <= n => turn[few[i]] = run[few[i]]}
<1>1. L \in Nat /\ DOMAIN few = 1 .. L
  BY <1>0
<1>2. \A i \in 1 .. L : few[i] \in N
  BY <1>0, <1>1 DEF ToSet
<1>3. 0 \in T
  BY <1>1
<1>4. ASSUME NEW n \in T PROVE n + 1 \in T
  <2>1. \A i \in 1 .. L : i <= n => turn[few[i]] = run[few[i]]
    OBVIOUS
  <2>2. ASSUME n + 1 \in 1 .. L PROVE turn[few[n + 1]] = run[few[n + 1]]
    <3> DEFINE m == few[n + 1]
               P == {a \in ToSet(few) : Ahead(few, a, m) /\ "pass" \in ToSet(turn[a])}
               Q == {a \in ToSet(order) : Ahead(order, a, m) /\ "pass" \in ToSet(run[a])}
    <3>1. m \in N /\ m \in ToSet(few) /\ m \in ToSet(order)
      BY <1>0, <1>2, <2>2
    <3>2. turn[m] = RowsOf(project, fqcn, m, P) /\ run[m] = RowsOf(project, fqcn, m, Q)
      BY <1>0, <3>1 DEF RunsInOrder
    <3>3. ASSUME NEW b \in N PROVE Ahead(few, b, m) => turn[b] = run[b]
      <4> SUFFICES ASSUME Ahead(few, b, m) PROVE turn[b] = run[b]
        OBVIOUS
      <4>1. PICK i \in DOMAIN few, j \in DOMAIN few : i < j /\ few[i] = b /\ few[j] = m
        BY DEF Ahead
      <4>2. j = n + 1 /\ i \in 1 .. L /\ i <= n
        BY <1>0, <1>1, <2>2, <4>1
      <4> QED
        BY <2>1, <4>1, <4>2
    <3>4. ASSUME NEW b \in N PROVE b \in P <=> b \in Q
      <4>1. Ahead(few, b, m) <=> Ahead(order, b, m)
        BY <1>0, <3>1 DEF SameOrder
      <4>2. b \in ToSet(few) /\ b \in ToSet(order)
        BY <1>0
      <4> HIDE DEF m
      <4> QED
        BY <3>3, <4>1, <4>2
    <3>5. \A b \in ToSet(MethodIn(project, fqcn, m).depends) : b \in P <=> b \in Q
      <4> SUFFICES ASSUME NEW b \in ToSet(MethodIn(project, fqcn, m).depends), b \notin N
                   PROVE  b \in P <=> b \in Q
        BY <3>4
      <4>1. b \notin ToSet(order) /\ b \notin ToSet(few)
        BY <1>0, <3>1
      <4> QED
        BY <4>1
    <3> HIDE DEF m, P, Q
    <3>6. RowsOf(project, fqcn, m, P) = RowsOf(project, fqcn, m, Q)
      BY <3>5, SamePassed
    <3> QED
      BY <3>2, <3>6 DEF m
  <2>3. \A i \in 1 .. L : i <= n + 1 => i <= n \/ i = n + 1
    BY <1>1
  <2> QED
    BY <2>1, <2>2, <2>3
<1>5. T = Nat
  <2>1. T \subseteq Nat
    OBVIOUS
  <2> HIDE DEF T
  <2> QED
    BY <1>3, <1>4, <2>1, NatSetInduction
<1>6. \A i \in 1 .. L : turn[few[i]] = run[few[i]]
  <2>1. L \in T
    BY <1>1, <1>5
  <2>2. \A i \in 1 .. L : i <= L
    BY <1>1
  <2> QED
    BY <2>1, <2>2
<1> QED
  BY <1>0, <1>1, <1>6 DEF ToSet

(* A part of a class that is set apart, run by itself, ends as it does in  *)
(* a run with the others.                                                  *)
THEOREM PartRunsAlike ==
  ASSUME NEW project, NEW fqcn, NEW part, NEW names, NEW N,
         SetApart(part, Runnable(project, fqcn, part), names, Runnable(project, fqcn, names), N)
  PROVE  LET turn == RunClass(project, fqcn, part)
             run == RunClass(project, fqcn, names)
         IN \A m \in N : m \in DOMAIN turn /\ m \in DOMAIN run /\ turn[m] = run[m]
<1> DEFINE e == Runnable(project, fqcn, part)
           d == Runnable(project, fqcn, names)
           few == TopoSort(project, fqcn, part)
           order == TopoSort(project, fqcn, names)
           turn == RunClass(project, fqcn, part)
           run == RunClass(project, fqcn, names)
<1>1. /\ Batch(part, e) /\ Batch(names, d) /\ DOMAIN e = N /\ N \subseteq DOMAIN d
      /\ \A m \in N : \A b \in ToSet(d[m]) : b \in N \/ b \notin DOMAIN d
  BY DEF SetApart
<1>2. /\ few \in Seq(STRING) /\ ToSet(few) = N
      /\ \A i, j \in DOMAIN few : few[i] = few[j] => i = j
  BY <1>1, TopoSortRuns
<1>3. /\ order \in Seq(STRING) /\ ToSet(order) = DOMAIN d
      /\ \A i, j \in DOMAIN order : order[i] = order[j] => i = j
  BY <1>1, TopoSortRuns
<1>4. RunsInOrder(turn, few, project, fqcn) /\ RunsInOrder(run, order, project, fqcn)
  BY <1>2, <1>3, RunClassRows
<1>5. SameOrder(order, few, N)
  <2>1. PICK f : \E M \in Nat : order = f[M].out /\ Sorts(f, M, names, d)
    BY <1>1, TurnsRun
  <2>2. PICK M \in Nat : order = f[M].out /\ Sorts(f, M, names, d)
    BY <2>1
  <2>3. PICK g : \E K \in Nat : few = g[K].out /\ Sorts(g, K, part, e)
    BY <1>1, TurnsRun
  <2>4. PICK K \in Nat : few = g[K].out /\ Sorts(g, K, part, e)
    BY <2>3
  <2> HIDE DEF order, few, d, e
  <2>5. SetApart(part, e, names, d, N)
    BY DEF d, e
  <2> QED
    BY <2>2, <2>4, <2>5, PartSortsAlike
<1>6. \A m \in N : d[m] = MethodIn(project, fqcn, m).depends
  BY <1>1 DEF Runnable
<1> HIDE DEF order, few, d, e, turn, run
<1>7. \A m \in N : \A b \in ToSet(MethodIn(project, fqcn, m).depends) : b \in N \/ b \notin ToSet(order)
  BY <1>1, <1>3, <1>6
<1>8. \A m \in N : turn[m] = run[m]
  <2>1. TwoRuns(run, order, turn, few, N, project, fqcn)
    BY <1>1, <1>2, <1>3, <1>4, <1>5, <1>7 DEF TwoRuns
  <2> QED
    BY <2>1, RunsAlike
<1>9. \A m \in N : m \in DOMAIN turn /\ m \in DOMAIN run
  BY <1>1, <1>2, <1>3, <1>4 DEF RunsInOrder
<1> QED
  BY <1>8, <1>9 DEF turn, run
=============================================================================
