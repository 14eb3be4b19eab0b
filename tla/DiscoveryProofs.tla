---------------------------- MODULE DiscoveryProofs ----------------------------
(***************************************************************************)
(* Discovery, for every project PHP can load: the cases emitted for a test *)
(* class are its methods as PHP resolves them, inherited and trait methods *)
(* included, each once.  Why: the walk of collect_trait_sources tells what *)
(* the traits of a class answer, though it skips what it met before; the   *)
(* sources of a class tell what its chain answers, level by level; the     *)
(* first of each name is the nearest; and the names is_test_class_via_chain*)
(* and resolve_vendor_bases grow are closed when they stop.                *)
(***************************************************************************)
EXTENDS PlanningProofs

(* A recursion that goes from one argument to the next, and appends.       *)
Unfolded(f, x, stop, skip, pre, next) ==
  IF x \in stop THEN <<>> ELSE IF x \in skip THEN f[next[x]] ELSE pre[x] \o f[next[x]]

Unfolds(f, D, stop, skip, pre, next) == f = [x \in D |-> Unfolded(f, x, stop, skip, pre, next)]

UnfoldsTo(n, f, D, size, stop, skip, pre, next) ==
  /\ f = [x \in D |-> f[x]]
  /\ \A x \in D : size[x] <= n => f[x] = Unfolded(f, x, stop, skip, pre, next)

Shrinks(D, size, stop, next) ==
  /\ \A x \in D : size[x] \in Nat
  /\ \A x \in D \ stop : next[x] \in D /\ size[next[x]] < size[x]

\* A recursion whose argument shrinks can be carried any number of turns ...
LEMMA UnfoldsFar ==
  ASSUME NEW D, NEW size, NEW stop, NEW skip, NEW pre, NEW next, Shrinks(D, size, stop, next), NEW n \in Nat
  PROVE  \E f : UnfoldsTo(n, f, D, size, stop, skip, pre, next)
<1> DEFINE T == {k \in Nat : \E f : UnfoldsTo(k, f, D, size, stop, skip, pre, next)}
<1>1. 0 \in T
  <2> DEFINE f == [x \in D |-> <<>>]
  <2>1. \A x \in D : size[x] <= 0 => x \in stop
    BY DEF Shrinks
  <2>2. UnfoldsTo(0, f, D, size, stop, skip, pre, next)
    BY <2>1 DEF UnfoldsTo, Unfolded
  <2> QED
    BY <2>2
<1>2. ASSUME NEW k \in T PROVE k + 1 \in T
  <2>1. k \in Nat /\ k + 1 \in Nat
    OBVIOUS
  <2>2. PICK f : UnfoldsTo(k, f, D, size, stop, skip, pre, next)
    BY <1>2
  <2> DEFINE g == [x \in D |-> Unfolded(f, x, stop, skip, pre, next)]
  <2>3. \A x \in D : g[x] = Unfolded(f, x, stop, skip, pre, next)
    OBVIOUS
  <2>4. g = [x \in D |-> g[x]]
    OBVIOUS
  <2> HIDE DEF g, T
  <2>5. ASSUME NEW x \in D, size[x] <= k + 1
        PROVE  g[x] = Unfolded(g, x, stop, skip, pre, next)
    <3>1. x \notin stop => f[next[x]] = g[next[x]]
      <4> SUFFICES ASSUME x \notin stop PROVE f[next[x]] = g[next[x]]
        OBVIOUS
      <4>1. next[x] \in D /\ size[next[x]] <= k
        BY <2>1, <2>5 DEF Shrinks
      <4> QED
        BY <2>2, <2>3, <4>1 DEF UnfoldsTo
    <3> QED
      BY <2>3, <3>1 DEF Unfolded
  <2>6. UnfoldsTo(k + 1, g, D, size, stop, skip, pre, next)
    BY <2>4, <2>5 DEF UnfoldsTo
  <2> QED
    BY <2>1, <2>6 DEF T
<1>3. T = Nat
  <2>1. T \subseteq Nat
    OBVIOUS
  <2> HIDE DEF T
  <2> QED
    BY <1>1, <1>2, <2>1, NatSetInduction
<1> QED
  BY <1>3

\* ... and two such agree as far as both go.
LEMMA UnfoldsAlike ==
  ASSUME NEW D, NEW size, NEW stop, NEW skip, NEW pre, NEW next, Shrinks(D, size, stop, next),
         NEW a \in Nat, NEW b \in Nat, NEW f, NEW g,
         UnfoldsTo(a, f, D, size, stop, skip, pre, next), UnfoldsTo(b, g, D, size, stop, skip, pre, next)
  PROVE  \A x \in D : size[x] <= a /\ size[x] <= b => f[x] = g[x]
<1> DEFINE T == {k \in Nat : \A x \in D : size[x] <= k /\ size[x] <= a /\ size[x] <= b => f[x] = g[x]}
<1>0. \A x \in D : size[x] \in Nat
  BY DEF Shrinks
<1>1. 0 \in T
  <2>1. \A x \in D : size[x] <= 0 => x \in stop
    BY DEF Shrinks
  <2> QED
    BY <2>1 DEF UnfoldsTo, Unfolded
<1>2. ASSUME NEW k \in T PROVE k + 1 \in T
  <2>1. k \in Nat /\ k + 1 \in Nat
    OBVIOUS
  <2>2. \A x \in D : size[x] <= k /\ size[x] <= a /\ size[x] <= b => f[x] = g[x]
    OBVIOUS
  <2>3. ASSUME NEW x \in D, size[x] <= k + 1, size[x] <= a, size[x] <= b PROVE f[x] = g[x]
    <3>1. ASSUME x \notin stop PROVE f[next[x]] = g[next[x]]
      <4>1. next[x] \in D /\ size[next[x]] \in Nat /\ size[next[x]] < size[x] /\ size[x] \in Nat
        BY <1>0, <3>1 DEF Shrinks
      <4>2. size[next[x]] <= k /\ size[next[x]] <= a /\ size[next[x]] <= b
        BY <2>1, <2>3, <4>1
      <4> QED
        BY <2>2, <4>1, <4>2
    <3> QED
      BY <2>3, <3>1 DEF UnfoldsTo, Unfolded
  <2> QED
    BY <2>1, <2>3
<1>3. T = Nat
  <2>1. T \subseteq Nat
    OBVIOUS
  <2> HIDE DEF T
  <2> QED
    BY <1>1, <1>2, <2>1, NatSetInduction
<1> SUFFICES ASSUME NEW x \in D, size[x] <= a, size[x] <= b PROVE f[x] = g[x]
  OBVIOUS
<1>4. size[x] \in T /\ size[x] <= size[x]
  BY <1>0, <1>3
<1> QED
  BY <1>4

\* So there is such a function.
LEMMA UnfoldingExists ==
  ASSUME NEW D, NEW size, NEW stop, NEW skip, NEW pre, NEW next, Shrinks(D, size, stop, next)
  PROVE  \E f : Unfolds(f, D, stop, skip, pre, next)
<1> DEFINE H == [n \in Nat |-> CHOOSE h : UnfoldsTo(n, h, D, size, stop, skip, pre, next)]
           f == [x \in D |-> H[size[x]][x]]
<1>1. \A n \in Nat : UnfoldsTo(n, H[n], D, size, stop, skip, pre, next)
  BY UnfoldsFar
<1>2. \A x \in D : f[x] = H[size[x]][x]
  OBVIOUS
<1>3. f = [x \in D |-> f[x]]
  OBVIOUS
<1> HIDE DEF H, f
<1>4. ASSUME NEW x \in D PROVE f[x] = Unfolded(f, x, stop, skip, pre, next)
  <2> DEFINE h == H[size[x]]
  <2>1. size[x] \in Nat /\ size[x] <= size[x]
    BY DEF Shrinks
  <2>2. UnfoldsTo(size[x], h, D, size, stop, skip, pre, next)
    BY <1>1, <2>1
  <2>3. f[x] = Unfolded(h, x, stop, skip, pre, next)
    BY <1>2, <2>1, <2>2 DEF UnfoldsTo
  <2>4. ASSUME x \notin stop PROVE f[next[x]] = h[next[x]]
    <3>1. /\ next[x] \in D /\ size[next[x]] \in Nat
          /\ size[next[x]] <= size[next[x]] /\ size[next[x]] <= size[x]
      BY <2>1, <2>4 DEF Shrinks
    <3>2. UnfoldsTo(size[next[x]], H[size[next[x]]], D, size, stop, skip, pre, next)
      BY <1>1, <3>1
    <3> HIDE DEF h
    <3> QED
      BY <1>2, <2>1, <2>2, <3>1, <3>2, UnfoldsAlike
  <2> QED
    BY <2>3, <2>4 DEF Unfolded
<1>5. f = [x \in D |-> Unfolded(f, x, stop, skip, pre, next)]
  BY <1>3, <1>4
<1> QED
  BY <1>5 DEF Unfolds

(* A search for what the first of those above x that own anything own.     *)
Looked(f, x, own, above) == IF own[x] # {} THEN own[x] ELSE UNION {f[y] : y \in above[x]}
LooksUp(f, D, own, above) == f = [x \in D |-> Looked(f, x, own, above)]

\* Such a search has a result, whatever leads to what: the least sets that hold what they have to.
LEMMA LookupExists ==
  ASSUME NEW D, NEW own, NEW above, \A x \in D : above[x] \subseteq D
  PROVE  \E f : LooksUp(f, D, own, above)
<1> DEFINE M == UNION {own[x] : x \in D}
           Holds(g, x) == Looked(g, x, own, above) \subseteq g[x]
           C == {g \in [D -> SUBSET M] : \A x \in D : Holds(g, x)}
           f == [x \in D |-> {m \in M : \A g \in C : m \in g[x]}]
<1>1. f \in [D -> SUBSET M] /\ \A g \in C : \A x \in D : f[x] \subseteq g[x]
  OBVIOUS
<1>2. \A x \in D : \A N \in SUBSET M : (\A g \in C : N \subseteq g[x]) => N \subseteq f[x]
  OBVIOUS
<1>3. \A g \in C : /\ g \in [D -> SUBSET M]
                   /\ \A x \in D : Looked(g, x, own, above) \subseteq g[x]
  OBVIOUS
<1>4. \A g \in [D -> SUBSET M] : (\A x \in D : Looked(g, x, own, above) \subseteq g[x]) => g \in C
  OBVIOUS
<1>5. \A x \in D : own[x] \subseteq M
  OBVIOUS
<1> HIDE DEF f, C, M
<1>6. \A x \in D : \A g \in [D -> SUBSET M] : Looked(g, x, own, above) \subseteq M
  BY <1>5 DEF Looked
<1>7. \A x \in D : \A g, h \in [D -> SUBSET M] : (\A y \in D : g[y] \subseteq h[y]) =>
        Looked(g, x, own, above) \subseteq Looked(h, x, own, above)
  BY DEF Looked
<1>8. ASSUME NEW x \in D PROVE Looked(f, x, own, above) \subseteq f[x]
  <2>1. ASSUME NEW g \in C PROVE Looked(f, x, own, above) \subseteq g[x]
    <3>1. g \in [D -> SUBSET M] /\ Looked(g, x, own, above) \subseteq g[x] /\ \A y \in D : f[y] \subseteq g[y]
      BY <1>1, <1>3
    <3>2. Looked(f, x, own, above) \subseteq Looked(g, x, own, above)
      BY <1>1, <1>7, <3>1
    <3> QED
      BY <3>1, <3>2
  <2> QED
    BY <1>1, <1>2, <1>6, <2>1
<1>9. ASSUME NEW x \in D PROVE f[x] \subseteq Looked(f, x, own, above)
  <2> DEFINE h == [y \in D |-> IF y = x THEN Looked(f, x, own, above) ELSE f[y]]
  <2>1. h \in [D -> SUBSET M] /\ h[x] = Looked(f, x, own, above) /\ \A y \in D : y # x => h[y] = f[y]
    BY <1>1, <1>6
  <2>2. \A y \in D : h[y] \subseteq f[y]
    BY <1>8, <2>1
  <2> HIDE DEF h
  <2>3. ASSUME NEW y \in D PROVE Looked(h, y, own, above) \subseteq h[y]
    <3>1. Looked(h, y, own, above) \subseteq Looked(f, y, own, above)
      BY <1>1, <1>7, <2>1, <2>2
    <3> QED
      BY <1>8, <2>1, <3>1
  <2>4. h \in C
    BY <1>4, <2>1, <2>3
  <2> QED
    BY <1>1, <2>1, <2>4
<1>10. f = [x \in D |-> f[x]]
  BY <1>1
<1>11. \A x \in D : f[x] = Looked(f, x, own, above)
  BY <1>8, <1>9
<1>12. f = [x \in D |-> Looked(f, x, own, above)]
  BY <1>10, <1>11
<1> QED
  BY <1>12 DEF LooksUp

\* What holds where the recursion stops and follows from the next argument's holds of all.
LEMMA ShrinksAll ==
  ASSUME NEW D, NEW size, NEW stop, NEW next, Shrinks(D, size, stop, next), NEW P,
         \A x \in D : (x \notin stop => next[x] \in P) => x \in P
  PROVE  D \subseteq P
<1> DEFINE T == {k \in Nat : \A x \in D : size[x] <= k => x \in P}
<1>0. \A x \in D : size[x] \in Nat
  BY DEF Shrinks
<1>1. 0 \in T
  <2>1. \A x \in D : size[x] <= 0 => x \in stop
    BY DEF Shrinks
  <2> QED
    BY <2>1
<1>2. ASSUME NEW k \in T PROVE k + 1 \in T
  <2>1. k \in Nat /\ k + 1 \in Nat
    OBVIOUS
  <2>2. \A x \in D : size[x] <= k => x \in P
    OBVIOUS
  <2>3. ASSUME NEW x \in D, size[x] <= k + 1 PROVE x \in P
    <3>1. ASSUME x \notin stop PROVE next[x] \in P
      <4>1. next[x] \in D /\ size[next[x]] \in Nat /\ size[next[x]] < size[x] /\ size[x] \in Nat
        BY <1>0, <3>1 DEF Shrinks
      <4>2. size[next[x]] <= k
        BY <2>1, <2>3, <4>1
      <4> QED
        BY <2>2, <4>1, <4>2
    <3> QED
      BY <3>1
  <2> QED
    BY <2>1, <2>3
<1>3. T = Nat
  <2>1. T \subseteq Nat
    OBVIOUS
  <2> HIDE DEF T
  <2> QED
    BY <1>1, <1>2, <2>1, NatSetInduction
<1> SUFFICES ASSUME NEW x \in D PROVE x \in P
  OBVIOUS
<1>4. size[x] \in T /\ size[x] <= size[x]
  BY <1>0, <1>3
<1> QED
  BY <1>4

(* Who is the first of a sequence of classes to define a method.           *)
FirstIn(s, n, x) ==
  \E p \in DOMAIN s : s[p] = x /\ Defined(x, n) # {} /\ \A q \in 1 .. p - 1 : Defined(s[q], n) = {}

Misses(s, n) == \A p \in DOMAIN s : Defined(s[p], n) = {}

(* The one sequence followed by the other.                                 *)
Joined(s, t, st) ==
  /\ ToSet(st) = ToSet(s) \cup ToSet(t)
  /\ DOMAIN s = 1 .. Len(s) /\ DOMAIN t = 1 .. Len(t) /\ DOMAIN st = 1 .. Len(s) + Len(t)
  /\ Len(s) \in Nat /\ Len(t) \in Nat /\ Len(st) = Len(s) + Len(t)
  /\ \A p \in 1 .. Len(s) : st[p] = s[p]
  /\ \A p \in 1 .. Len(t) : st[Len(s) + p] = t[p]
  /\ \A p \in 1 .. Len(s) + Len(t) : p \in 1 .. Len(s) \/ \E q \in 1 .. Len(t) : p = Len(s) + q

\* So are two sequences when they are put together.
LEMMA BothAre ==
  ASSUME NEW S, NEW s \in Seq(S), NEW t \in Seq(S)
  PROVE  s \o t \in Seq(S) /\ Joined(s, t, s \o t)
<1>1. /\ s \o t \in Seq(S)
      /\ DOMAIN s = 1 .. Len(s) /\ DOMAIN t = 1 .. Len(t)
      /\ Len(s) \in Nat /\ Len(t) \in Nat /\ Len(s \o t) = Len(s) + Len(t)
      /\ DOMAIN (s \o t) = 1 .. Len(s) + Len(t)
      /\ \A p \in 1 .. Len(s) : (s \o t)[p] = s[p]
      /\ \A p \in 1 .. Len(t) : (s \o t)[Len(s) + p] = t[p]
  OBVIOUS
<1>2. ASSUME NEW p \in 1 .. Len(s) + Len(t), p \notin 1 .. Len(s)
      PROVE  \E q \in 1 .. Len(t) : p = Len(s) + q
  <2>1. p - Len(s) \in 1 .. Len(t) /\ p = Len(s) + (p - Len(s))
    BY <1>1, <1>2
  <2> QED
    BY <2>1
<1>3. \A p \in 1 .. Len(t) : Len(s) + p \in 1 .. Len(s) + Len(t)
  BY <1>1
<1>4. \A p \in 1 .. Len(s) : p \in 1 .. Len(s) + Len(t)
  BY <1>1
<1>5. ToSet(s \o t) = ToSet(s) \cup ToSet(t)
  <2>1. ASSUME NEW y \in ToSet(s \o t) PROVE y \in ToSet(s) \cup ToSet(t)
    <3>1. PICK p \in 1 .. Len(s) + Len(t) : y = (s \o t)[p]
      BY <1>1 DEF ToSet
    <3>2. CASE p \in 1 .. Len(s)
      BY <1>1, <3>1, <3>2 DEF ToSet
    <3>3. CASE p \notin 1 .. Len(s)
      BY <1>1, <1>2, <3>1, <3>3 DEF ToSet
    <3> QED
      BY <3>2, <3>3
  <2>2. \A y \in ToSet(s) : y \in ToSet(s \o t)
    BY <1>1, <1>4 DEF ToSet
  <2>3. \A y \in ToSet(t) : y \in ToSet(s \o t)
    BY <1>1, <1>3 DEF ToSet
  <2> QED
    BY <2>1, <2>2, <2>3
<1> QED
  BY <1>1, <1>2, <1>5 DEF Joined

\* None in two sequences defines a method if none does in either.
LEMMA MissedByBoth ==
  ASSUME NEW S, NEW s \in Seq(S), NEW t \in Seq(S), NEW n
  PROVE  Misses(s \o t, n) <=> Misses(s, n) /\ Misses(t, n)
<1>0. Joined(s, t, s \o t)
  BY BothAre
<1>1. ASSUME Misses(s \o t, n) PROVE Misses(s, n) /\ Misses(t, n)
  <2>1. /\ \A p \in 1 .. Len(s) : p \in 1 .. Len(s) + Len(t)
        /\ \A p \in 1 .. Len(t) : Len(s) + p \in 1 .. Len(s) + Len(t)
    BY <1>0 DEF Joined
  <2>2. Misses(s, n)
    BY <1>0, <1>1, <2>1 DEF Joined, Misses
  <2>3. Misses(t, n)
    BY <1>0, <1>1, <2>1 DEF Joined, Misses
  <2> QED
    BY <2>2, <2>3
<1>2. ASSUME Misses(s, n), Misses(t, n) PROVE Misses(s \o t, n)
  <2> SUFFICES ASSUME NEW p \in 1 .. Len(s) + Len(t) PROVE Defined((s \o t)[p], n) = {}
    BY <1>0 DEF Joined, Misses
  <2>1. CASE p \in 1 .. Len(s)
    BY <1>0, <1>2, <2>1 DEF Joined, Misses
  <2>2. CASE p \notin 1 .. Len(s)
    BY <1>0, <1>2, <2>2 DEF Joined, Misses
  <2> QED
    BY <2>1, <2>2
<1> QED
  BY <1>1, <1>2

\* The first in two sequences is that of the first, or of the second if the first has none.
LEMMA FirstOfBoth ==
  ASSUME NEW S, NEW s \in Seq(S), NEW t \in Seq(S), NEW n, NEW x, FirstIn(s \o t, n, x)
  PROVE  FirstIn(s, n, x) \/ (Misses(s, n) /\ FirstIn(t, n, x))
<1>0. Joined(s, t, s \o t)
  BY BothAre
<1>1. PICK p \in 1 .. Len(s) + Len(t) :
        (s \o t)[p] = x /\ Defined(x, n) # {} /\ \A q \in 1 .. p - 1 : Defined((s \o t)[q], n) = {}
  BY <1>0 DEF Joined, FirstIn
<1>2. CASE p \in 1 .. Len(s)
  <2>1. \A q \in 1 .. p - 1 : q \in 1 .. Len(s)
    BY <1>0, <1>2 DEF Joined
  <2> QED
    BY <1>0, <1>1, <1>2, <2>1 DEF Joined, FirstIn
<1>3. CASE p \notin 1 .. Len(s)
  <2>1. PICK r \in 1 .. Len(t) : p = Len(s) + r
    BY <1>0, <1>3 DEF Joined
  <2>2. \A q \in 1 .. Len(s) : q \in 1 .. p - 1
    BY <1>0, <2>1 DEF Joined
  <2>3. Misses(s, n)
    BY <1>0, <1>1, <2>2 DEF Joined, Misses
  <2>4. \A q \in 1 .. r - 1 : q \in 1 .. Len(t) /\ Len(s) + q \in 1 .. p - 1
    BY <1>0, <2>1 DEF Joined
  <2>5. /\ r \in DOMAIN t /\ t[r] = x /\ Defined(x, n) # {}
        /\ \A q \in 1 .. r - 1 : Defined(t[q], n) = {}
    BY <1>0, <1>1, <2>1, <2>4 DEF Joined
  <2>6. FirstIn(t, n, x)
    BY <2>5 DEF FirstIn
  <2> QED
    BY <2>3, <2>6
<1> QED
  BY <1>2, <1>3

\* A sequence with a head and a tail.
LEMMA HeadComesFirst ==
  ASSUME NEW S, NEW q \in Seq(S), q # <<>>
  PROVE  /\ Head(q) \in S /\ Tail(q) \in Seq(S) /\ q = <<Head(q)>> \o Tail(q)
         /\ Len(Tail(q)) = Len(q) - 1 /\ Len(q) \in Nat \ {0}
         /\ ToSet(q) = {Head(q)} \cup ToSet(Tail(q))
<1>1. Head(q) \in S /\ Tail(q) \in Seq(S)
  OBVIOUS
<1>2. q = <<Head(q)>> \o Tail(q)
  OBVIOUS
<1>3. Len(Tail(q)) = Len(q) - 1
  OBVIOUS
<1>4. Len(q) \in Nat \ {0}
  OBVIOUS
<1>5. <<Head(q)>> \in Seq(S) /\ ToSet(<<Head(q)>>) = {Head(q)}
  BY <1>1 DEF ToSet
<1>6. Joined(<<Head(q)>>, Tail(q), <<Head(q)>> \o Tail(q))
  BY <1>1, <1>5, BothAre
<1>7. ToSet(q) = {Head(q)} \cup ToSet(Tail(q))
  BY <1>2, <1>5, <1>6 DEF Joined
<1> QED
  BY <1>1, <1>2, <1>3, <1>4, <1>7

(* Classes with proper names, each defined once.                           *)
Tidy(classes) ==
  /\ IsFiniteSet(classes)
  /\ \A c \in classes : c.fqcn \in STRING /\ c.uses \in Seq(STRING)
  /\ \A c, d \in classes : c.fqcn = d.fqcn => c = d

(* collect_trait_sources: what is left to do, and what was met.            *)
Walks == [todo : Seq(STRING), visited : SUBSET STRING]

NextTraits(at, classes) ==
  IF Head(at.todo) \in at.visited THEN {}
  ELSE {c \in Named(classes, Head(at.todo)) : c.kind = "trait"}
NextTrait(at, classes) == CHOOSE c \in NextTraits(at, classes) : TRUE
After(at, uses) == [todo |-> uses \o Tail(at.todo), visited |-> at.visited \cup {Head(at.todo)}]

Arrived == {at \in Walks : at.todo = <<>>}
Passed(classes) == {at \in Walks : NextTraits(at, classes) = {}}
Onward(classes) ==
  [at \in Walks |-> IF NextTraits(at, classes) = {} THEN After(at, <<>>)
                    ELSE After(at, NextTrait(at, classes).uses)]
Collected(classes) == [at \in Walks |-> <<NextTrait(at, classes)>>]

Walked(f, classes) ==
  Unfolds(f, Walks, Arrived, Passed(classes), Collected(classes), Onward(classes))

\* collect_trait_sources is that recursion.
LEMMA TraitSourcesWalk ==
  ASSUME NEW names \in Seq(STRING), NEW met \in SUBSET STRING, NEW classes
  PROVE  TraitSources(names, met, classes)
           = (CHOOSE f : Walked(f, classes))[[todo |-> names, visited |-> met]]
<1> DEFINE Body(f, at) ==
             IF at.todo = <<>> THEN <<>>
             ELSE LET t == Head(at.todo)
                      traits == IF t \in at.visited THEN {}
                                ELSE {c \in Named(classes, t) : c.kind = "trait"}
                      later(uses) == f[[ todo |-> uses \o Tail(at.todo),
                                         visited |-> at.visited \cup {t} ]]
                  IN IF traits = {} THEN later(<<>>)
                     ELSE LET c == CHOOSE c \in traits : TRUE IN <<c>> \o later(c.uses)
<1>1. ASSUME NEW f, NEW at \in Walks
      PROVE  Body(f, at) = Unfolded(f, at, Arrived, Passed(classes), Collected(classes), Onward(classes))
  BY DEF Unfolded, Arrived, Passed, Collected, Onward, NextTraits, NextTrait, After
<1>2. ASSUME NEW f
      PROVE  f = [at \in Walks |-> Body(f, at)] <=> Walked(f, classes)
  <2>1. [at \in Walks |-> Body(f, at)]
          = [at \in Walks |-> Unfolded(f, at, Arrived, Passed(classes), Collected(classes), Onward(classes))]
    BY <1>1
  <2> QED
    BY <2>1 DEF Walked, Unfolds
<1>3. (CHOOSE f : f = [at \in Walks |-> Body(f, at)]) = CHOOSE f : Walked(f, classes)
  BY <1>2
<1> QED
  BY <1>3 DEF TraitSources, Walks

\* A walk's next trait is one it has not met; where it goes on is a walk again.
LEMMA WalkGoesOn ==
  ASSUME NEW classes, Tidy(classes), NEW at \in Walks \ Arrived
  PROVE  LET t == Head(at.todo)
             c == NextTrait(at, classes)
             next == Onward(classes)[at]
         IN /\ t \in STRING /\ Tail(at.todo) \in Seq(STRING) /\ ToSet(at.todo) = {t} \cup ToSet(Tail(at.todo))
            /\ Len(Tail(at.todo)) = Len(at.todo) - 1 /\ Len(at.todo) \in Nat \ {0}
            /\ next \in Walks /\ next.visited = at.visited \cup {t}
            /\ NextTraits(at, classes) = {} =>
                 /\ next.todo = Tail(at.todo)
                 /\ t \in at.visited \/ \A v \in classes : v.kind = "trait" => v.fqcn # t
            /\ NextTraits(at, classes) # {} =>
                 /\ c \in classes /\ c.fqcn = t /\ c.kind = "trait" /\ t \notin at.visited
                 /\ next.todo = c.uses \o Tail(at.todo)
<1> DEFINE t == Head(at.todo)
           c == NextTrait(at, classes)
           next == Onward(classes)[at]
<1>1. at.todo \in Seq(STRING) /\ at.todo # <<>> /\ at.visited \in SUBSET STRING
  BY DEF Walks, Arrived
<1>2. /\ t \in STRING /\ Tail(at.todo) \in Seq(STRING)
      /\ Len(Tail(at.todo)) = Len(at.todo) - 1 /\ Len(at.todo) \in Nat \ {0}
  BY <1>1, HeadComesFirst
<1>3. ToSet(at.todo) = {t} \cup ToSet(Tail(at.todo))
  BY <1>1, HeadComesFirst
<1>4. next = IF NextTraits(at, classes) = {} THEN After(at, <<>>) ELSE After(at, c.uses)
  BY DEF Onward
<1>5. CASE NextTraits(at, classes) = {}
  <2>1. next = [todo |-> <<>> \o Tail(at.todo), visited |-> at.visited \cup {t}]
    BY <1>4, <1>5 DEF After
  <2>2. <<>> \o Tail(at.todo) = Tail(at.todo)
    BY <1>2
  <2>3. next \in Walks /\ next.visited = at.visited \cup {t} /\ next.todo = Tail(at.todo)
    BY <1>1, <1>2, <2>1, <2>2 DEF Walks
  <2>4. t \in at.visited \/ \A v \in classes : v.kind = "trait" => v.fqcn # t
    BY <1>5 DEF NextTraits, Named
  <2> HIDE DEF t, next, c
  <2> QED
    BY <1>2, <1>3, <1>5, <2>3, <2>4 DEF t, next, c
<1>6. CASE NextTraits(at, classes) # {}
  <2>1. c \in NextTraits(at, classes)
    BY <1>6 DEF NextTrait
  <2>2. c \in classes /\ c.fqcn = t /\ c.kind = "trait" /\ t \notin at.visited
    BY <1>6, <2>1 DEF NextTraits, Named
  <2>3. c.uses \in Seq(STRING)
    BY <2>2 DEF Tidy
  <2>4. next = [todo |-> c.uses \o Tail(at.todo), visited |-> at.visited \cup {t}]
    BY <1>4, <1>6 DEF After
  <2>5. c.uses \o Tail(at.todo) \in Seq(STRING)
    BY <1>2, <2>3
  <2>6. next \in Walks /\ next.visited = at.visited \cup {t} /\ next.todo = c.uses \o Tail(at.todo)
    BY <1>1, <1>2, <2>4, <2>5 DEF Walks
  <2> HIDE DEF t, next, c
  <2> QED
    BY <1>2, <1>3, <1>6, <2>2, <2>6 DEF t, next, c
<1> QED
  BY <1>5, <1>6

\* A class uses only so many traits.
LEMMA UsesAreBounded ==
  ASSUME NEW classes, Tidy(classes)
  PROVE  \E K \in Nat : \A c \in classes : Len(c.uses) <= K
<1> DEFINE lens == [c \in classes |-> Len(c.uses)]
           L == {lens[c] : c \in classes}
<1>1. CASE classes = {}
  BY <1>1
<1>2. CASE classes # {}
  <2>1. IsFiniteSet(L)
    <3>1. IsFiniteSet(classes)
      BY DEF Tidy
    <3> HIDE DEF lens
    <3> QED
      BY <3>1, ImageIsFinite
  <2>2. L \in SUBSET Nat /\ L # {}
    <3>1. \A c \in classes : Len(c.uses) \in Nat
      BY DEF Tidy
    <3>2. \A c \in classes : lens[c] \in Nat
      BY <3>1
    <3> HIDE DEF lens
    <3> QED
      BY <1>2, <3>2
  <2>3. \A c \in classes : Len(c.uses) \in L
    OBVIOUS
  <2> HIDE DEF L
  <2> QED
    BY <2>1, <2>2, <2>3, GreatestIsThere
<1> QED
  BY <1>1, <1>2

TraitNames(classes) == {c.fqcn : c \in {d \in classes : d.kind = "trait"}}

WalkLength(classes, K) ==
  [at \in Walks |-> Len(at.todo) + K * Cardinality(TraitNames(classes) \ at.visited)]

\* Arithmetic of a walk's length.
LEMMA Lengths ==
  ASSUME NEW K \in Nat, NEW C \in Nat
  PROVE  /\ K * C \in Nat /\ K * (C + 1) = K * C + K
         /\ \A u, l \in Nat, m \in Nat : u <= K => (u + (l - 1)) + m < l + (m + K)
OBVIOUS

\* A walk shrinks: a trait is met once.
LEMMA WalkShrinks ==
  ASSUME NEW classes, Tidy(classes)
  PROVE  \E size : Shrinks(Walks, size, Arrived, Onward(classes))
<1>1. PICK K \in Nat : \A c \in classes : Len(c.uses) <= K
  BY UsesAreBounded
<1> DEFINE size == WalkLength(classes, K)
           T == TraitNames(classes)
<1>2. IsFiniteSet(T)
  <2> DEFINE D == {d \in classes : d.kind = "trait"}
             name == [c \in D |-> c.fqcn]
  <2>1. IsFiniteSet(D)
    BY FS_Subset DEF Tidy
  <2>2. T = {name[c] : c \in D}
    BY DEF TraitNames
  <2> HIDE DEF D, name
  <2> QED
    BY <2>1, <2>2, ImageIsFinite
<1>3. \A at \in Walks : /\ size[at] = Len(at.todo) + K * Cardinality(T \ at.visited)
                        /\ Cardinality(T \ at.visited) \in Nat /\ Len(at.todo) \in Nat
  <2>1. \A at \in Walks : IsFiniteSet(T \ at.visited)
    BY <1>2, FS_Subset, FS_Difference
  <2>2. \A at \in Walks : Len(at.todo) \in Nat
    BY DEF Walks
  <2> QED
    BY <2>1, <2>2, FS_CardinalityType DEF WalkLength
<1> HIDE DEF T, size
<1>4. \A at \in Walks : size[at] \in Nat
  <2> SUFFICES ASSUME NEW at \in Walks PROVE size[at] \in Nat
    OBVIOUS
  <2> DEFINE m == K * Cardinality(T \ at.visited)
  <2>1. m \in Nat
    BY <1>3, Lengths
  <2>2. size[at] = Len(at.todo) + m /\ Len(at.todo) \in Nat
    BY <1>3
  <2> HIDE DEF m
  <2> QED
    BY <2>1, <2>2
<1>5. ASSUME NEW at \in Walks \ Arrived
      PROVE  Onward(classes)[at] \in Walks /\ size[Onward(classes)[at]] < size[at]
  <2> DEFINE t == Head(at.todo)
             c == NextTrait(at, classes)
             next == Onward(classes)[at]
             C == Cardinality(T \ at.visited)
  <2> SUFFICES next \in Walks /\ size[next] < size[at]
    OBVIOUS
  <2>1. /\ Tail(at.todo) \in Seq(STRING) /\ Len(Tail(at.todo)) = Len(at.todo) - 1 /\ Len(at.todo) \in Nat \ {0}
        /\ next \in Walks /\ next.visited = at.visited \cup {t}
    BY WalkGoesOn
  <2>2. /\ size[at] = Len(at.todo) + K * C /\ C \in Nat
        /\ size[next] = Len(next.todo) + K * Cardinality(T \ next.visited)
    BY <1>3, <2>1
  <2>3. CASE NextTraits(at, classes) = {}
    <3>1. next.todo = Tail(at.todo) /\ (t \in at.visited \/ t \notin T)
      <4>1. next.todo = Tail(at.todo) /\ (t \in at.visited \/ \A v \in classes : v.kind = "trait" => v.fqcn # t)
        BY <2>3, WalkGoesOn
      <4> QED
        BY <4>1 DEF T, TraitNames
    <3>2. T \ next.visited = T \ at.visited
      BY <2>1, <3>1
    <3> DEFINE m == K * C
    <3>3. m \in Nat
      BY <2>2, Lengths
    <3>4. K * Cardinality(T \ next.visited) = m
      BY <3>2
    <3>5. size[next] = Len(Tail(at.todo)) + m /\ size[at] = Len(at.todo) + m
      BY <2>2, <3>1, <3>4
    <3> HIDE DEF m, next
    <3> QED
      BY <2>1, <3>3, <3>5
  <2>4. CASE NextTraits(at, classes) # {}
    <3>1. c \in classes /\ c.fqcn = t /\ c.kind = "trait" /\ t \notin at.visited /\ next.todo = c.uses \o Tail(at.todo)
      BY <2>4, WalkGoesOn
    <3>2. t \in T \ at.visited
      BY <3>1 DEF T, TraitNames
    <3>3. T \ next.visited = (T \ at.visited) \ {t}
      BY <2>1
    <3> DEFINE B == Cardinality(T \ next.visited)
    <3>4. B \in Nat /\ C = B + 1
      <4>1. IsFiniteSet(T \ at.visited)
        BY <1>2, FS_Difference
      <4>2. Cardinality((T \ at.visited) \ {t}) = Cardinality(T \ at.visited) - 1
        <5> HIDE DEF t
        <5> QED BY <3>2, <4>1, FS_RemoveElement
      <4>3. B \in Nat /\ B = C - 1
        BY <1>3, <2>1, <3>3, <4>2
      <4> HIDE DEF B, C
      <4> QED
        BY <2>2, <4>3
    <3>5. c.uses \in Seq(STRING) /\ Len(c.uses) <= K
      BY <1>1, <3>1 DEF Tidy
    <3>6. Len(next.todo) = Len(c.uses) + Len(Tail(at.todo)) /\ Len(c.uses) \in Nat
      BY <2>1, <3>1, <3>5
    <3> DEFINE m == K * B
    <3>7. m \in Nat /\ K * C = m + K
      <4> HIDE DEF B, C
      <4> QED
        BY <3>4, Lengths
    <3>8. /\ size[next] = (Len(c.uses) + Len(Tail(at.todo))) + m
          /\ size[at] = Len(at.todo) + (m + K) /\ m \in Nat
      BY <2>2, <3>6, <3>7
    <3> HIDE DEF next, B, C, c, m
    <3> DEFINE u == Len(c.uses)
               l == Len(at.todo)
    <3>9. u \in Nat /\ l \in Nat /\ u <= K
      BY <2>1, <3>5, <3>6
    <3>10. size[next] = (u + (l - 1)) + m
      BY <2>1, <3>8
    <3> HIDE DEF u, l
    <3>11. (u + (l - 1)) + m < l + (m + K)
      BY <3>8, <3>9
    <3> QED
      BY <2>1, <3>8, <3>10, <3>11 DEF l
  <2> QED
    BY <2>1, <2>3, <2>4
<1> QED
  BY <1>4, <1>5 DEF Shrinks

\* So there are walks ...
LEMMA WalksAre ==
  ASSUME NEW classes, Tidy(classes)
  PROVE  \E f : Walked(f, classes)
<1>1. PICK size : Shrinks(Walks, size, Arrived, Onward(classes))
  BY WalkShrinks
<1> QED
  BY <1>1, UnfoldingExists DEF Walked

\* What holds at a walk's end, and at each of its steps if at the next, holds of all walks.
LEMMA WalkInduction ==
  ASSUME NEW classes, Tidy(classes), NEW P,
         \A at \in Walks : (at \notin Arrived => Onward(classes)[at] \in P) => at \in P
  PROVE  Walks \subseteq P
<1>1. PICK size : Shrinks(Walks, size, Arrived, Onward(classes))
  BY WalkShrinks
<1> QED
  BY <1>1, ShrinksAll

\* One step of a walk.
LEMMA WalkStep ==
  ASSUME NEW classes, NEW f, Walked(f, classes), NEW at \in Walks
  PROVE  /\ at \in Arrived => f[at] = <<>>
         /\ at \notin Arrived /\ NextTraits(at, classes) = {} => f[at] = f[Onward(classes)[at]]
         /\ at \notin Arrived /\ NextTraits(at, classes) # {} =>
              f[at] = <<NextTrait(at, classes)>> \o f[Onward(classes)[at]]
<1>1. f[at] = Unfolded(f, at, Arrived, Passed(classes), Collected(classes), Onward(classes))
  BY DEF Walked, Unfolds
<1>2. Collected(classes)[at] = <<NextTrait(at, classes)>> /\ (at \in Passed(classes) <=> NextTraits(at, classes) = {})
  BY DEF Collected, Passed
<1> QED
  BY <1>1, <1>2 DEF Unfolded

\* A walk collects traits.
LEMMA WalkCollects ==
  ASSUME NEW classes, Tidy(classes), NEW f, Walked(f, classes)
  PROVE  \A at \in Walks : f[at] \in Seq({c \in classes : c.kind = "trait"})
<1> DEFINE T == {c \in classes : c.kind = "trait"}
           P == {at \in Walks : f[at] \in Seq(T)}
<1>1. ASSUME NEW at \in Walks, at \notin Arrived => Onward(classes)[at] \in P
      PROVE  at \in P
  <2> DEFINE next == Onward(classes)[at]
             c == NextTrait(at, classes)
  <2>1. CASE at \in Arrived
    <3>1. f[at] = <<>>
      BY <2>1, WalkStep
    <3>2. \A S : <<>> \in Seq(S)
      OBVIOUS
    <3> HIDE DEF T
    <3> QED
      BY <3>1, <3>2
  <2>2. CASE at \notin Arrived
    <3>1. f[next] \in Seq(T)
      BY <1>1, <2>2
    <3>2. CASE NextTraits(at, classes) = {}
      <4>1. f[at] = f[next]
        BY <2>2, <3>2, WalkStep
      <4> QED
        BY <3>1, <4>1
    <3>3. CASE NextTraits(at, classes) # {}
      <4>1. f[at] = <<c>> \o f[next]
        BY <2>2, <3>3, WalkStep
      <4>2. c \in T
        BY <2>2, <3>3, WalkGoesOn
      <4> HIDE DEF c, T, next
      <4>3. <<c>> \o f[next] \in Seq(T)
        BY <3>1, <4>2
      <4> QED
        BY <4>1, <4>3 DEF P
    <3> QED
      BY <3>2, <3>3
  <2> QED
    BY <2>1, <2>2
<1> HIDE DEF P
<1>2. Walks \subseteq P
  BY <1>1, WalkInduction
<1> QED
  BY <1>2 DEF P

(* The traits met before are known with what they use, or it is still to   *)
(* do; in the end all traits met are known with what they use.             *)
Safe(at, classes) ==
  \A v \in classes : v.kind = "trait" /\ v.fqcn \in at.visited =>
    \A u \in TraitsOf(v, classes) : u.fqcn \in at.visited \cup ToSet(at.todo)

NamesIn(s) == {c.fqcn : c \in ToSet(s)}

Complete(at, s, classes) ==
  LET met == at.visited \cup NamesIn(s) IN
  \A v \in classes : v.kind = "trait" =>
    /\ v.fqcn \in ToSet(at.todo) => v.fqcn \in met
    /\ v.fqcn \in met => \A u \in TraitsOf(v, classes) : u.fqcn \in met

\* A walk misses no trait.
LEMMA WalkCompletes ==
  ASSUME NEW classes, Tidy(classes), NEW f, Walked(f, classes)
  PROVE  \A at \in Walks : Safe(at, classes) => Complete(at, f[at], classes)
<1> DEFINE P == {at \in Walks : Safe(at, classes) => Complete(at, f[at], classes)}
<1>1. ASSUME NEW at \in Walks, at \notin Arrived => Onward(classes)[at] \in P
      PROVE  at \in P
  <2> DEFINE next == Onward(classes)[at]
             c == NextTrait(at, classes)
             t == Head(at.todo)
  <2> SUFFICES ASSUME Safe(at, classes) PROVE Complete(at, f[at], classes)
    OBVIOUS
  <2>1. CASE at \in Arrived
    <3>1. f[at] = <<>> /\ at.todo = <<>>
      BY <2>1, WalkStep DEF Arrived
    <3>2. ToSet(<<>>) = {}
      BY DEF ToSet
    <3> QED
      BY <3>1, <3>2 DEF Safe, Complete, NamesIn
  <2>2. CASE at \notin Arrived
    <3>0. /\ ToSet(at.todo) = {t} \cup ToSet(Tail(at.todo)) /\ next.visited = at.visited \cup {t}
          /\ next \in Walks
      BY <2>2, WalkGoesOn
    <3>1. CASE NextTraits(at, classes) = {}
      <4>1. next.todo = Tail(at.todo) /\ (t \in at.visited \/ \A v \in classes : v.kind = "trait" => v.fqcn # t)
        BY <2>2, <3>1, WalkGoesOn
      <4>2. f[at] = f[next]
        BY <2>2, <3>1, WalkStep
      <4>3. Safe(next, classes)
        BY <3>0, <4>1 DEF Safe
      <4>4. Complete(next, f[at], classes)
        BY <1>1, <2>2, <4>2, <4>3
      <4> HIDE DEF next, t
      <4>5. \A u \in classes : u.kind = "trait" =>
              (u.fqcn \in next.visited \cup NamesIn(f[at]) <=> u.fqcn \in at.visited \cup NamesIn(f[at]))
        BY <3>0, <4>1
      <4>6. \A v \in classes : \A u \in TraitsOf(v, classes) : u \in classes /\ u.kind = "trait"
        BY DEF TraitsOf
      <4> QED
        BY <3>0, <4>1, <4>4, <4>5, <4>6 DEF Complete
    <3>2. CASE NextTraits(at, classes) # {}
      <4>1. /\ c \in classes /\ c.fqcn = t /\ c.kind = "trait" /\ t \notin at.visited
            /\ next.todo = c.uses \o Tail(at.todo) /\ Tail(at.todo) \in Seq(STRING)
        BY <2>2, <3>2, WalkGoesOn
      <4>2. f[at] = <<c>> \o f[next]
        BY <2>2, <3>2, WalkStep
      <4>3. ToSet(next.todo) = ToSet(c.uses) \cup ToSet(Tail(at.todo))
        <5>1. c.uses \in Seq(STRING)
          BY <4>1 DEF Tidy
        <5>2. Joined(c.uses, Tail(at.todo), c.uses \o Tail(at.todo))
          <6> HIDE DEF c
          <6> QED BY <4>1, <5>1, BothAre
        <5> QED
          BY <4>1, <5>2 DEF Joined
      <4>4. NamesIn(f[at]) = {t} \cup NamesIn(f[next])
        <5>1. f[next] \in Seq(classes) /\ <<c>> \in Seq(classes)
          <6>1. f[next] \in Seq({d \in classes : d.kind = "trait"})
            BY <3>0, WalkCollects
          <6>2. \A s : s \in Seq({d \in classes : d.kind = "trait"}) => s \in Seq(classes)
            OBVIOUS
          <6> HIDE DEF c, next
          <6> QED
            BY <4>1, <6>1, <6>2
        <5>2. Joined(<<c>>, f[next], <<c>> \o f[next])
          <6> HIDE DEF c, next
          <6> QED BY <5>1, BothAre
        <5>3. ToSet(<<c>>) = {c}
          <6> HIDE DEF c
          <6> QED BY DEF ToSet
        <5>4. ToSet(f[at]) = {c} \cup ToSet(f[next])
          BY <4>2, <5>2, <5>3 DEF Joined
        <5> HIDE DEF c, next, t
        <5> QED
          BY <4>1, <5>4 DEF NamesIn
      <4> HIDE DEF c, next, t
      <4>5. Safe(next, classes)
        <5> SUFFICES ASSUME NEW v \in classes, v.kind = "trait", v.fqcn \in next.visited, NEW u \in TraitsOf(v, classes)
                     PROVE  u.fqcn \in next.visited \cup ToSet(next.todo)
          BY DEF Safe
        <5>1. CASE v.fqcn = t
          <6>1. v = c
            BY <4>1, <5>1 DEF Tidy
          <6> QED
            BY <4>3, <6>1 DEF TraitsOf
        <5>2. CASE v.fqcn # t
          <6>1. u.fqcn \in at.visited \cup ToSet(at.todo)
            BY <3>0, <5>2 DEF Safe
          <6> QED
            BY <3>0, <4>3, <6>1
        <5> QED
          BY <5>1, <5>2
      <4>6. Complete(next, f[next], classes)
        BY <1>1, <2>2, <4>5 DEF next
      <4>7. next.visited \cup NamesIn(f[next]) = at.visited \cup NamesIn(f[at])
        BY <3>0, <4>4
      <4> QED
        BY <3>0, <4>3, <4>4, <4>6, <4>7 DEF Complete
    <3> QED
      BY <3>1, <3>2
  <2> QED
    BY <2>1, <2>2
<1> HIDE DEF P
<1>2. Walks \subseteq P
  BY <1>1, WalkInduction
<1> QED
  BY <1>2 DEF P

(* What the traits of some classes answer to a method's name.              *)
TraitLookup(in, n, classes) ==
  \A t \in classes : in[t] = IF Defined(t, n) # {} THEN Defined(t, n)
                             ELSE UNION {in[u] : u \in TraitsOf(t, classes)}

Answered(at, s, n, in, classes) ==
  \A x : FirstIn(s, n, x) =>
    \E t \in classes : t.kind = "trait" /\ t.fqcn \in ToSet(at.todo) /\ Defined(x, n) \subseteq in[t]

\* The first trait of a walk to define a method is what one of the names it began with answers.
LEMMA WalkAnswers ==
  ASSUME NEW classes, Tidy(classes), NEW f, Walked(f, classes),
         NEW all, classes \subseteq all, NEW n, NEW in, TraitLookup(in, n, all)
  PROVE  \A at \in Walks : Answered(at, f[at], n, in, classes)
<1> DEFINE P == {at \in Walks : Answered(at, f[at], n, in, classes)}
<1>1. ASSUME NEW at \in Walks, at \notin Arrived => Onward(classes)[at] \in P
      PROVE  at \in P
  <2> DEFINE next == Onward(classes)[at]
             c == NextTrait(at, classes)
             t == Head(at.todo)
  <2> SUFFICES ASSUME NEW x, FirstIn(f[at], n, x)
               PROVE  \E u \in classes : u.kind = "trait" /\ u.fqcn \in ToSet(at.todo) /\ Defined(x, n) \subseteq in[u]
    BY DEF Answered
  <2>1. CASE at \in Arrived
    <3>1. f[at] = <<>>
      BY <2>1, WalkStep
    <3> QED
      BY <3>1 DEF FirstIn
  <2>2. CASE at \notin Arrived
    <3>0. /\ ToSet(at.todo) = {t} \cup ToSet(Tail(at.todo)) /\ next \in Walks
          /\ Answered(next, f[next], n, in, classes)
      BY <1>1, <2>2, WalkGoesOn
    <3>1. CASE NextTraits(at, classes) = {}
      <4>1. next.todo = Tail(at.todo)
        BY <2>2, <3>1, WalkGoesOn
      <4>2. f[at] = f[next]
        BY <2>2, <3>1, WalkStep
      <4> HIDE DEF next
      <4> QED
        BY <3>0, <4>1, <4>2 DEF Answered
    <3>2. CASE NextTraits(at, classes) # {}
      <4>1. /\ c \in classes /\ c.fqcn = t /\ c.kind = "trait" /\ t \notin at.visited
            /\ next.todo = c.uses \o Tail(at.todo) /\ Tail(at.todo) \in Seq(STRING)
        BY <2>2, <3>2, WalkGoesOn
      <4>2. f[at] = <<c>> \o f[next]
        BY <2>2, <3>2, WalkStep
      <4>3. ToSet(next.todo) = ToSet(c.uses) \cup ToSet(Tail(at.todo))
        <5>1. c.uses \in Seq(STRING)
          BY <4>1 DEF Tidy
        <5>2. Joined(c.uses, Tail(at.todo), c.uses \o Tail(at.todo))
          <6> HIDE DEF c
          <6> QED BY <4>1, <5>1, BothAre
        <5> QED
          BY <4>1, <5>2 DEF Joined
      <4>4. FirstIn(<<c>>, n, x) \/ (Misses(<<c>>, n) /\ FirstIn(f[next], n, x))
        <5>1. f[next] \in Seq(classes) /\ <<c>> \in Seq(classes)
          <6>1. f[next] \in Seq({d \in classes : d.kind = "trait"})
            BY <3>0, WalkCollects
          <6>2. \A s : s \in Seq({d \in classes : d.kind = "trait"}) => s \in Seq(classes)
            OBVIOUS
          <6> HIDE DEF c, next
          <6> QED
            BY <4>1, <6>1, <6>2
        <5> HIDE DEF c, next
        <5> QED
          BY <4>2, <5>1, FirstOfBoth
      <4> HIDE DEF c, next, t
      <4>5. in[c] = IF Defined(c, n) # {} THEN Defined(c, n) ELSE UNION {in[u] : u \in TraitsOf(c, all)}
        BY <4>1 DEF TraitLookup
      <4>6. CASE FirstIn(<<c>>, n, x)
        <5>1. x = c /\ Defined(c, n) # {}
          BY <4>6 DEF FirstIn
        <5> QED
          BY <3>0, <4>1, <4>5, <5>1
      <4>7. CASE Misses(<<c>>, n) /\ FirstIn(f[next], n, x)
        <5>1. PICK u \in classes : u.kind = "trait" /\ u.fqcn \in ToSet(next.todo) /\ Defined(x, n) \subseteq in[u]
          BY <3>0, <4>7 DEF Answered
        <5>2. CASE u.fqcn \in ToSet(Tail(at.todo))
          BY <3>0, <5>1, <5>2
        <5>3. CASE u.fqcn \in ToSet(c.uses)
          <6>1. u \in TraitsOf(c, all)
            BY <5>1, <5>3 DEF TraitsOf
          <6>2. Defined(c, n) = {}
            BY <4>7 DEF Misses
          <6>3. in[u] \subseteq in[c]
            BY <4>5, <6>1, <6>2
          <6> QED
            BY <3>0, <4>1, <5>1, <6>3
        <5> QED
          BY <4>3, <5>1, <5>2, <5>3
      <4> QED
        BY <4>4, <4>6, <4>7
    <3> QED
      BY <3>1, <3>2
  <2> QED
    BY <2>1, <2>2
<1> HIDE DEF P
<1>2. Walks \subseteq P
  BY <1>1, WalkInduction
<1> QED
  BY <1>2 DEF P

(* Stages again, with a step that depends on how far the sequence is.      *)
LeadsAt(G, St, N) == \A n \in 1 .. N : \A s \in St[n - 1] : G[<<n, s>>] \in St[n]
IteratesAt(f, x, G, N) == f = [n \in 0 .. N |-> IF n = 0 THEN x ELSE G[<<n, f[n - 1]>>]]

\* Some sequence follows such stages, too.
LEMMA IterationAt ==
  ASSUME NEW N \in Nat, NEW St, NEW G, NEW x, x \in St[0], LeadsAt(G, St, N)
  PROVE  \E f : IteratesAt(f, x, G, N)
<1> DEFINE S == UNION {St[n] : n \in 0 .. N}
           Q == [n \in 0 .. N |-> {p \in (0 .. N) \X S : p[1] = n /\ p[2] \in St[n]}]
           H == [p \in (0 .. N) \X S |-> <<p[1] + 1, G[<<p[1] + 1, p[2]>>]>>]
<1>1. <<0, x>> \in Q[0]
  OBVIOUS
<1>2. ASSUME NEW n \in 1 .. N, NEW p \in Q[n - 1]
      PROVE  H[p] \in Q[n] /\ H[p] = <<n, G[<<n, p[2]>>]>>
  <2>1. n - 1 \in 0 .. N /\ n \in 0 .. N /\ (n - 1) + 1 = n
    OBVIOUS
  <2>2. p \in (0 .. N) \X S /\ p[1] = n - 1 /\ p[2] \in St[n - 1]
    BY <2>1
  <2>3. G[<<n, p[2]>>] \in St[n]
    BY <2>2 DEF LeadsAt
  <2>4. H[p] = <<n, G[<<n, p[2]>>]>>
    BY <2>1, <2>2
  <2>5. G[<<n, p[2]>>] \in S
    BY <2>1, <2>3
  <2> HIDE DEF S, H
  <2> QED
    BY <2>1, <2>3, <2>4, <2>5
<1> HIDE DEF H, Q
<1>3. PICK g : /\ g = [n \in 0 .. N |-> IF n = 0 THEN <<0, x>> ELSE H[g[n - 1]]]
               /\ \A n \in 0 .. N : g[n] \in Q[n]
  <2>1. Leads(H, Q, N)
    BY <1>2 DEF Leads
  <2>2. \E g : Iterates(g, <<0, x>>, H, Q, N)
    BY <1>1, <2>1, Iteration
  <2> QED
    BY <2>2 DEF Iterates
<1> DEFINE f == [n \in 0 .. N |-> g[n][2]]
<1>4. \A n \in 0 .. N : f[n] = g[n][2]
  OBVIOUS
<1>5. f = [n \in 0 .. N |-> f[n]]
  OBVIOUS
<1> HIDE DEF f
<1>6. ASSUME NEW n \in 0 .. N PROVE f[n] = IF n = 0 THEN x ELSE G[<<n, f[n - 1]>>]
  <2>1. CASE n = 0
    <3>1. g[n] = <<0, x>>
      BY <1>3, <2>1
    <3> QED
      BY <1>4, <2>1, <3>1
  <2>2. CASE n # 0
    <3>1. n \in 1 .. N /\ n - 1 \in 0 .. N
      BY <2>2
    <3>2. g[n] = H[g[n - 1]] /\ g[n - 1] \in Q[n - 1]
      BY <1>3, <2>2, <3>1
    <3>3. g[n] = <<n, G[<<n, g[n - 1][2]>>]>>
      BY <1>2, <3>1, <3>2
    <3> QED
      BY <1>4, <2>2, <3>1, <3>3
  <2> QED
    BY <2>1, <2>2
<1>7. f = [n \in 0 .. N |-> IF n = 0 THEN x ELSE G[<<n, f[n - 1]>>]]
  BY <1>5, <1>6
<1> QED
  BY <1>7 DEF IteratesAt

(* What a class answers without its ancestors.                             *)
Level(c, n, all) == IF Defined(c, n) # {} THEN Defined(c, n) ELSE InTraits(c, n, all)

\* PHP's lookup in traits has an answer.
LEMMA TraitsAnswer ==
  ASSUME NEW all, NEW n
  PROVE  \E in : /\ TraitLookup(in, n, all)
                 /\ \A c : InTraits(c, n, all) = UNION {in[t] : t \in TraitsOf(c, all)}
<1> DEFINE own == [t \in all |-> Defined(t, n)]
           above == [t \in all |-> TraitsOf(t, all)]
           Body(f, t) == IF Defined(t, n) # {} THEN Defined(t, n)
                         ELSE UNION {f[u] : u \in TraitsOf(t, all)}
           in == CHOOSE f : f = [t \in all |-> Body(f, t)]
<1>1. \A t \in all : above[t] \subseteq all
  BY DEF TraitsOf
<1>2. \A t \in all : own[t] = Defined(t, n) /\ above[t] = TraitsOf(t, all)
  OBVIOUS
<1> HIDE DEF own, above
<1>3. PICK f : LooksUp(f, all, own, above)
  BY <1>1, LookupExists
<1>4. \A t \in all : Looked(f, t, own, above) = Body(f, t)
  BY <1>2 DEF Looked
<1>5. f = [t \in all |-> Body(f, t)]
  BY <1>3, <1>4 DEF LooksUp
<1>6. in = [t \in all |-> Body(in, t)]
  BY <1>5
<1>7. \A c : InTraits(c, n, all) = UNION {in[t] : t \in TraitsOf(c, all)}
  BY DEF InTraits
<1> HIDE DEF in
<1>8. TraitLookup(in, n, all)
  BY <1>6 DEF TraitLookup
<1> QED
  BY <1>7, <1>8

(* What the classes answer with their ancestors.                           *)
ClassLookup(from, n, all) ==
  \A c \in all : from[c] = IF Level(c, n, all) # {} THEN Level(c, n, all)
                           ELSE UNION {from[p] : p \in Named(all, c.parent)}

\* So has its lookup along the parents.
LEMMA ClassesAnswer ==
  ASSUME NEW all, NEW n
  PROVE  \E from : /\ ClassLookup(from, n, all)
                   /\ \A fqcn : PhpMethod(fqcn, n, all) = UNION {from[c] : c \in Named(all, fqcn)}
<1> DEFINE own == [c \in all |-> Level(c, n, all)]
           above == [c \in all |-> Named(all, c.parent)]
           Body(f, c) == CASE Defined(c, n) # {} -> Defined(c, n)
                           [] OTHER -> IF InTraits(c, n, all) # {} THEN InTraits(c, n, all)
                                       ELSE UNION {f[p] : p \in Named(all, c.parent)}
           from == CHOOSE f : f = [c \in all |-> Body(f, c)]
<1>1. \A c \in all : above[c] \subseteq all
  BY DEF Named
<1>2. \A c \in all : own[c] = Level(c, n, all) /\ above[c] = Named(all, c.parent)
  OBVIOUS
<1> HIDE DEF own, above
<1>3. PICK f : LooksUp(f, all, own, above)
  BY <1>1, LookupExists
<1>4. ASSUME NEW g, NEW c \in all
      PROVE  Body(g, c) = IF Level(c, n, all) # {} THEN Level(c, n, all)
                          ELSE UNION {g[p] : p \in Named(all, c.parent)}
  BY DEF Level
<1>5. \A c \in all : Looked(f, c, own, above) = Body(f, c)
  <2>1. ASSUME NEW c \in all
        PROVE  Body(f, c) = IF Level(c, n, all) # {} THEN Level(c, n, all)
                            ELSE UNION {f[p] : p \in Named(all, c.parent)}
    BY <1>4
  <2>2. \A c \in all : Looked(f, c, own, above) = IF Level(c, n, all) # {} THEN Level(c, n, all)
                                                  ELSE UNION {f[p] : p \in Named(all, c.parent)}
    BY <1>2 DEF Looked
  <2> HIDE DEF Body
  <2> QED
    BY <2>1, <2>2
<1>6. f = [c \in all |-> Body(f, c)]
  BY <1>3, <1>5 DEF LooksUp
<1>7. from = [c \in all |-> Body(from, c)]
  BY <1>6
<1>8. \A fqcn : PhpMethod(fqcn, n, all) = UNION {from[c] : c \in Named(all, fqcn)}
  BY DEF PhpMethod
<1> HIDE DEF from
<1>9. \A c \in all : from[c] = Body(from, c)
  BY <1>7
<1>10. ClassLookup(from, n, all)
  <2>1. ASSUME NEW c \in all
        PROVE  from[c] = IF Level(c, n, all) # {} THEN Level(c, n, all)
                         ELSE UNION {from[p] : p \in Named(all, c.parent)}
    <3>1. Body(from, c) = IF Level(c, n, all) # {} THEN Level(c, n, all)
                          ELSE UNION {from[p] : p \in Named(all, c.parent)}
      BY <1>4
    <3> HIDE DEF Body
    <3> QED
      BY <1>9, <3>1
  <2> QED
    BY <2>1 DEF ClassLookup
<1> QED
  BY <1>8, <1>10

----------------------------------------------------------------------------
(* The classes that are visible, of all there are, and those one may reach *)
(* along parents and traits.  The traits it reaches that are not visible   *)
(* are sealed: they have no methods and use no traits but such.            *)
World(visible, all, sealed, reach) ==
  /\ Tidy(all) /\ visible \subseteq all
  /\ \A T \in SUBSET {c \in all : c.kind = "trait"} :
       T # {} => \E t \in T : TraitsOf(t, all) \cap T = {}
  /\ sealed \subseteq all
  /\ \A t \in sealed : t.kind = "trait" /\ t.methods = <<>> /\ TraitsOf(t, all) \subseteq sealed
  /\ reach \subseteq all
  /\ \A c \in reach : Named(all, c.parent) \cup TraitsOf(c, all) \subseteq reach
  /\ \A t \in reach : t.kind = "trait" => t \in visible \/ t \in sealed

\* Traits without a method, that use no others, answer nothing.
LEMMA NoTraitAnswers ==
  ASSUME NEW visible, NEW all, NEW sealed, NEW reach, World(visible, all, sealed, reach),
         NEW n, NEW in, TraitLookup(in, n, all),
         NEW Q \in SUBSET {c \in all : c.kind = "trait"},
         \A t \in Q : Defined(t, n) = {} /\ TraitsOf(t, all) \subseteq Q
  PROVE  \A t \in Q : in[t] = {}
<1> DEFINE T == {t \in Q : in[t] # {}}
<1> SUFFICES ASSUME T # {} PROVE FALSE
  OBVIOUS
<1>1. T \in SUBSET {c \in all : c.kind = "trait"}
  OBVIOUS
<1>2. PICK t \in T : TraitsOf(t, all) \cap T = {}
  <2> HIDE DEF T
  <2> QED BY <1>1 DEF World
<1>3. t \in Q /\ t \in all /\ in[t] # {}
  OBVIOUS
<1>4. in[t] = UNION {in[u] : u \in TraitsOf(t, all)}
  BY <1>3 DEF TraitLookup
<1>5. \A u \in TraitsOf(t, all) : in[u] = {}
  BY <1>2, <1>3
<1> QED
  BY <1>3, <1>4, <1>5

(* A class and its visible ancestors, as far as they go.                   *)
IsChain(chain, fqcn, classes) ==
  /\ chain \in Seq(classes)
  /\ \A i \in 1 .. Len(chain) : chain[i].fqcn = IF i = 1 THEN fqcn ELSE chain[i - 1].parent

Lengthened(below, found) == IF found = {} THEN below ELSE Append(below, CHOOSE c \in found : TRUE)
ChainNext(below, fqcn, classes) ==
  Lengthened(below, Named(classes, IF below = <<>> THEN fqcn ELSE Last(below).parent))

Climbs(up, fqcn, classes) ==
  up = [n \in 0 .. MAX_CHAIN_DEPTH |-> IF n = 0 THEN <<>> ELSE ChainNext(up[n - 1], fqcn, classes)]

\* The chain is what that recursion ends with.
LEMMA ChainClimbs ==
  ASSUME NEW fqcn, NEW classes
  PROVE  Chain(fqcn, classes) = (CHOOSE up : Climbs(up, fqcn, classes))[MAX_CHAIN_DEPTH]
BY DEF Chain, Climbs, ChainNext, Lengthened

\* One turn of it.
LEMMA ChainGrows ==
  ASSUME NEW fqcn, NEW classes, NEW s, IsChain(s, fqcn, classes)
  PROVE  /\ IsChain(ChainNext(s, fqcn, classes), fqcn, classes)
         /\ Named(classes, fqcn) # {} => ChainNext(s, fqcn, classes) # <<>>
<1> DEFINE name == IF s = <<>> THEN fqcn ELSE Last(s).parent
           c == CHOOSE c \in Named(classes, name) : TRUE
<1>1. CASE Named(classes, name) = {}
  <2>1. ChainNext(s, fqcn, classes) = s
    BY <1>1 DEF ChainNext, Lengthened
  <2>2. Named(classes, fqcn) # {} => s # <<>>
    BY <1>1
  <2> QED
    BY <2>1, <2>2
<1>2. CASE Named(classes, name) # {}
  <2>1. ChainNext(s, fqcn, classes) = Append(s, c)
    BY <1>2 DEF ChainNext, Lengthened
  <2>2. c \in classes /\ c.fqcn = name
    BY <1>2 DEF Named
  <2>3. s \in Seq(classes)
    BY DEF IsChain
  <2>4. (s = <<>> <=> Len(s) = 0) /\ Len(s) \in Nat
    BY <2>3
  <2> HIDE DEF c
  <2>5. /\ Append(s, c) \in Seq(classes) /\ Len(Append(s, c)) = Len(s) + 1
        /\ Append(s, c)[Len(s) + 1] = c
        /\ \A i \in 1 .. Len(s) : Append(s, c)[i] = s[i]
    BY <2>2, <2>3
  <2>6. ASSUME NEW i \in 1 .. Len(Append(s, c))
        PROVE  Append(s, c)[i].fqcn = IF i = 1 THEN fqcn ELSE Append(s, c)[i - 1].parent
    <3>1. CASE i \in 1 .. Len(s)
      <4>1. i # 1 => i - 1 \in 1 .. Len(s)
        BY <2>4, <3>1
      <4> QED
        BY <2>5, <3>1, <4>1 DEF IsChain
    <3>2. CASE i \notin 1 .. Len(s)
      <4>1. i = Len(s) + 1
        BY <2>4, <2>5, <3>2
      <4>2. CASE s = <<>>
        BY <2>2, <2>4, <2>5, <4>1, <4>2
      <4>3. CASE s # <<>>
        <5>1. i # 1 /\ i - 1 = Len(s) /\ Len(s) \in 1 .. Len(s)
          BY <2>4, <4>1, <4>3
        <5>2. c.fqcn = s[Len(s)].parent
          BY <2>2, <4>3 DEF Last
        <5> QED
          BY <2>5, <4>1, <5>1, <5>2
      <4> QED
        BY <4>2, <4>3
    <3> QED
      BY <3>1, <3>2
  <2>7. Append(s, c) # <<>>
    BY <2>4, <2>5
  <2> QED
    BY <2>1, <2>5, <2>6, <2>7 DEF IsChain
<1> QED
  BY <1>1, <1>2

\* There is a chain ...
LEMMA ClimbExists ==
  ASSUME NEW fqcn, NEW classes
  PROVE  \E up : Climbs(up, fqcn, classes)
<1> DEFINE S == {s \in Seq(classes) : IsChain(s, fqcn, classes)}
           St == [n \in 0 .. MAX_CHAIN_DEPTH |-> S]
           G == [p \in (1 .. MAX_CHAIN_DEPTH) \X S |-> ChainNext(p[2], fqcn, classes)]
<1>1. <<>> \in St[0]
  <2>1. <<>> \in Seq(classes) /\ Len(<<>>) = 0
    OBVIOUS
  <2>2. IsChain(<<>>, fqcn, classes)
    BY <2>1 DEF IsChain
  <2> QED
    BY <2>1, <2>2 DEF MAX_CHAIN_DEPTH
<1>2. ASSUME NEW n \in 1 .. MAX_CHAIN_DEPTH, NEW s \in St[n - 1]
      PROVE  G[<<n, s>>] \in St[n] /\ G[<<n, s>>] = ChainNext(s, fqcn, classes)
  <2>1. s \in S
    BY DEF MAX_CHAIN_DEPTH
  <2>2. ChainNext(s, fqcn, classes) \in S
    BY <2>1, ChainGrows DEF IsChain
  <2>3. G[<<n, s>>] = ChainNext(s, fqcn, classes)
    BY <2>1
  <2> HIDE DEF S, G
  <2> QED
    BY <2>2, <2>3 DEF MAX_CHAIN_DEPTH
<1>3. MAX_CHAIN_DEPTH \in Nat
  BY DEF MAX_CHAIN_DEPTH
<1>4. \A n \in 0 .. MAX_CHAIN_DEPTH : St[n] = S
  OBVIOUS
<1> HIDE DEF St, G, S
<1>5. PICK up : up = [n \in 0 .. MAX_CHAIN_DEPTH |-> IF n = 0 THEN <<>> ELSE G[<<n, up[n - 1]>>]]
  <2>1. LeadsAt(G, St, MAX_CHAIN_DEPTH)
    BY <1>2 DEF LeadsAt
  <2>2. \E up : IteratesAt(up, <<>>, G, MAX_CHAIN_DEPTH)
    BY <1>1, <1>3, <2>1, IterationAt
  <2> QED
    BY <2>2 DEF IteratesAt
<1>6. up[0] \in St[0] /\ \A n \in 1 .. MAX_CHAIN_DEPTH : up[n - 1] \in St[n - 1] => up[n] \in St[n]
  <2>1. 0 \in 0 .. MAX_CHAIN_DEPTH /\ \A n \in 1 .. MAX_CHAIN_DEPTH : n \in 0 .. MAX_CHAIN_DEPTH /\ n # 0
    BY <1>3
  <2>2. up[0] = <<>> /\ \A n \in 1 .. MAX_CHAIN_DEPTH : up[n] = G[<<n, up[n - 1]>>]
    BY <1>5, <2>1
  <2> QED
    BY <1>1, <1>2, <2>2
<1>7. \A n \in 0 .. MAX_CHAIN_DEPTH : up[n] \in St[n]
  BY <1>3, <1>6, Along
<1>8. \A n \in 0 .. MAX_CHAIN_DEPTH :
        up[n] = IF n = 0 THEN <<>> ELSE ChainNext(up[n - 1], fqcn, classes)
  <2> SUFFICES ASSUME NEW n \in 0 .. MAX_CHAIN_DEPTH
               PROVE  up[n] = IF n = 0 THEN <<>> ELSE ChainNext(up[n - 1], fqcn, classes)
    OBVIOUS
  <2>1. n # 0 => n \in 1 .. MAX_CHAIN_DEPTH /\ n - 1 \in 0 .. MAX_CHAIN_DEPTH
    BY <1>3
  <2> QED
    BY <1>2, <1>5, <1>7, <2>1
<1>9. up = [n \in 0 .. MAX_CHAIN_DEPTH |-> up[n]]
  BY <1>5
<1>10. up = [n \in 0 .. MAX_CHAIN_DEPTH |-> IF n = 0 THEN <<>> ELSE ChainNext(up[n - 1], fqcn, classes)]
  BY <1>8, <1>9
<1> QED
  BY <1>10 DEF Climbs

\* ... and it is linked.
LEMMA ChainLinks ==
  ASSUME NEW fqcn, NEW classes
  PROVE  /\ IsChain(Chain(fqcn, classes), fqcn, classes)
         /\ Named(classes, fqcn) # {} => Chain(fqcn, classes) # <<>>
<1> DEFINE up == CHOOSE up : Climbs(up, fqcn, classes)
           Good(n, s) == IsChain(s, fqcn, classes) /\ (n # 0 /\ Named(classes, fqcn) # {} => s # <<>>)
           St == [n \in 0 .. MAX_CHAIN_DEPTH |-> {s \in Seq(classes) : Good(n, s)}]
<1>1. Chain(fqcn, classes) = up[MAX_CHAIN_DEPTH]
  BY ChainClimbs
<1>2. Climbs(up, fqcn, classes)
  BY ClimbExists
<1> HIDE DEF up
<1>3. MAX_CHAIN_DEPTH \in Nat /\ MAX_CHAIN_DEPTH # 0
  BY DEF MAX_CHAIN_DEPTH
<1>4. up[0] = <<>> /\ \A n \in 1 .. MAX_CHAIN_DEPTH : up[n] = ChainNext(up[n - 1], fqcn, classes)
  <2>1. 0 \in 0 .. MAX_CHAIN_DEPTH /\ \A n \in 1 .. MAX_CHAIN_DEPTH : n \in 0 .. MAX_CHAIN_DEPTH /\ n # 0
    BY <1>3
  <2> QED
    BY <1>2, <2>1 DEF Climbs
<1>5. up[0] \in St[0]
  <2>1. <<>> \in Seq(classes) /\ Len(<<>>) = 0
    OBVIOUS
  <2>2. IsChain(<<>>, fqcn, classes)
    BY <2>1 DEF IsChain
  <2> QED
    BY <1>3, <1>4, <2>1, <2>2
<1>6. ASSUME NEW n \in 1 .. MAX_CHAIN_DEPTH, up[n - 1] \in St[n - 1] PROVE up[n] \in St[n]
  <2>1. IsChain(up[n - 1], fqcn, classes)
    BY <1>3, <1>6
  <2>2. IsChain(up[n], fqcn, classes) /\ (Named(classes, fqcn) # {} => up[n] # <<>>)
    BY <1>4, <2>1, ChainGrows
  <2>3. up[n] \in Seq(classes)
    BY <2>2 DEF IsChain
  <2> QED
    BY <1>3, <2>2, <2>3
<1> HIDE DEF St
<1>7. \A n \in 0 .. MAX_CHAIN_DEPTH : up[n] \in St[n]
  BY <1>3, <1>5, <1>6, Along
<1>8. up[MAX_CHAIN_DEPTH] \in St[MAX_CHAIN_DEPTH]
  BY <1>3, <1>7
<1> QED
  BY <1>1, <1>3, <1>8 DEF St

\* A chain is the same in more classes, if they hold no parent that was not visible.
LEMMA ChainsAgree ==
  ASSUME NEW fqcn, NEW classes, NEW all, classes \subseteq all,
         Named(all, fqcn) \subseteq classes, \A c \in classes : Named(all, c.parent) \subseteq classes
  PROVE  Chain(fqcn, all) = Chain(fqcn, classes)
<1> DEFINE up == CHOOSE up : Climbs(up, fqcn, classes)
           far == CHOOSE u : Climbs(u, fqcn, all)
           both == [n \in 0 .. MAX_CHAIN_DEPTH |-> <<up[n], far[n]>>]
           St == [n \in 0 .. MAX_CHAIN_DEPTH |-> {<<s, s>> : s \in Seq(classes)}]
<1>1. /\ Chain(fqcn, classes) = up[MAX_CHAIN_DEPTH] /\ Chain(fqcn, all) = far[MAX_CHAIN_DEPTH]
      /\ Climbs(up, fqcn, classes) /\ Climbs(far, fqcn, all)
  BY ChainClimbs, ClimbExists
<1> HIDE DEF up, far
<1>2. MAX_CHAIN_DEPTH \in Nat
  BY DEF MAX_CHAIN_DEPTH
<1>3. /\ up[0] = <<>> /\ far[0] = <<>>
      /\ \A n \in 1 .. MAX_CHAIN_DEPTH : /\ up[n] = ChainNext(up[n - 1], fqcn, classes)
                                         /\ far[n] = ChainNext(far[n - 1], fqcn, all)
  <2>1. 0 \in 0 .. MAX_CHAIN_DEPTH /\ \A n \in 1 .. MAX_CHAIN_DEPTH : n \in 0 .. MAX_CHAIN_DEPTH /\ n # 0
    BY <1>2
  <2> QED
    BY <1>1, <2>1 DEF Climbs
<1>4. ASSUME NEW s \in Seq(classes)
      PROVE  ChainNext(s, fqcn, all) = ChainNext(s, fqcn, classes) /\ ChainNext(s, fqcn, classes) \in Seq(classes)
  <2> DEFINE name == IF s = <<>> THEN fqcn ELSE Last(s).parent
  <2>1. s # <<>> => Last(s) \in classes
    <3>1. s # <<>> => Len(s) \in 1 .. Len(s)
      OBVIOUS
    <3> QED
      BY <3>1 DEF Last
  <2>2. Named(all, name) = Named(classes, name)
    BY <2>1 DEF Named
  <2>3. ChainNext(s, fqcn, all) = ChainNext(s, fqcn, classes)
    BY <2>2 DEF ChainNext
  <2> DEFINE c == CHOOSE c \in Named(classes, name) : TRUE
  <2>4. Named(classes, name) # {} => c \in classes
    BY DEF Named
  <2> HIDE DEF c
  <2>5. Named(classes, name) # {} => Append(s, c) \in Seq(classes)
    BY <2>4
  <2>6. ChainNext(s, fqcn, classes) = IF Named(classes, name) = {} THEN s ELSE Append(s, c)
    BY DEF ChainNext, Lengthened, c
  <2> HIDE DEF name
  <2> QED
    BY <2>3, <2>5, <2>6
<1>5. both[0] \in St[0]
  <2>1. 0 \in 0 .. MAX_CHAIN_DEPTH /\ <<>> \in Seq(classes)
    BY <1>2
  <2>2. both[0] = <<up[0], far[0]>> /\ St[0] = {<<s, s>> : s \in Seq(classes)}
    BY <2>1
  <2>3. up[0] \in Seq(classes) /\ far[0] = up[0]
    BY <1>3, <2>1
  <2> HIDE DEF both, St
  <2> QED
    BY <2>2, <2>3
<1>6. ASSUME NEW n \in 1 .. MAX_CHAIN_DEPTH, both[n - 1] \in St[n - 1] PROVE both[n] \in St[n]
  <2>1. n - 1 \in 0 .. MAX_CHAIN_DEPTH /\ n \in 0 .. MAX_CHAIN_DEPTH
    BY <1>2
  <2>2. up[n - 1] \in Seq(classes) /\ far[n - 1] = up[n - 1]
    BY <1>6, <2>1
  <2>3. up[n] \in Seq(classes) /\ far[n] = up[n]
    BY <1>3, <1>4, <2>2
  <2> QED
    BY <2>1, <2>3
<1>7. both[MAX_CHAIN_DEPTH] = <<up[MAX_CHAIN_DEPTH], far[MAX_CHAIN_DEPTH]>> /\ MAX_CHAIN_DEPTH \in 0 .. MAX_CHAIN_DEPTH
  BY <1>2
<1>8. \A s : s \in St[MAX_CHAIN_DEPTH] => s[1] = s[2]
  BY <1>7
<1> HIDE DEF both, St
<1>9. both[MAX_CHAIN_DEPTH] \in St[MAX_CHAIN_DEPTH]
  <2>1. \A n \in 0 .. MAX_CHAIN_DEPTH : both[n] \in St[n]
    BY <1>2, <1>5, <1>6, Along
  <2> QED
    BY <1>7, <2>1
<1> QED
  BY <1>1, <1>7, <1>8, <1>9

----------------------------------------------------------------------------
(* The sources of a class, as far as its chain has been followed: none of  *)
(* the levels answers if none of them defines the method, and the first to *)
(* define it is what the first level that answers says.                    *)
KeepsTraits(s, classes) ==
  \A v \in ToSet(s) : v.kind = "trait" => TraitsOf(v, classes) \subseteq ToSet(s)

Nearest(s, chain, i, n, all) ==
  /\ Misses(s, n) => \A j \in 1 .. i : Level(chain[j], n, all) = {}
  /\ \A x : FirstIn(s, n, x) =>
       \E j \in 1 .. i : /\ Defined(x, n) \subseteq Level(chain[j], n, all)
                         /\ \A l \in 1 .. j - 1 : Level(chain[l], n, all) = {}

MetIn(s) == {c.fqcn : c \in {d \in ToSet(s) : d.kind = "trait"}}

\* What the traits of one more class of the chain add.
LEMMA TraitsAdd ==
  ASSUME NEW visible, NEW all, NEW sealed, NEW reach, World(visible, all, sealed, reach),
         NEW s \in Seq(visible), KeepsTraits(s, visible), NEW c \in visible
  PROVE  LET ts == TraitSources(c.uses, MetIn(s), visible)
         IN /\ ts \in Seq(visible)
            /\ \A u \in TraitsOf(c, visible) : u \in ToSet(s) \cup ToSet(ts)
            /\ \A v \in ToSet(s) \cup ToSet(ts) : v.kind = "trait" =>
                 TraitsOf(v, visible) \subseteq ToSet(s) \cup ToSet(ts)
            /\ \A n, in : TraitLookup(in, n, all) =>
                 \A x : FirstIn(ts, n, x) => \E t \in TraitsOf(c, visible) : Defined(x, n) \subseteq in[t]
<1> DEFINE f == CHOOSE f : Walked(f, visible)
           at == [todo |-> c.uses, visited |-> MetIn(s)]
           ts == TraitSources(c.uses, MetIn(s), visible)
<1>1. Tidy(visible)
  <2>1. IsFiniteSet(all) /\ visible \subseteq all
    BY DEF World, Tidy
  <2>2. IsFiniteSet(visible)
    BY <2>1, FS_Subset
  <2> QED
    BY <2>1, <2>2 DEF World, Tidy
<1>2. Walked(f, visible)
  BY <1>1, WalksAre
<1>3. \A d \in ToSet(s) : d \in visible
  BY DEF ToSet
<1>4. c.uses \in Seq(STRING) /\ MetIn(s) \in SUBSET STRING
  BY <1>1, <1>3 DEF Tidy, MetIn
<1>5. at \in Walks /\ at.todo = c.uses /\ at.visited = MetIn(s)
  BY <1>4 DEF Walks
<1>6. ts = f[at]
  BY <1>4, TraitSourcesWalk
<1> HIDE DEF f, at, ts
<1>7. ts \in Seq({d \in visible : d.kind = "trait"})
  BY <1>1, <1>2, <1>5, <1>6, WalkCollects
<1>8. ts \in Seq(visible) /\ \A d \in ToSet(ts) : d \in visible /\ d.kind = "trait"
  <2>1. \A q : q \in Seq({d \in visible : d.kind = "trait"}) => q \in Seq(visible)
    OBVIOUS
  <2> QED
    BY <1>7, <2>1 DEF ToSet
<1> DEFINE B == ToSet(s) \cup ToSet(ts)
           met == at.visited \cup NamesIn(ts)
<1>9. \A v \in visible : v.kind = "trait" => (v.fqcn \in met <=> v \in B)
  <2> SUFFICES ASSUME NEW v \in visible, v.kind = "trait" PROVE v.fqcn \in met <=> v \in B
    OBVIOUS
  <2>1. \A d \in B : d \in visible /\ (d.fqcn = v.fqcn => d = v)
    BY <1>1, <1>3, <1>8 DEF Tidy
  <2>2. v.fqcn \in at.visited <=> v \in ToSet(s)
    BY <1>5, <2>1 DEF MetIn
  <2>3. v.fqcn \in NamesIn(ts) <=> v \in ToSet(ts)
    BY <2>1 DEF NamesIn
  <2> QED
    BY <2>2, <2>3
<1>10. Safe(at, visible)
  <2> SUFFICES ASSUME NEW v \in visible, v.kind = "trait", v.fqcn \in at.visited, NEW u \in TraitsOf(v, visible)
               PROVE  u.fqcn \in at.visited
    BY DEF Safe
  <2>1. PICK d \in ToSet(s) : d.kind = "trait" /\ d.fqcn = v.fqcn
    BY <1>5 DEF MetIn
  <2>2. d = v
    BY <1>1, <1>3, <2>1 DEF Tidy
  <2>3. u \in ToSet(s) /\ u.kind = "trait"
    BY <2>1, <2>2 DEF KeepsTraits, TraitsOf
  <2> QED
    BY <1>5, <2>3 DEF MetIn
<1>11. Complete(at, ts, visible)
  BY <1>1, <1>2, <1>5, <1>6, <1>10, WalkCompletes
<1>12. \A v \in visible : v.kind = "trait" =>
         /\ v.fqcn \in ToSet(c.uses) => v \in B
         /\ v \in B => \A u \in TraitsOf(v, visible) : u.fqcn \in met
  BY <1>5, <1>9, <1>11 DEF Complete
<1>13. \A v : \A u \in TraitsOf(v, visible) : u \in visible /\ u.kind = "trait" /\ u.fqcn \in ToSet(v.uses)
  BY DEF TraitsOf
<1> HIDE DEF B, met
<1>14. \A u \in TraitsOf(c, visible) : u \in B
  BY <1>12, <1>13
<1>15. \A v \in B : v.kind = "trait" => TraitsOf(v, visible) \subseteq B
  <2>1. \A v \in B : v \in visible
    BY <1>3, <1>8 DEF B
  <2> QED
    BY <1>9, <1>12, <1>13, <2>1
<1>16. ASSUME NEW n, NEW in, TraitLookup(in, n, all), NEW x, FirstIn(ts, n, x)
       PROVE  \E t \in TraitsOf(c, visible) : Defined(x, n) \subseteq in[t]
  <2>1. Answered(at, f[at], n, in, visible)
    <3>1. visible \subseteq all
      BY DEF World
    <3> QED
      BY <1>1, <1>2, <1>5, <1>16, <3>1, WalkAnswers
  <2>2. PICK t \in visible : t.kind = "trait" /\ t.fqcn \in ToSet(at.todo) /\ Defined(x, n) \subseteq in[t]
    BY <1>6, <1>16, <2>1 DEF Answered
  <2> QED
    BY <1>5, <2>2 DEF TraitsOf
<1> QED
  BY <1>8, <1>14, <1>15, <1>16 DEF B, ts

\* Whoever is in a sequence that misses a method does not define it.
LEMMA MissedByAll ==
  ASSUME NEW s, NEW n
  PROVE  Misses(s, n) <=> \A c \in ToSet(s) : Defined(c, n) = {}
BY DEF Misses, ToSet

\* If nothing met defines a method, the class's traits do not answer.
LEMMA TraitsMiss ==
  ASSUME NEW visible, NEW all, NEW sealed, NEW reach, World(visible, all, sealed, reach),
         NEW c \in visible, c \in reach, NEW B \in SUBSET visible, NEW n,
         \A t \in B : Defined(t, n) = {},
         TraitsOf(c, visible) \subseteq B,
         \A v \in B : v.kind = "trait" => TraitsOf(v, visible) \subseteq B
  PROVE  InTraits(c, n, all) = {}
<1>1. PICK in : TraitLookup(in, n, all) /\ InTraits(c, n, all) = UNION {in[t] : t \in TraitsOf(c, all)}
  BY TraitsAnswer
<1> DEFINE Q == {t \in B : t.kind = "trait" /\ t \in reach} \cup sealed
<1>2. \A v \in reach : \A u \in TraitsOf(v, all) :
        u \in all /\ u.kind = "trait" /\ u \in reach /\ (u \in sealed \/ u \in TraitsOf(v, visible))
  BY DEF TraitsOf, World
<1>3. visible \subseteq all /\ sealed \subseteq all
      /\ \A t \in sealed : t.kind = "trait" /\ t.methods = <<>> /\ TraitsOf(t, all) \subseteq sealed
  BY DEF World
<1>4. \A t \in sealed : Defined(t, n) = {}
  <2>1. ToSet(<<>>) = {}
    BY DEF ToSet
  <2> QED
    BY <1>3, <2>1 DEF Defined
<1>5. Q \in SUBSET {d \in all : d.kind = "trait"}
  BY <1>3
<1>6. ASSUME NEW t \in Q PROVE Defined(t, n) = {} /\ TraitsOf(t, all) \subseteq Q
  <2>1. CASE t \in sealed
    BY <1>3, <1>4, <2>1
  <2>2. CASE t \in B /\ t.kind = "trait" /\ t \in reach
    <3>1. \A u \in TraitsOf(t, all) : u.kind = "trait" /\ u \in reach /\ (u \in sealed \/ u \in B)
      BY <1>2, <2>2
    <3> QED
      BY <2>2, <3>1
  <2> QED
    BY <2>1, <2>2
<1>7. TraitsOf(c, all) \subseteq Q
  <2>1. \A u \in TraitsOf(c, all) : u.kind = "trait" /\ u \in reach /\ (u \in sealed \/ u \in B)
    BY <1>2
  <2> QED
    BY <2>1
<1> HIDE DEF Q
<1>8. \A t \in Q : in[t] = {}
  <2>1. TraitLookup(in, n, all)
    BY <1>1
  <2> QED
    BY <1>5, <1>6, <2>1, NoTraitAnswers
<1>9. \A t \in TraitsOf(c, all) : in[t] = {}
  BY <1>7, <1>8
<1> QED
  BY <1>1, <1>9

\* One more class of the chain, with its traits.
LEMMA LevelAdds ==
  ASSUME NEW visible, NEW all, NEW sealed, NEW reach, World(visible, all, sealed, reach),
         NEW s \in Seq(visible), KeepsTraits(s, visible),
         NEW chain \in Seq(visible), NEW i \in 1 .. Len(chain), chain[i] \in reach
  PROVE  LET c == chain[i]
             more == s \o <<c>> \o TraitSources(c.uses, MetIn(s), visible)
         IN /\ more \in Seq(visible) /\ KeepsTraits(more, visible)
            /\ \A n : Nearest(s, chain, i - 1, n, all) => Nearest(more, chain, i, n, all)
<1> DEFINE c == chain[i]
           ts == TraitSources(c.uses, MetIn(s), visible)
           upto == s \o <<c>>
           more == upto \o ts
           B == ToSet(s) \cup ToSet(ts)
<1>1. c \in visible /\ c \in reach
  OBVIOUS
<1> HIDE DEF c
<1>2. /\ ts \in Seq(visible)
      /\ \A u \in TraitsOf(c, visible) : u \in B
      /\ \A v \in B : v.kind = "trait" => TraitsOf(v, visible) \subseteq B
      /\ \A n, in : TraitLookup(in, n, all) =>
           \A x : FirstIn(ts, n, x) => \E t \in TraitsOf(c, visible) : Defined(x, n) \subseteq in[t]
  BY <1>1, TraitsAdd
<1> HIDE DEF ts
<1>3. <<c>> \in Seq(visible) /\ ToSet(<<c>>) = {c}
  BY <1>1 DEF ToSet
<1>4. upto \in Seq(visible) /\ ToSet(upto) = ToSet(s) \cup {c}
  <2>1. s \o <<c>> \in Seq(visible) /\ Joined(s, <<c>>, s \o <<c>>)
    BY <1>3, BothAre
  <2> QED
    BY <1>3, <2>1 DEF Joined
<1> HIDE DEF upto
<1>5. more \in Seq(visible) /\ ToSet(more) = B \cup {c}
  <2>1. upto \o ts \in Seq(visible) /\ Joined(upto, ts, upto \o ts)
    BY <1>2, <1>4, BothAre
  <2> QED
    BY <1>4, <2>1 DEF Joined
<1>6. \A d \in B : d \in visible
  <2>1. \A d \in ToSet(more) : d \in visible
    BY <1>5 DEF ToSet
  <2> QED
    BY <1>5, <2>1
<1>7. KeepsTraits(more, visible)
  BY <1>2, <1>5 DEF KeepsTraits
<1>8. i \in Nat /\ i \in 1 .. i /\ \A l \in 1 .. i : l \in 1 .. i - 1 \/ l = i
  OBVIOUS
<1>9. ASSUME NEW n, Nearest(s, chain, i - 1, n, all)
      PROVE  Nearest(more, chain, i, n, all)
  <2>1. Misses(more, n) <=> Misses(s, n) /\ Defined(c, n) = {} /\ Misses(ts, n)
    <3>1. Misses(more, n) <=> \A d \in B \cup {c} : Defined(d, n) = {}
      BY <1>5, MissedByAll
    <3>2. Misses(s, n) /\ Misses(ts, n) <=> \A d \in B : Defined(d, n) = {}
      BY MissedByAll
    <3> HIDE DEF more
    <3> QED
      BY <3>1, <3>2
  <2>2. Misses(s, n) => \A l \in 1 .. i - 1 : Level(chain[l], n, all) = {}
    BY <1>9 DEF Nearest
  <2>3. ASSUME Misses(more, n) PROVE \A j \in 1 .. i : Level(chain[j], n, all) = {}
    <3>1. \A d \in B : Defined(d, n) = {}
      BY <2>1, <2>3, MissedByAll
    <3>2. InTraits(c, n, all) = {}
      <4>1. B \in SUBSET visible /\ TraitsOf(c, visible) \subseteq B
        BY <1>2, <1>6
      <4> HIDE DEF B
      <4> QED
        BY <1>1, <1>2, <3>1, <4>1, TraitsMiss
    <3>3. Level(chain[i], n, all) = {}
      BY <2>1, <2>3, <3>2 DEF Level, c
    <3> QED
      BY <1>8, <2>1, <2>2, <2>3, <3>3
  <2>4. ASSUME NEW x, FirstIn(more, n, x)
        PROVE  \E j \in 1 .. i : /\ Defined(x, n) \subseteq Level(chain[j], n, all)
                                 /\ \A l \in 1 .. j - 1 : Level(chain[l], n, all) = {}
    <3>1. FirstIn(upto, n, x) \/ (Misses(upto, n) /\ FirstIn(ts, n, x))
      BY <1>2, <1>4, <2>4, FirstOfBoth
    <3>2. CASE FirstIn(upto, n, x)
      <4>1. FirstIn(s, n, x) \/ (Misses(s, n) /\ FirstIn(<<c>>, n, x))
        BY <1>3, <3>2, FirstOfBoth DEF upto
      <4>2. CASE FirstIn(s, n, x)
        <5>1. PICK j \in 1 .. i - 1 : /\ Defined(x, n) \subseteq Level(chain[j], n, all)
                                      /\ \A l \in 1 .. j - 1 : Level(chain[l], n, all) = {}
          BY <1>9, <4>2 DEF Nearest
        <5>2. j \in 1 .. i
          BY <1>8
        <5> QED
          BY <5>1, <5>2
      <4>3. CASE Misses(s, n) /\ FirstIn(<<c>>, n, x)
        <5>1. x = c /\ Defined(c, n) # {}
          BY <4>3 DEF FirstIn
        <5>2. Defined(x, n) \subseteq Level(chain[i], n, all)
          BY <5>1 DEF Level, c
        <5> QED
          BY <1>8, <2>2, <4>3, <5>2
      <4> QED
        BY <4>1, <4>2, <4>3
    <3>3. CASE Misses(upto, n) /\ FirstIn(ts, n, x)
      <4>1. Misses(s, n) /\ Defined(c, n) = {}
        BY <1>4, <3>3, MissedByAll
      <4>2. PICK in : TraitLookup(in, n, all) /\ InTraits(c, n, all) = UNION {in[t] : t \in TraitsOf(c, all)}
        BY TraitsAnswer
      <4>3. PICK t \in TraitsOf(c, visible) : Defined(x, n) \subseteq in[t]
        BY <1>2, <3>3, <4>2
      <4>4. t \in TraitsOf(c, all)
        BY DEF TraitsOf, World
      <4>5. Defined(x, n) \subseteq InTraits(c, n, all)
        BY <4>2, <4>3, <4>4
      <4>6. Defined(x, n) \subseteq Level(chain[i], n, all)
        BY <4>1, <4>5 DEF Level, c
      <4> QED
        BY <1>8, <2>2, <4>1, <4>6
    <3> QED
      BY <3>1, <3>2, <3>3
  <2> QED
    BY <2>3, <2>4 DEF Nearest
<1> QED
  BY <1>5, <1>7, <1>9 DEF upto, ts, c

(* SourcesAlong's recursion.                                               *)
Gathers(f, chain, classes) ==
  f = [i \in 0 .. Len(chain) |->
         IF i = 0 THEN <<>>
         ELSE f[i - 1] \o <<chain[i]>> \o TraitSources(chain[i].uses, MetIn(f[i - 1]), classes)]

\* The sources of a chain are what that recursion ends with.
LEMMA SourcesGather ==
  ASSUME NEW chain, NEW classes
  PROVE  SourcesAlong(chain, classes) = (CHOOSE f : Gathers(f, chain, classes))[Len(chain)]
BY DEF SourcesAlong, Gathers, MetIn

\* The sources of a class answer as PHP does.
LEMMA SourcesAreNearest ==
  ASSUME NEW visible, NEW all, NEW sealed, NEW reach, World(visible, all, sealed, reach),
         NEW chain \in Seq(visible), \A i \in 1 .. Len(chain) : chain[i] \in reach
  PROVE  /\ SourcesAlong(chain, visible) \in Seq(visible)
         /\ \A n : Nearest(SourcesAlong(chain, visible), chain, Len(chain), n, all)
<1> DEFINE N == Len(chain)
           S == {s \in Seq(visible) : KeepsTraits(s, visible)}
           G == [p \in (1 .. N) \X S |->
                   p[2] \o <<chain[p[1]]>> \o TraitSources(chain[p[1]].uses, MetIn(p[2]), visible)]
           St == [i \in 0 .. N |-> {s \in S : \A n : Nearest(s, chain, i, n, all)}]
<1>0. N \in Nat
  OBVIOUS
<1>1. <<>> \in St[0]
  <2>1. <<>> \in Seq(visible) /\ ToSet(<<>>) = {} /\ 0 \in 0 .. N /\ 1 .. 0 = {}
    BY <1>0 DEF ToSet
  <2>2. <<>> \in S
    BY <2>1 DEF KeepsTraits
  <2>3. \A n : Nearest(<<>>, chain, 0, n, all)
    BY <2>1 DEF Nearest, FirstIn
  <2> HIDE DEF S
  <2> QED
    BY <2>1, <2>2, <2>3
<1>2. ASSUME NEW i \in 1 .. N, NEW s \in St[i - 1]
      PROVE  /\ s \o <<chain[i]>> \o TraitSources(chain[i].uses, MetIn(s), visible) \in St[i]
             /\ G[<<i, s>>] = s \o <<chain[i]>> \o TraitSources(chain[i].uses, MetIn(s), visible)
  <2> DEFINE more == s \o <<chain[i]>> \o TraitSources(chain[i].uses, MetIn(s), visible)
  <2>1. i - 1 \in 0 .. N /\ i \in 0 .. N
    BY <1>0
  <2>2. s \in S /\ \A n : Nearest(s, chain, i - 1, n, all)
    <3> HIDE DEF S
    <3> QED BY <2>1
  <2>3. s \in Seq(visible) /\ KeepsTraits(s, visible)
    BY <2>2
  <2>4. more \in Seq(visible) /\ KeepsTraits(more, visible) /\ \A n : Nearest(more, chain, i, n, all)
    <3>1. i \in 1 .. Len(chain) /\ chain[i] \in reach
      OBVIOUS
    <3> HIDE DEF S, G, St, N
    <3> QED
      BY <2>2, <2>3, <3>1, LevelAdds DEF N
  <2>5. G[<<i, s>>] = more
    <3> HIDE DEF S
    <3> QED BY <2>2
  <2> HIDE DEF more, G
  <2>6. more \in S
    BY <2>4
  <2> HIDE DEF S
  <2>7. more \in St[i]
    BY <2>1, <2>4, <2>6
  <2> QED
    BY <2>5, <2>7 DEF more
<1>3. \A s : s \in St[N] => s \in Seq(visible) /\ \A n : Nearest(s, chain, N, n, all)
  <2>1. N \in 0 .. N
    BY <1>0
  <2> QED
    BY <2>1
<1> HIDE DEF G, St, N
<1>4. PICK g : IteratesAt(g, <<>>, G, N)
  <2>1. LeadsAt(G, St, N)
    BY <1>2 DEF LeadsAt
  <2> QED
    BY <1>0, <1>1, <2>1, IterationAt
<1>5. g[0] = <<>> /\ \A i \in 1 .. N : g[i] = G[<<i, g[i - 1]>>]
  <2>1. 0 \in 0 .. N /\ \A i \in 1 .. N : i \in 0 .. N /\ i # 0
    BY <1>0
  <2> QED
    BY <1>4, <2>1 DEF IteratesAt
<1>6. \A i \in 0 .. N : g[i] \in St[i]
  <2>1. \A i \in 1 .. N : g[i - 1] \in St[i - 1] => g[i] \in St[i]
    BY <1>2, <1>5
  <2> QED
    BY <1>0, <1>1, <1>5, <2>1, Along
<1>7. \A i \in 0 .. N : g[i] = IF i = 0 THEN <<>>
        ELSE g[i - 1] \o <<chain[i]>> \o TraitSources(chain[i].uses, MetIn(g[i - 1]), visible)
  <2> SUFFICES ASSUME NEW i \in 0 .. N
               PROVE  g[i] = IF i = 0 THEN <<>>
                        ELSE g[i - 1] \o <<chain[i]>> \o TraitSources(chain[i].uses, MetIn(g[i - 1]), visible)
    OBVIOUS
  <2>1. CASE i = 0
    BY <1>5, <2>1
  <2>2. CASE i # 0
    <3>1. i \in 1 .. N /\ i - 1 \in 0 .. N
      BY <1>0, <2>2
    <3>2. g[i - 1] \in St[i - 1]
      BY <1>6, <3>1
    <3> QED
      BY <1>2, <1>5, <2>2, <3>1, <3>2
  <2> QED
    BY <2>1, <2>2
<1>8. Gathers(g, chain, visible)
  <2>1. g = [i \in 0 .. N |-> g[i]]
    BY <1>4 DEF IteratesAt
  <2>2. g = [i \in 0 .. N |-> IF i = 0 THEN <<>>
          ELSE g[i - 1] \o <<chain[i]>> \o TraitSources(chain[i].uses, MetIn(g[i - 1]), visible)]
    BY <1>7, <2>1
  <2> QED
    BY <2>2 DEF Gathers, N
<1> DEFINE f == CHOOSE f : Gathers(f, chain, visible)
<1>9. Gathers(f, chain, visible) /\ SourcesAlong(chain, visible) = f[N]
  BY <1>8, SourcesGather DEF N
<1> HIDE DEF f
<1>10. /\ f[0] = <<>>
       /\ \A i \in 1 .. N : f[i] = f[i - 1] \o <<chain[i]>> \o TraitSources(chain[i].uses, MetIn(f[i - 1]), visible)
  <2>1. 0 \in 0 .. N /\ \A i \in 1 .. N : i \in 0 .. N /\ i # 0
    BY <1>0
  <2> QED
    BY <1>9, <2>1 DEF Gathers, N
<1>11. \A i \in 0 .. N : f[i] \in St[i]
  <2>1. \A i \in 1 .. N : f[i - 1] \in St[i - 1] => f[i] \in St[i]
    BY <1>2, <1>10
  <2> QED
    BY <1>0, <1>1, <1>10, <2>1, Along
<1>12. f[N] \in St[N]
  BY <1>0, <1>11
<1> QED
  BY <1>3, <1>9, <1>12 DEF N

\* PHP goes up the same chain, and on if it does not end there.
LEMMA PhpClimbs ==
  ASSUME NEW visible, NEW all, NEW sealed, NEW reach, World(visible, all, sealed, reach),
         NEW fqcn, NEW chain, IsChain(chain, fqcn, visible), chain # <<>>, NEW n
  PROVE  /\ \A j \in 1 .. Len(chain) : (\A l \in 1 .. j - 1 : Level(chain[l], n, all) = {}) =>
              Level(chain[j], n, all) \subseteq PhpMethod(fqcn, n, all)
         /\ (\A j \in 1 .. Len(chain) : Level(chain[j], n, all) = {})
              /\ Named(all, Last(chain).parent) = {} => PhpMethod(fqcn, n, all) = {}
<1> DEFINE N == Len(chain)
           None(j) == \A l \in 1 .. j - 1 : Level(chain[l], n, all) = {}
<1>1. PICK from : /\ ClassLookup(from, n, all)
                  /\ \A q : PhpMethod(q, n, all) = UNION {from[c] : c \in Named(all, q)}
  BY ClassesAnswer
<1>2. chain \in Seq(visible) /\ N \in Nat /\ N >= 1 /\ \A i \in 1 .. N : chain[i] \in all
  <2>1. chain \in Seq(visible) /\ visible \subseteq all
    BY DEF IsChain, World
  <2>2. chain # <<>> => Len(chain) \in Nat \ {0}
    BY <2>1
  <2>3. \A i \in 1 .. N : chain[i] \in visible
    BY <2>1
  <2> QED
    BY <2>1, <2>2, <2>3
<1>3. \A i \in 1 .. N : Named(all, chain[i].fqcn) = {chain[i]}
  BY <1>2 DEF Named, World, Tidy
<1>4. \A i \in 1 .. N : Level(chain[i], n, all) # {} => from[chain[i]] = Level(chain[i], n, all)
  BY <1>1, <1>2 DEF ClassLookup
<1>5. \A i \in 1 .. N : Level(chain[i], n, all) = {} =>
        from[chain[i]] = UNION {from[p] : p \in Named(all, chain[i].parent)}
  BY <1>1, <1>2 DEF ClassLookup
<1> DEFINE Of(F) == UNION {from[c] : c \in F}
<1>0. Of({}) = {} /\ \A c : Of({c}) = from[c]
  OBVIOUS
<1>6. PhpMethod(fqcn, n, all) = from[chain[1]]
  <2>1. 1 \in 1 .. N /\ chain[1].fqcn = fqcn
    BY <1>2 DEF IsChain
  <2>2. Named(all, fqcn) = {chain[1]}
    BY <1>3, <2>1
  <2>3. PhpMethod(fqcn, n, all) = Of(Named(all, fqcn))
    BY <1>1
  <2> HIDE DEF Of
  <2> QED
    BY <1>0, <2>2, <2>3
<1> DEFINE T == {j \in Nat : j + 1 \in 1 .. N /\ None(j + 1) => from[chain[1]] = from[chain[j + 1]]}
<1>7. 0 \in T
  OBVIOUS
<1>8. ASSUME NEW j \in T PROVE j + 1 \in T
  <2>1. j \in Nat /\ j + 1 \in Nat
    OBVIOUS
  <2> DEFINE i == j + 1
  <2>2. ASSUME i + 1 \in 1 .. N, None(i + 1) PROVE from[chain[1]] = from[chain[i + 1]]
    <3>1. i \in 1 .. N /\ i \in 1 .. (i + 1) - 1 /\ \A l \in 1 .. i - 1 : l \in 1 .. (i + 1) - 1
      BY <1>2, <2>1, <2>2
    <3>2. None(i) /\ Level(chain[i], n, all) = {}
      BY <2>2, <3>1
    <3>3. from[chain[1]] = from[chain[i]]
      <4> HIDE DEF None
      <4> QED BY <3>1, <3>2
    <3>4. chain[i + 1].fqcn = chain[i].parent
      <4>1. i + 1 # 1 /\ (i + 1) - 1 = i
        BY <2>1
      <4> QED
        BY <2>2, <4>1 DEF IsChain
    <3>5. Named(all, chain[i].parent) = {chain[i + 1]}
      BY <1>3, <2>2, <3>4
    <3>6. from[chain[i]] = Of(Named(all, chain[i].parent))
      BY <1>5, <3>1, <3>2
    <3>7. from[chain[i]] = from[chain[i + 1]]
      <4> HIDE DEF Of
      <4> QED BY <1>0, <3>5, <3>6
    <3> QED
      BY <3>3, <3>7
  <2> HIDE DEF None
  <2> QED
    BY <2>1, <2>2
<1>9. T = Nat
  <2>1. T \subseteq Nat
    OBVIOUS
  <2> HIDE DEF T
  <2> QED
    BY <1>7, <1>8, <2>1, NatSetInduction
<1>10. ASSUME NEW j \in 1 .. N, None(j) PROVE from[chain[1]] = from[chain[j]]
  <2>1. j - 1 \in Nat /\ (j - 1) + 1 = j
    BY <1>2
  <2>2. \A i \in T : i + 1 \in 1 .. N /\ None(i + 1) => from[chain[1]] = from[chain[i + 1]]
    OBVIOUS
  <2> HIDE DEF None, T
  <2> QED
    BY <1>9, <1>10, <2>1, <2>2
<1>11. ASSUME NEW j \in 1 .. N, None(j) PROVE Level(chain[j], n, all) \subseteq PhpMethod(fqcn, n, all)
  <2>1. from[chain[1]] = from[chain[j]]
    BY <1>10, <1>11
  <2> QED
    BY <1>4, <1>6, <2>1
<1>12. ASSUME \A j \in 1 .. N : Level(chain[j], n, all) = {}, Named(all, Last(chain).parent) = {}
       PROVE  PhpMethod(fqcn, n, all) = {}
  <2>0. N \in 1 .. N /\ \A l \in 1 .. N - 1 : l \in 1 .. N
    BY <1>2
  <2>1. N \in 1 .. N /\ None(N) /\ Last(chain) = chain[N]
    BY <1>12, <2>0 DEF Last
  <2>2. from[chain[1]] = from[chain[N]]
    <3> HIDE DEF None
    <3> QED BY <1>10, <2>1
  <2>3. from[chain[N]] = Of(Named(all, chain[N].parent)) /\ Named(all, chain[N].parent) = {}
    BY <1>5, <1>12, <2>1
  <2> HIDE DEF Of, None
  <2> QED
    BY <1>0, <1>6, <2>2, <2>3
<1> QED
  BY <1>11, <1>12

\* The first source to define a method has what PHP calls; if none does, PHP finds none.
LEMMA SourcesTell ==
  ASSUME NEW visible, NEW all, NEW sealed, NEW reach, World(visible, all, sealed, reach),
         NEW class \in visible, class \in reach
  PROVE  LET s == Sources(class, visible)
         IN /\ s \in Seq(visible)
            /\ \A n, x : FirstIn(s, n, x) => Defined(x, n) \subseteq PhpMethod(class.fqcn, n, all)
            /\ Named(all, Last(Chain(class.fqcn, visible)).parent) = {} =>
                 \A n : Misses(s, n) => PhpMethod(class.fqcn, n, all) = {}
<1> DEFINE chain == Chain(class.fqcn, visible)
           s == SourcesAlong(chain, visible)
<1>1. IsChain(chain, class.fqcn, visible) /\ chain # <<>>
  <2>1. Named(visible, class.fqcn) # {}
    BY DEF Named
  <2> QED
    BY <2>1, ChainLinks
<1>2. chain \in Seq(visible) /\ \A i \in 1 .. Len(chain) : chain[i] \in reach
  <2> DEFINE near == visible \cap reach
  <2>1. near \subseteq visible /\ Named(visible, class.fqcn) \subseteq near
    BY DEF Named, World, Tidy
  <2>2. \A c \in near : Named(visible, c.parent) \subseteq near
    BY DEF Named, World
  <2> HIDE DEF near
  <2>3. chain = Chain(class.fqcn, near)
    BY <2>1, <2>2, ChainsAgree
  <2>4. IsChain(chain, class.fqcn, near)
    BY <2>3, ChainLinks
  <2>5. \A i \in 1 .. Len(chain) : chain[i] \in near
    BY <2>4 DEF IsChain
  <2> HIDE DEF chain
  <2> QED
    BY <1>1, <2>5 DEF IsChain, near
<1> HIDE DEF chain
<1>3. s \in Seq(visible) /\ \A n : Nearest(s, chain, Len(chain), n, all)
  BY <1>2, SourcesAreNearest
<1> HIDE DEF s
<1>4. ASSUME NEW n, NEW x, FirstIn(s, n, x) PROVE Defined(x, n) \subseteq PhpMethod(class.fqcn, n, all)
  <2>1. PICK j \in 1 .. Len(chain) : /\ Defined(x, n) \subseteq Level(chain[j], n, all)
                                     /\ \A l \in 1 .. j - 1 : Level(chain[l], n, all) = {}
    BY <1>3, <1>4 DEF Nearest
  <2>2. Level(chain[j], n, all) \subseteq PhpMethod(class.fqcn, n, all)
    BY <1>1, <2>1, PhpClimbs
  <2> QED
    BY <2>1, <2>2
<1>5. ASSUME Named(all, Last(chain).parent) = {}, NEW n, Misses(s, n)
      PROVE  PhpMethod(class.fqcn, n, all) = {}
  <2>1. \A j \in 1 .. Len(chain) : Level(chain[j], n, all) = {}
    BY <1>3, <1>5 DEF Nearest
  <2> QED
    BY <1>1, <1>5, <2>1, PhpClimbs
<1> QED
  BY <1>3, <1>4, <1>5 DEF Sources, s, chain

----------------------------------------------------------------------------
(* FlattenSeq's recursion, begun with nothing.                             *)
Chains(h, seqs) == h = [n \in 0 .. Len(seqs) |-> IF n = 0 THEN <<>> ELSE h[n - 1] \o seqs[n]]

\* Sequences are flattened one after the other.
LEMMA Flattens ==
  ASSUME NEW S, NEW seqs \in Seq(Seq(S))
  PROVE  \E h : Chains(h, seqs) /\ FlattenSeq(seqs) = h[Len(seqs)]
<1> DEFINE N == Len(seqs)
           St == [n \in 0 .. N |-> Seq(S)]
           G == [p \in (1 .. N) \X Seq(S) |-> p[2] \o seqs[p[1]]]
<1>0. N \in Nat /\ \A n \in 1 .. N : seqs[n] \in Seq(S)
  OBVIOUS
<1>10. \A q \in Seq(S) : <<>> \o q = q
  OBVIOUS
<1>1. <<>> \in St[0]
  <2>1. 0 \in 0 .. N /\ <<>> \in Seq(S)
    BY <1>0
  <2> QED
    BY <2>1
<1>2. ASSUME NEW n \in 1 .. N, NEW s \in St[n - 1]
      PROVE  G[<<n, s>>] \in St[n] /\ G[<<n, s>>] = s \o seqs[n]
  <2>1. n - 1 \in 0 .. N /\ n \in 0 .. N /\ seqs[n] \in Seq(S)
    BY <1>0
  <2>2. s \in Seq(S)
    BY <2>1
  <2>3. s \o seqs[n] \in Seq(S)
    BY <2>1, <2>2
  <2> QED
    BY <2>1, <2>2, <2>3
<1>3. \A n \in 0 .. N : St[n] = Seq(S)
  OBVIOUS
<1> HIDE DEF St, G, N
<1>4. PICK h : IteratesAt(h, <<>>, G, N)
  <2>1. LeadsAt(G, St, N)
    BY <1>2 DEF LeadsAt
  <2> QED
    BY <1>0, <1>1, <2>1, IterationAt
<1>5. h[0] = <<>> /\ \A n \in 1 .. N : h[n] = G[<<n, h[n - 1]>>]
  <2>1. 0 \in 0 .. N /\ \A n \in 1 .. N : n \in 0 .. N /\ n # 0
    BY <1>0
  <2> QED
    BY <1>4, <2>1 DEF IteratesAt
<1>6. \A n \in 0 .. N : h[n] \in St[n]
  <2>1. \A n \in 1 .. N : h[n - 1] \in St[n - 1] => h[n] \in St[n]
    BY <1>2, <1>5
  <2> QED
    BY <1>0, <1>1, <1>5, <2>1, Along
<1>7. \A n \in 1 .. N : h[n] = h[n - 1] \o seqs[n]
  <2> SUFFICES ASSUME NEW n \in 1 .. N PROVE h[n] = h[n - 1] \o seqs[n]
    OBVIOUS
  <2>1. n - 1 \in 0 .. N
    BY <1>0
  <2> QED
    BY <1>2, <1>5, <1>6, <2>1
<1>8. Chains(h, seqs)
  <2>1. h = [n \in 0 .. N |-> h[n]]
    BY <1>4 DEF IteratesAt
  <2>2. \A n \in 0 .. N : n # 0 => n \in 1 .. N
    BY <1>0
  <2>3. \A n \in 0 .. N : h[n] = IF n = 0 THEN <<>> ELSE h[n - 1] \o seqs[n]
    BY <1>5, <1>7, <2>2
  <2>4. h = [n \in 0 .. N |-> IF n = 0 THEN <<>> ELSE h[n - 1] \o seqs[n]]
    BY <2>1, <2>3
  <2> QED
    BY <2>4 DEF Chains, N
<1>9. FlattenSeq(seqs) = h[N]
  <2>1. CASE N = 0
    <3>1. seqs = <<>>
      BY <2>1 DEF N
    <3> QED
      BY <1>5, <2>1, <3>1 DEF FlattenSeq, N
  <2>2. CASE N # 0
    <3> DEFINE Body(f, i) == IF i = 1 THEN seqs[i] ELSE f[i - 1] \o seqs[i]
               Flat(f) == f = [i \in 1 .. N |-> Body(f, i)]
               flat == CHOOSE f : Flat(f)
               g == [i \in 1 .. N |-> h[i]]
    <3>1. FlattenSeq(seqs) = flat[N]
      BY <2>2 DEF FlattenSeq, N
    <3>2. \A i \in 1 .. N : g[i] = h[i]
      OBVIOUS
    <3>3. g = [i \in 1 .. N |-> g[i]]
      OBVIOUS
    <3> HIDE DEF g
    <3>4. ASSUME NEW i \in 1 .. N PROVE g[i] = Body(g, i)
      <4>1. CASE i = 1
        <5>0. 1 \in 1 .. N /\ 1 - 1 = 0
          BY <4>1
        <5>1. seqs[1] \in Seq(S) /\ h[1] = <<>> \o seqs[1] /\ g[1] = h[1]
          BY <1>0, <1>5, <1>7, <3>2, <5>0
        <5>2. g[1] = seqs[1]
          BY <1>10, <5>1
        <5> QED
          BY <4>1, <5>2
      <4>2. CASE i # 1
        <5>1. i - 1 \in 1 .. N
          BY <1>0, <4>2
        <5> QED
          BY <1>7, <3>2, <4>2, <5>1
      <4> QED
        BY <4>1, <4>2
    <3>5. g = [i \in 1 .. N |-> Body(g, i)]
      BY <3>3, <3>4
    <3>6. Flat(flat)
      BY <3>5
    <3> HIDE DEF flat
    <3> DEFINE U == {i \in Nat : i + 1 <= N => flat[i + 1] = h[i + 1]}
    <3>7. \A i \in 1 .. N : flat[i] = Body(flat, i)
      BY <3>6
    <3>8. 0 \in U
      <4>1. 1 \in 1 .. N /\ 1 - 1 = 0
        BY <1>0, <2>2
      <4>2. flat[1] = seqs[1] /\ seqs[1] \in Seq(S) /\ h[1] = <<>> \o seqs[1]
        BY <1>0, <1>5, <1>7, <3>7, <4>1
      <4>3. flat[1] = h[1]
        BY <1>10, <4>2
      <4> QED
        BY <4>3
    <3>9. ASSUME NEW i \in U PROVE i + 1 \in U
      <4>1. i \in Nat /\ i + 1 \in Nat
        OBVIOUS
      <4>2. ASSUME (i + 1) + 1 <= N PROVE flat[(i + 1) + 1] = h[(i + 1) + 1]
        <5>1. i + 1 <= N /\ (i + 1) + 1 \in 1 .. N /\ (i + 1) + 1 # 1 /\ ((i + 1) + 1) - 1 = i + 1
          BY <1>0, <4>1, <4>2
        <5> DEFINE k == (i + 1) + 1
        <5>2. flat[k - 1] = h[k - 1] /\ k \in 1 .. N /\ k # 1
          BY <5>1
        <5> HIDE DEF k, Body
        <5>3. flat[k] = flat[k - 1] \o seqs[k]
          BY <3>7, <5>2 DEF Body
        <5>4. flat[k] = h[k]
          BY <1>7, <5>2, <5>3
        <5> QED
          BY <5>4 DEF k
      <4> QED
        BY <4>1, <4>2
    <3>10. U = Nat
      <4>1. U \subseteq Nat
        OBVIOUS
      <4> HIDE DEF U
      <4> QED
        BY <3>8, <3>9, <4>1, NatSetInduction
    <3>11. N - 1 \in Nat /\ (N - 1) + 1 = N /\ (N - 1) + 1 <= N
      BY <1>0, <2>2
    <3>12. \A i \in U : i + 1 <= N => flat[i + 1] = h[i + 1]
      OBVIOUS
    <3>13. flat[N] = h[N]
      <4> HIDE DEF U
      <4> QED BY <3>10, <3>11, <3>12
    <3> QED
      BY <3>1, <3>13
  <2> QED
    BY <2>1, <2>2
<1> QED
  BY <1>8, <1>9 DEF N

(* The first of each name among the first n of them.                       *)
Firsts(kept, found, n, S) ==
  /\ kept \in Seq(S)
  /\ \A i, j \in 1 .. Len(kept) : kept[i].m.name = kept[j].m.name => i = j
  /\ \A i \in 1 .. Len(kept) :
       \E p \in 1 .. n : found[p] = kept[i] /\ \A q \in 1 .. p - 1 : found[q].m.name # kept[i].m.name
  /\ \A p \in 1 .. n : \E i \in 1 .. Len(kept) : kept[i].m.name = found[p].m.name

Keep(kept, f) == IF \E i \in DOMAIN kept : kept[i].m.name = f.m.name THEN kept ELSE Append(kept, f)

\* One more of them is kept, unless its name was met.
LEMMA KeepsFirsts ==
  ASSUME NEW S, NEW found \in Seq(S), NEW n \in 1 .. Len(found), NEW kept, Firsts(kept, found, n - 1, S)
  PROVE  Firsts(Keep(kept, found[n]), found, n, S)
<1> DEFINE f == found[n]
<1>1. /\ kept \in Seq(S) /\ DOMAIN kept = 1 .. Len(kept) /\ Len(kept) \in Nat
      /\ n \in Nat /\ n >= 1 /\ f \in S
      /\ \A p \in 1 .. n : p \in 1 .. n - 1 \/ p = n
      /\ \A p \in 1 .. n - 1 : p \in 1 .. n
      /\ n \in 1 .. n
  BY DEF Firsts
<1> HIDE DEF f
<1>2. CASE \E i \in DOMAIN kept : kept[i].m.name = f.m.name
  <2>1. Keep(kept, f) = kept
    BY <1>2 DEF Keep
  <2>2. \A p \in 1 .. n : \E i \in 1 .. Len(kept) : kept[i].m.name = found[p].m.name
    BY <1>1, <1>2 DEF Firsts, f
  <2>3. \A i \in 1 .. Len(kept) :
          \E p \in 1 .. n : found[p] = kept[i] /\ \A q \in 1 .. p - 1 : found[q].m.name # kept[i].m.name
    BY <1>1 DEF Firsts
  <2> QED
    BY <2>1, <2>2, <2>3 DEF Firsts, f
<1>3. CASE ~ \E i \in DOMAIN kept : kept[i].m.name = f.m.name
  <2> DEFINE more == Append(kept, f)
  <2>1. Keep(kept, f) = more
    BY <1>3 DEF Keep
  <2>2. /\ more \in Seq(S) /\ Len(more) = Len(kept) + 1 /\ more[Len(kept) + 1] = f
        /\ \A i \in 1 .. Len(kept) : more[i] = kept[i]
    BY <1>1
  <2> HIDE DEF more
  <2>3. \A i \in 1 .. Len(more) : i \in 1 .. Len(kept) \/ (i = Len(kept) + 1 /\ more[i] = f)
    BY <1>1, <2>2
  <2>4. /\ \A i \in 1 .. Len(kept) : i \in 1 .. Len(more) /\ kept[i].m.name # f.m.name
        /\ Len(kept) + 1 \in 1 .. Len(more)
    <3>1. (\A i \in 1 .. Len(kept) : i \in 1 .. Len(more)) /\ Len(kept) + 1 \in 1 .. Len(more)
      BY <1>1, <2>2
    <3>2. \A i \in 1 .. Len(kept) : kept[i].m.name # f.m.name
      BY <1>1, <1>3
    <3> QED
      BY <3>1, <3>2
  <2>5. \A i, j \in 1 .. Len(more) : more[i].m.name = more[j].m.name => i = j
    <3> SUFFICES ASSUME NEW i \in 1 .. Len(more), NEW j \in 1 .. Len(more), more[i].m.name = more[j].m.name
                 PROVE  i = j
      OBVIOUS
    <3>1. CASE i \in 1 .. Len(kept) /\ j \in 1 .. Len(kept)
      BY <2>2, <3>1 DEF Firsts
    <3>2. CASE i \in 1 .. Len(kept) /\ j \notin 1 .. Len(kept)
      BY <2>2, <2>3, <2>4, <3>2
    <3>3. CASE i \notin 1 .. Len(kept) /\ j \in 1 .. Len(kept)
      BY <2>2, <2>3, <2>4, <3>3
    <3>4. CASE i \notin 1 .. Len(kept) /\ j \notin 1 .. Len(kept)
      BY <2>3, <3>4
    <3> QED
      BY <3>1, <3>2, <3>3, <3>4
  <2>6. \A i \in 1 .. Len(more) :
          \E p \in 1 .. n : found[p] = more[i] /\ \A q \in 1 .. p - 1 : found[q].m.name # more[i].m.name
    <3> SUFFICES ASSUME NEW i \in 1 .. Len(more)
                 PROVE  \E p \in 1 .. n : found[p] = more[i] /\ \A q \in 1 .. p - 1 : found[q].m.name # more[i].m.name
      OBVIOUS
    <3>1. CASE i \in 1 .. Len(kept)
      <4>1. more[i] = kept[i]
        BY <2>2, <3>1
      <4> QED
        BY <1>1, <3>1, <4>1 DEF Firsts
    <3>2. CASE more[i] = f
      <4>1. ASSUME NEW q \in 1 .. n - 1 PROVE found[q].m.name # f.m.name
        BY <2>4 DEF Firsts
      <4>2. found[n] = more[i] /\ \A q \in 1 .. n - 1 : found[q].m.name # more[i].m.name
        BY <3>2, <4>1 DEF f
      <4> QED
        BY <1>1, <4>2
    <3> QED
      BY <2>3, <3>1, <3>2
  <2>7. \A p \in 1 .. n : \E i \in 1 .. Len(more) : more[i].m.name = found[p].m.name
    <3> SUFFICES ASSUME NEW p \in 1 .. n PROVE \E i \in 1 .. Len(more) : more[i].m.name = found[p].m.name
      OBVIOUS
    <3>1. CASE p \in 1 .. n - 1
      <4>1. PICK i \in 1 .. Len(kept) : kept[i].m.name = found[p].m.name
        BY <3>1 DEF Firsts
      <4> QED
        BY <2>2, <2>4, <4>1
    <3>2. CASE p = n
      BY <2>2, <2>4, <3>2 DEF f
    <3> QED
      BY <1>1, <3>1, <3>2
  <2> QED
    BY <2>1, <2>2, <2>5, <2>6, <2>7 DEF Firsts, f
<1> QED
  BY <1>2, <1>3

Keeps(f, found) == f = [n \in 0 .. Len(found) |-> IF n = 0 THEN <<>> ELSE Keep(f[n - 1], found[n])]

\* The `seen` filter is that recursion.
LEMMA FirstsAreKept ==
  ASSUME NEW found
  PROVE  FirstOfEachName(found) = (CHOOSE f : Keeps(f, found))[Len(found)]
BY DEF FirstOfEachName, Keeps, Keep

\* It keeps the first of each name.
LEMMA FirstsOfNames ==
  ASSUME NEW S, NEW found \in Seq(S)
  PROVE  Firsts(FirstOfEachName(found), found, Len(found), S)
<1> DEFINE N == Len(found)
           G == [p \in (1 .. N) \X Seq(S) |-> Keep(p[2], found[p[1]])]
           St == [n \in 0 .. N |-> {s \in Seq(S) : Firsts(s, found, n, S)}]
<1>0. N \in Nat
  OBVIOUS
<1>1. <<>> \in St[0]
  <2>1. 0 \in 0 .. N /\ <<>> \in Seq(S) /\ Len(<<>>) = 0 /\ 1 .. 0 = {}
    BY <1>0
  <2>2. Firsts(<<>>, found, 0, S)
    BY <2>1 DEF Firsts
  <2> QED
    BY <2>1, <2>2
<1>2. ASSUME NEW n \in 1 .. N, NEW s \in St[n - 1]
      PROVE  Keep(s, found[n]) \in St[n] /\ G[<<n, s>>] = Keep(s, found[n])
  <2>1. n - 1 \in 0 .. N /\ n \in 0 .. N
    BY <1>0
  <2>2. s \in Seq(S) /\ Firsts(s, found, n - 1, S)
    BY <2>1
  <2>3. Firsts(Keep(s, found[n]), found, n, S)
    BY <2>2, KeepsFirsts
  <2>4. Keep(s, found[n]) \in Seq(S)
    BY <2>3 DEF Firsts
  <2>5. G[<<n, s>>] = Keep(s, found[n])
    BY <2>2
  <2> HIDE DEF G
  <2>6. Keep(s, found[n]) \in St[n]
    BY <2>1, <2>3, <2>4
  <2> QED
    BY <2>5, <2>6
<1>3. \A s \in St[N] : Firsts(s, found, N, S)
  <2>1. N \in 0 .. N
    BY <1>0
  <2> QED
    BY <2>1
<1> HIDE DEF G, St, N
<1>4. PICK g : IteratesAt(g, <<>>, G, N)
  <2>1. LeadsAt(G, St, N)
    BY <1>2 DEF LeadsAt
  <2> QED
    BY <1>0, <1>1, <2>1, IterationAt
<1>5. 0 \in 0 .. N /\ \A n \in 1 .. N : n \in 0 .. N /\ n # 0 /\ n - 1 \in 0 .. N
  BY <1>0
<1>6. g[0] = <<>> /\ \A n \in 1 .. N : g[n] = G[<<n, g[n - 1]>>]
  BY <1>4, <1>5 DEF IteratesAt
<1>7. \A n \in 0 .. N : g[n] \in St[n]
  <2>1. \A n \in 1 .. N : g[n - 1] \in St[n - 1] => g[n] \in St[n]
    BY <1>2, <1>6
  <2> QED
    BY <1>0, <1>1, <1>6, <2>1, Along
<1>8. Keeps(g, found)
  <2>1. g = [n \in 0 .. N |-> g[n]]
    BY <1>4 DEF IteratesAt
  <2>2. \A n \in 1 .. N : g[n] = Keep(g[n - 1], found[n])
    BY <1>2, <1>5, <1>6, <1>7
  <2>3. \A n \in 0 .. N : n # 0 => n \in 1 .. N
    BY <1>0
  <2>4. \A n \in 0 .. N : g[n] = IF n = 0 THEN <<>> ELSE Keep(g[n - 1], found[n])
    BY <1>6, <2>2, <2>3
  <2>5. g = [n \in 0 .. N |-> IF n = 0 THEN <<>> ELSE Keep(g[n - 1], found[n])]
    BY <2>1, <2>4
  <2> QED
    BY <2>5 DEF Keeps, N
<1> DEFINE f == CHOOSE f : Keeps(f, found)
<1>9. Keeps(f, found) /\ FirstOfEachName(found) = f[N]
  BY <1>8, FirstsAreKept DEF N
<1> HIDE DEF f
<1>10. f[0] = <<>> /\ \A n \in 1 .. N : f[n] = Keep(f[n - 1], found[n])
  BY <1>5, <1>9 DEF Keeps, N
<1>11. \A n \in 0 .. N : f[n] \in St[n]
  <2>1. \A n \in 1 .. N : f[n - 1] \in St[n - 1] => f[n] \in St[n]
    BY <1>2, <1>10
  <2> QED
    BY <1>0, <1>1, <1>10, <2>1, Along
<1>12. f[N] \in St[N]
  BY <1>0, <1>11
<1> QED
  BY <1>3, <1>9, <1>12 DEF N

----------------------------------------------------------------------------
\* A function on an interval is a sequence.
LEMMA IntervalSeq ==
  ASSUME NEW S, NEW N \in Nat, NEW f, f = [j \in 1 .. N |-> f[j]], \A j \in 1 .. N : f[j] \in S
  PROVE  f \in Seq(S) /\ Len(f) = N
<1>1. f \in [1 .. N -> S]
  OBVIOUS
<1> QED
  BY <1>1

(* The methods of the sources, each with where it is from.                 *)
MethodsOf(c) == [j \in DOMAIN c.methods |-> [m |-> c.methods[j], from |-> c]]

(* Those of the first n sources: all their methods, and those no earlier   *)
(* one has the name of are from the first source to define them.           *)
Listed(found, sources, n, S) ==
  /\ found \in Seq(S)
  /\ \A name : (\E p \in 1 .. Len(found) : found[p].m.name = name)
                 <=> (\E i \in 1 .. n : Defined(sources[i], name) # {})
  /\ \A p \in 1 .. Len(found) :
       (\A q \in 1 .. p - 1 : found[q].m.name # found[p].m.name) =>
         \E i \in 1 .. n : /\ found[p].from = sources[i]
                           /\ found[p].m \in Defined(sources[i], found[p].m.name)
                           /\ \A l \in 1 .. i - 1 : Defined(sources[l], found[p].m.name) = {}

\* One more source.
LEMMA SourceAdds ==
  ASSUME NEW S, NEW sources \in Seq(S), NEW n \in 1 .. Len(sources), NEW M,
         sources[n].methods \in Seq(M),
         NEW R, \A j \in DOMAIN sources[n].methods : MethodsOf(sources[n])[j] \in R,
         NEW found, Listed(found, sources, n - 1, R)
  PROVE  Listed(found \o MethodsOf(sources[n]), sources, n, R)
<1> DEFINE c == sources[n]
           ms == MethodsOf(c)
           more == found \o ms
<1>1. /\ c.methods \in Seq(M) /\ DOMAIN c.methods = 1 .. Len(c.methods) /\ Len(c.methods) \in Nat
  OBVIOUS
<1> HIDE DEF c
<1>2. ms = [j \in 1 .. Len(c.methods) |-> [m |-> c.methods[j], from |-> c]]
  BY <1>1 DEF MethodsOf
<1>3. ms \in Seq(R) /\ Len(ms) = Len(c.methods)
  <2>1. \A j \in 1 .. Len(c.methods) : ms[j] \in R
    BY <1>1 DEF c
  <2>2. \A j \in 1 .. Len(c.methods) : ms[j] = [m |-> c.methods[j], from |-> c]
    BY <1>2
  <2>3. ms = [j \in 1 .. Len(c.methods) |-> ms[j]]
    BY <1>2, <2>2
  <2> HIDE DEF ms
  <2> QED
    BY <1>1, <2>1, <2>3, IntervalSeq
<1>4. \A j \in 1 .. Len(ms) : ms[j].m = c.methods[j] /\ ms[j].from = c
  BY <1>2, <1>3
<1> HIDE DEF ms
<1>5. found \in Seq(R)
  BY DEF Listed
<1>6. more \in Seq(R) /\ Joined(found, ms, more)
  BY <1>3, <1>5, BothAre
<1>7. Len(more) = Len(found) + Len(ms) /\ Len(found) \in Nat /\ Len(ms) \in Nat
  BY <1>6 DEF Joined
<1> HIDE DEF more
<1>8. /\ n \in Nat /\ \A i \in 1 .. n : i \in 1 .. n - 1 \/ i = n
      /\ n \in 1 .. n /\ \A i \in 1 .. n - 1 : i \in 1 .. n
  OBVIOUS
<1>9. /\ \A j \in 1 .. Len(ms) : ms[j].m \in Defined(c, ms[j].m.name)
      /\ \A name : Defined(c, name) # {} => \E j \in 1 .. Len(ms) : ms[j].m.name = name
  <2>1. \A j \in 1 .. Len(ms) : c.methods[j] \in ToSet(c.methods)
    BY <1>1, <1>3 DEF ToSet
  <2>2. ASSUME NEW j \in 1 .. Len(ms) PROVE ms[j].m \in Defined(c, ms[j].m.name)
    BY <1>4, <2>1 DEF Defined
  <2>3. ASSUME NEW name, Defined(c, name) # {} PROVE \E j \in 1 .. Len(ms) : ms[j].m.name = name
    <3>1. PICK m \in ToSet(c.methods) : m.name = name
      BY <2>3 DEF Defined
    <3>2. PICK j \in DOMAIN c.methods : m = c.methods[j]
      BY DEF ToSet
    <3> QED
      BY <1>1, <1>3, <1>4, <3>1, <3>2
  <2> QED
    BY <2>2, <2>3
<1>10. \A name : (\E p \in 1 .. Len(found) : found[p].m.name = name)
                   <=> (\E i \in 1 .. n - 1 : Defined(sources[i], name) # {})
  BY DEF Listed
<1>11. /\ \A p \in 1 .. Len(found) : p \in 1 .. Len(more) /\ more[p] = found[p]
       /\ \A p \in 1 .. Len(ms) : Len(found) + p \in 1 .. Len(more) /\ more[Len(found) + p] = ms[p]
       /\ \A p \in 1 .. Len(more) : p \in 1 .. Len(found) \/ \E q \in 1 .. Len(ms) : p = Len(found) + q
  <2>1. /\ \A p \in 1 .. Len(found) : p \in 1 .. Len(more)
        /\ \A p \in 1 .. Len(ms) : Len(found) + p \in 1 .. Len(more)
    BY <1>7
  <2> QED
    BY <1>6, <1>7, <2>1 DEF Joined
<1>12. ASSUME NEW name
       PROVE  (\E p \in 1 .. Len(more) : more[p].m.name = name) <=> (\E i \in 1 .. n : Defined(sources[i], name) # {})
  <2>1. ASSUME NEW p \in 1 .. Len(more), more[p].m.name = name
        PROVE  \E i \in 1 .. n : Defined(sources[i], name) # {}
    <3>1. CASE p \in 1 .. Len(found)
      <4>1. \E i \in 1 .. n - 1 : Defined(sources[i], name) # {}
        BY <1>10, <1>11, <2>1, <3>1
      <4> QED
        BY <1>8, <4>1
    <3>2. CASE p \notin 1 .. Len(found)
      <4>1. PICK q \in 1 .. Len(ms) : p = Len(found) + q
        BY <1>11, <3>2
      <4>2. ms[q].m \in Defined(c, name)
        BY <1>9, <1>11, <2>1, <4>1
      <4> QED
        BY <1>8, <4>2 DEF c
    <3> QED
      BY <3>1, <3>2
  <2>2. ASSUME NEW i \in 1 .. n, Defined(sources[i], name) # {}
        PROVE  \E p \in 1 .. Len(more) : more[p].m.name = name
    <3>1. CASE i \in 1 .. n - 1
      BY <1>10, <1>11, <2>2, <3>1
    <3>2. CASE i = n
      <4>1. PICK j \in 1 .. Len(ms) : ms[j].m.name = name
        BY <1>9, <2>2, <3>2 DEF c
      <4> QED
        BY <1>11, <4>1
    <3> QED
      BY <1>8, <3>1, <3>2
  <2> QED
    BY <2>1, <2>2
<1>13. ASSUME NEW p \in 1 .. Len(more), \A q \in 1 .. p - 1 : more[q].m.name # more[p].m.name
       PROVE  \E i \in 1 .. n : /\ more[p].from = sources[i]
                                /\ more[p].m \in Defined(sources[i], more[p].m.name)
                                /\ \A l \in 1 .. i - 1 : Defined(sources[l], more[p].m.name) = {}
  <2>1. CASE p \in 1 .. Len(found)
    <3>1. more[p] = found[p] /\ \A q \in 1 .. p - 1 : q \in 1 .. Len(found) /\ more[q] = found[q]
      <4>1. \A q \in 1 .. p - 1 : q \in 1 .. Len(found)
        BY <1>7, <2>1
      <4> QED
        BY <1>11, <2>1, <4>1
    <3>2. \A q \in 1 .. p - 1 : found[q].m.name # found[p].m.name
      BY <1>13, <3>1
    <3>3. PICK i \in 1 .. n - 1 : /\ found[p].from = sources[i]
                                  /\ found[p].m \in Defined(sources[i], found[p].m.name)
                                  /\ \A l \in 1 .. i - 1 : Defined(sources[l], found[p].m.name) = {}
      BY <2>1, <3>2 DEF Listed
    <3> QED
      BY <1>8, <3>1, <3>3
  <2>2. CASE p \notin 1 .. Len(found)
    <3>1. PICK r \in 1 .. Len(ms) : p = Len(found) + r
      BY <1>11, <2>2
    <3>2. more[p] = ms[r]
      BY <1>11, <3>1
    <3>3. \A q \in 1 .. Len(found) : q \in 1 .. p - 1 /\ more[q] = found[q]
      <4>1. \A q \in 1 .. Len(found) : q \in 1 .. p - 1
        BY <1>7, <3>1
      <4> QED
        BY <1>11, <4>1
    <3>4. \A q \in 1 .. Len(found) : found[q].m.name # more[p].m.name
      BY <1>13, <3>3
    <3>5. \A l \in 1 .. n - 1 : Defined(sources[l], more[p].m.name) = {}
      BY <1>10, <3>4
    <3>6. more[p].from = sources[n] /\ more[p].m \in Defined(sources[n], more[p].m.name)
      BY <1>4, <1>9, <3>2 DEF c
    <3> QED
      BY <1>8, <3>5, <3>6
  <2> QED
    BY <2>1, <2>2
<1>14. Listed(more, sources, n, R)
  BY <1>6, <1>12, <1>13 DEF Listed
<1> QED
  BY <1>14 DEF more, ms, c

Methods(sources) == FlattenSeq([i \in DOMAIN sources |-> MethodsOf(sources[i])])
Founds(S) == UNION {{[m |-> m, from |-> c] : m \in ToSet(c.methods)} : c \in S}

\* All methods of the sources are listed.
LEMMA MethodsAreListed ==
  ASSUME NEW S, NEW sources \in Seq(S), \A c \in S : c.methods \in Seq(ToSet(c.methods))
  PROVE  Listed(Methods(sources), sources, Len(sources), Founds(S))
<1> DEFINE N == Len(sources)
           R == Founds(S)
           seqs == [i \in DOMAIN sources |-> MethodsOf(sources[i])]
<1>1. N \in Nat /\ DOMAIN sources = 1 .. N /\ \A i \in 1 .. N : sources[i] \in S
  OBVIOUS
<1>2. ASSUME NEW i \in 1 .. N
      PROVE  /\ \A j \in DOMAIN sources[i].methods : MethodsOf(sources[i])[j] \in R
             /\ MethodsOf(sources[i]) \in Seq(R)
  <2> DEFINE c == sources[i]
             ms == MethodsOf(c)
  <2>1. c \in S /\ c.methods \in Seq(ToSet(c.methods))
    BY <1>1
  <2>2. /\ Len(c.methods) \in Nat /\ DOMAIN c.methods = 1 .. Len(c.methods)
        /\ \A j \in DOMAIN c.methods : c.methods[j] \in ToSet(c.methods)
    BY <2>1 DEF ToSet
  <2> HIDE DEF c
  <2>3. ms = [j \in 1 .. Len(c.methods) |-> [m |-> c.methods[j], from |-> c]]
    BY <2>2 DEF MethodsOf
  <2>4. \A j \in 1 .. Len(c.methods) : ms[j] = [m |-> c.methods[j], from |-> c]
    BY <2>3
  <2>5. \A j \in 1 .. Len(c.methods) : ms[j] \in R
    <3> SUFFICES ASSUME NEW j \in 1 .. Len(c.methods) PROVE ms[j] \in R
      OBVIOUS
    <3>1. ms[j] \in {[m |-> m, from |-> c] : m \in ToSet(c.methods)}
      BY <2>2, <2>4
    <3> HIDE DEF ms
    <3> QED
      BY <2>1, <3>1 DEF Founds
  <2>6. ms = [j \in 1 .. Len(c.methods) |-> ms[j]]
    BY <2>3, <2>4
  <2> HIDE DEF ms, R
  <2>7. ms \in Seq(R)
    BY <2>2, <2>5, <2>6, IntervalSeq
  <2> QED
    BY <2>2, <2>5, <2>7 DEF ms, c
<1> HIDE DEF R
<1>3. seqs \in Seq(Seq(R)) /\ Len(seqs) = N /\ \A i \in 1 .. N : seqs[i] = MethodsOf(sources[i])
  <2>1. \A i \in 1 .. N : seqs[i] = MethodsOf(sources[i])
    BY <1>1
  <2>2. seqs = [i \in 1 .. N |-> seqs[i]]
    BY <1>1, <2>1
  <2>3. \A i \in 1 .. N : seqs[i] \in Seq(R)
    BY <1>2, <2>1
  <2> HIDE DEF seqs, N
  <2> QED
    BY <1>1, <2>1, <2>2, <2>3, IntervalSeq
<1>4. Methods(sources) = FlattenSeq(seqs)
  BY DEF Methods
<1> HIDE DEF seqs
<1>5. PICK h : Chains(h, seqs) /\ FlattenSeq(seqs) = h[Len(seqs)]
  BY <1>3, Flattens
<1>6. h[0] = <<>> /\ \A n \in 1 .. N : h[n] = h[n - 1] \o MethodsOf(sources[n])
  <2>1. 0 \in 0 .. N /\ \A n \in 1 .. N : n \in 0 .. N /\ n # 0
    BY <1>1
  <2> QED
    BY <1>3, <1>5, <2>1 DEF Chains
<1> DEFINE St == [n \in 0 .. N |-> {s \in Seq(R) : Listed(s, sources, n, R)}]
<1>7. h[0] \in St[0]
  <2>1. 0 \in 0 .. N /\ <<>> \in Seq(R) /\ Len(<<>>) = 0 /\ 1 .. 0 = {}
    BY <1>1
  <2>2. Listed(<<>>, sources, 0, R)
    BY <2>1 DEF Listed
  <2> QED
    BY <1>6, <2>1, <2>2
<1>8. ASSUME NEW n \in 1 .. N, h[n - 1] \in St[n - 1] PROVE h[n] \in St[n]
  <2>1. n - 1 \in 0 .. N /\ n \in 0 .. N
    BY <1>1
  <2>2. Listed(h[n - 1], sources, n - 1, R)
    BY <1>8, <2>1
  <2>3. sources[n] \in S /\ sources[n].methods \in Seq(ToSet(sources[n].methods))
    BY <1>1
  <2>4. \A j \in DOMAIN sources[n].methods : MethodsOf(sources[n])[j] \in R
    BY <1>2
  <2>5. Listed(h[n - 1] \o MethodsOf(sources[n]), sources, n, R)
    BY <2>2, <2>3, <2>4, SourceAdds
  <2>6. Listed(h[n], sources, n, R)
    BY <1>6, <2>5
  <2>7. h[n] \in Seq(R)
    BY <2>6 DEF Listed
  <2> QED
    BY <2>1, <2>6, <2>7
<1>9. \A s \in St[N] : Listed(s, sources, N, R)
  <2>1. N \in 0 .. N
    BY <1>1
  <2> QED
    BY <2>1
<1> HIDE DEF St, N
<1>10. \A n \in 0 .. N : h[n] \in St[n]
  BY <1>1, <1>7, <1>8, Along
<1>11. h[N] \in St[N]
  BY <1>1, <1>10
<1> QED
  BY <1>3, <1>4, <1>5, <1>9, <1>11 DEF N, R

(* A case is the method m of a source.                                     *)
CaseIs(c, m) ==
  /\ c.method = m.name /\ c.depends = m.depends /\ c.refs = m.refs
  /\ c.tautological = IsTautological(m) /\ c.provider = (m.provider # "none")

\* A case is made of each name's first definition among the sources.
LEMMA CasesAreFirsts ==
  ASSUME NEW class, NEW S, NEW sources \in Seq(S), \A c \in S : c.methods \in Seq(ToSet(c.methods))
  PROVE  LET cs == CasesFrom(class, sources)
         IN /\ Len(cs) \in Nat /\ DOMAIN cs = 1 .. Len(cs)
            /\ \A i, j \in DOMAIN cs : cs[i].method = cs[j].method => i = j
            /\ \A i \in DOMAIN cs : \E x \in S : \E m \in Defined(x, cs[i].method) :
                 FirstIn(sources, cs[i].method, x) /\ CaseIs(cs[i], m)
            /\ \A name : Misses(sources, name) <=> \A i \in DOMAIN cs : cs[i].method # name
<1> DEFINE cs == CasesFrom(class, sources)
           found == Methods(sources)
           firsts == FirstOfEachName(found)
           R == Founds(S)
<1>1. Listed(found, sources, Len(sources), R)
  BY MethodsAreListed
<1> HIDE DEF found
<1>2. found \in Seq(R)
  BY <1>1 DEF Listed
<1>3. Firsts(firsts, found, Len(found), R)
  BY <1>2, FirstsOfNames
<1> HIDE DEF firsts, R
<1>4. firsts \in Seq(R) /\ Len(firsts) \in Nat /\ DOMAIN firsts = 1 .. Len(firsts)
  BY <1>3 DEF Firsts
<1> DEFINE case(f) ==
        [ class |-> class.fqcn, method |-> f.m.name, provider |-> f.m.provider # "none",
          groups |-> class.groups \cup f.from.groups \cup f.m.groups,
          tautological |-> IsTautological(f.m), hooks |-> class.hooks, depends |-> f.m.depends,
          refs |-> f.m.refs,
          stateful |-> \E c \in ToSet(sources) : c.stateful,
          isolated |-> \E c \in ToSet(sources) : c.isolated,
          needsDb |-> \E c \in ToSet(sources) : c.needsDb,
          functional |-> \E c \in ToSet(sources) : c.functional ]
<1>5. cs = [k \in DOMAIN firsts |-> case(firsts[k])]
  BY DEF CasesFrom, firsts, found, Methods, MethodsOf
<1>6. ASSUME NEW f PROVE CaseIs(case(f), f.m) /\ case(f).method = f.m.name
  BY DEF CaseIs
<1> HIDE DEF case, cs
<1>7. /\ Len(cs) = Len(firsts) /\ DOMAIN cs = 1 .. Len(firsts)
      /\ \A k \in 1 .. Len(firsts) : CaseIs(cs[k], firsts[k].m) /\ cs[k].method = firsts[k].m.name
  <2>1. DOMAIN cs = 1 .. Len(firsts) /\ \A k \in 1 .. Len(firsts) : cs[k] = case(firsts[k])
    BY <1>4, <1>5
  <2>2. Len(cs) = Len(firsts)
    <3> DEFINE T == {cs[k] : k \in 1 .. Len(firsts)}
    <3>1. cs = [k \in 1 .. Len(firsts) |-> cs[k]] /\ \A k \in 1 .. Len(firsts) : cs[k] \in T
      BY <1>4, <1>5, <2>1
    <3> HIDE DEF T
    <3> QED
      BY <1>4, <3>1, IntervalSeq
  <2> QED
    BY <1>6, <2>1, <2>2
<1>8. \A i, j \in 1 .. Len(firsts) : cs[i].method = cs[j].method => i = j
  BY <1>3, <1>7 DEF Firsts
<1>9. ASSUME NEW i \in 1 .. Len(firsts)
      PROVE  \E x \in S : \E m \in Defined(x, cs[i].method) :
               FirstIn(sources, cs[i].method, x) /\ CaseIs(cs[i], m)
  <2>1. PICK p \in 1 .. Len(found) : found[p] = firsts[i] /\ \A q \in 1 .. p - 1 : found[q].m.name # firsts[i].m.name
    BY <1>3 DEF Firsts
  <2>0. \A q \in 1 .. p - 1 : found[q].m.name # found[p].m.name
    BY <2>1
  <2>2. PICK l \in 1 .. Len(sources) :
          /\ found[p].from = sources[l]
          /\ found[p].m \in Defined(sources[l], found[p].m.name)
          /\ \A k \in 1 .. l - 1 : Defined(sources[k], found[p].m.name) = {}
    BY <1>1, <2>0 DEF Listed
  <2> DEFINE m == firsts[i].m
             name == cs[i].method
  <2>3. name = m.name /\ CaseIs(cs[i], m)
    BY <1>7
  <2>4. m \in Defined(sources[l], name) /\ \A k \in 1 .. l - 1 : Defined(sources[k], name) = {}
    BY <2>1, <2>2, <2>3
  <2>5. sources[l] \in S /\ l \in DOMAIN sources
    OBVIOUS
  <2> HIDE DEF m, name
  <2>6. FirstIn(sources, name, sources[l])
    BY <2>4, <2>5 DEF FirstIn
  <2> QED
    BY <2>3, <2>4, <2>5, <2>6 DEF name
<1>10. ASSUME NEW name PROVE Misses(sources, name) <=> \A i \in 1 .. Len(firsts) : cs[i].method # name
  <2>0. DOMAIN sources = 1 .. Len(sources)
    OBVIOUS
  <2>1. Misses(sources, name) <=> \A l \in 1 .. Len(sources) : Defined(sources[l], name) = {}
    BY <2>0 DEF Misses
  <2>2. Misses(sources, name) <=> \A p \in 1 .. Len(found) : found[p].m.name # name
    <3>1. (\E p \in 1 .. Len(found) : found[p].m.name = name)
            <=> (\E l \in 1 .. Len(sources) : Defined(sources[l], name) # {})
      BY <1>1 DEF Listed
    <3> QED
      BY <2>1, <3>1
  <2>3. (\E p \in 1 .. Len(found) : found[p].m.name = name) <=> (\E i \in 1 .. Len(firsts) : firsts[i].m.name = name)
    <3>1. ASSUME NEW p \in 1 .. Len(found), found[p].m.name = name
          PROVE  \E i \in 1 .. Len(firsts) : firsts[i].m.name = name
      BY <1>3, <3>1 DEF Firsts
    <3>2. ASSUME NEW i \in 1 .. Len(firsts), firsts[i].m.name = name
          PROVE  \E p \in 1 .. Len(found) : found[p].m.name = name
      <4>1. PICK p \in 1 .. Len(found) : found[p] = firsts[i]
        BY <1>3 DEF Firsts
      <4> QED
        BY <3>2, <4>1
    <3> QED
      BY <3>1, <3>2
  <2> QED
    BY <1>7, <2>2, <2>3
<1> QED
  BY <1>4, <1>7, <1>8, <1>9, <1>10 DEF cs

----------------------------------------------------------------------------
(* A set grown turn by turn.                                               *)
Grown(f, S, G, U, N) ==
  f[0] = S /\ \A n \in 1 .. N : f[n - 1] \in SUBSET U => f[n] = f[n - 1] \cup G[f[n - 1]]

Settled(T, G) == G[T] \subseteq T

(* As long as it grows its rank does, up to N.                             *)
Ranks(rank, S, G, U, N) ==
  /\ \A T \in SUBSET U : rank[T] \in Nat /\ (Settled(T, G) \/ rank[T] <= N)
  /\ Settled(S, G) \/ rank[S] > 0
  /\ \A T \in SUBSET U : Settled(T \cup G[T], G) \/ rank[T \cup G[T]] > rank[T]

Monotonic(G, U) ==
  /\ \A T \in SUBSET U : G[T] \in SUBSET U
  /\ \A T, D \in SUBSET U : T \subseteq D => G[T] \subseteq G[D]

(* The least set with S that does not grow.                                *)
LeastOf(C, S, G, U) ==
  /\ C \in SUBSET U /\ S \subseteq C /\ Settled(C, G)
  /\ \A D \in SUBSET U : S \subseteq D /\ Settled(D, G) => C \subseteq D

\* After as many turns as there are ranks it has settled.
LEMMA GrowthSettles ==
  ASSUME NEW U, NEW S \in SUBSET U, NEW N \in Nat, NEW G, Monotonic(G, U),
         NEW rank, Ranks(rank, S, G, U, N)
  PROVE  /\ \E f : Grown(f, S, G, U, N) /\ f = [n \in 0 .. N |-> f[n]] /\ \A n \in 0 .. N : f[n] \in SUBSET U
         /\ \A f : Grown(f, S, G, U, N) => LeastOf(f[N], S, G, U)
<1> DEFINE Below(T) == \A D \in SUBSET U : S \subseteq D /\ Settled(D, G) => T \subseteq D
           St == [n \in 0 .. N |-> {T \in SUBSET U : S \subseteq T /\ (Settled(T, G) \/ rank[T] > n) /\ Below(T)}]
           H == [T \in SUBSET U |-> T \cup G[T]]
<1>1. S \in St[0]
  <2>1. 0 \in 0 .. N /\ (Settled(S, G) \/ rank[S] > 0)
    BY DEF Ranks
  <2>2. Below(S)
    OBVIOUS
  <2> HIDE DEF Below
  <2> QED
    BY <2>1, <2>2
<1>2. ASSUME NEW n \in 1 .. N, NEW T \in St[n - 1] PROVE H[T] \in St[n] /\ H[T] = T \cup G[T]
  <2>1. n - 1 \in 0 .. N /\ n \in 0 .. N
    OBVIOUS
  <2>2. T \in SUBSET U /\ S \subseteq T /\ (Settled(T, G) \/ rank[T] > n - 1) /\ Below(T)
    <3> HIDE DEF Below
    <3> QED BY <2>1
  <2>3. G[T] \in SUBSET U /\ T \cup G[T] \in SUBSET U /\ H[T] = T \cup G[T]
    BY <2>2 DEF Monotonic
  <2>4. Settled(T \cup G[T], G) \/ rank[T \cup G[T]] > n
    <3>1. CASE Settled(T, G)
      <4>1. T \cup G[T] = T
        BY <3>1 DEF Settled
      <4> QED
        BY <3>1, <4>1
    <3>2. CASE ~Settled(T, G)
      <4>1. rank[T] \in Nat /\ rank[T \cup G[T]] \in Nat
        BY <2>2, <2>3 DEF Ranks
      <4>2. Settled(T \cup G[T], G) \/ rank[T \cup G[T]] > rank[T]
        BY <2>2 DEF Ranks
      <4> QED
        BY <2>1, <2>2, <3>2, <4>1, <4>2
    <3> QED
      BY <3>1, <3>2
  <2>5. Below(T \cup G[T])
    <3> SUFFICES ASSUME NEW D \in SUBSET U, S \subseteq D, Settled(D, G) PROVE T \cup G[T] \subseteq D
      OBVIOUS
    <3>1. T \subseteq D
      BY <2>2
    <3>2. G[T] \subseteq G[D]
      BY <2>2, <3>1 DEF Monotonic
    <3> QED
      BY <3>1, <3>2 DEF Settled
  <2> HIDE DEF H, Below
  <2> QED
    BY <2>1, <2>2, <2>3, <2>4, <2>5
<1>3. \A T \in St[N] : T \in SUBSET U /\ S \subseteq T /\ (Settled(T, G) \/ rank[T] > N) /\ Below(T)
  <2>1. N \in 0 .. N
    OBVIOUS
  <2> HIDE DEF Below
  <2> QED
    BY <2>1
<1>4. \A n \in 0 .. N : \A T \in St[n] : T \in SUBSET U
  OBVIOUS
<1> HIDE DEF St, H
<1>5. ASSUME NEW f, Grown(f, S, G, U, N) PROVE LeastOf(f[N], S, G, U)
  <2>1. \A n \in 1 .. N : f[n - 1] \in St[n - 1] => f[n] \in St[n]
    <3> SUFFICES ASSUME NEW n \in 1 .. N, f[n - 1] \in St[n - 1] PROVE f[n] \in St[n]
      OBVIOUS
    <3>1. f[n - 1] \in SUBSET U
      BY <1>4
    <3>2. f[n] = f[n - 1] \cup G[f[n - 1]]
      BY <1>5, <3>1 DEF Grown
    <3> QED
      BY <1>2, <3>2
  <2>2. \A n \in 0 .. N : f[n] \in St[n]
    <3>1. f[0] \in St[0]
      BY <1>1, <1>5 DEF Grown
    <3> QED
      BY <2>1, <3>1, Along
  <2> DEFINE C == f[N]
  <2>3. C \in SUBSET U /\ S \subseteq C /\ (Settled(C, G) \/ rank[C] > N) /\ Below(C)
    <3>1. N \in 0 .. N
      OBVIOUS
    <3>2. C \in St[N]
      BY <2>2, <3>1
    <3> HIDE DEF C, Below
    <3> QED
      BY <1>3, <3>2
  <2> HIDE DEF C
  <2>4. Settled(C, G)
    <3>1. rank[C] \in Nat /\ (Settled(C, G) \/ rank[C] <= N)
      BY <2>3 DEF Ranks
    <3> QED
      BY <2>3, <3>1
  <2> QED
    BY <2>3, <2>4 DEF LeastOf, C
<1>6. PICK f : Iterates(f, S, H, St, N)
  <2>1. Leads(H, St, N)
    BY <1>2 DEF Leads
  <2> QED
    BY <1>1, <2>1, Iteration
<1>7. Grown(f, S, G, U, N) /\ f = [n \in 0 .. N |-> f[n]] /\ \A n \in 0 .. N : f[n] \in SUBSET U
  <2>1. 0 \in 0 .. N /\ \A n \in 1 .. N : n \in 0 .. N /\ n # 0 /\ n - 1 \in 0 .. N
    OBVIOUS
  <2>2. f[0] = S /\ \A n \in 1 .. N : f[n] = H[f[n - 1]]
    BY <1>6, <2>1 DEF Iterates
  <2>3. \A n \in 0 .. N : f[n] \in St[n]
    BY <1>6 DEF Iterates
  <2>4. \A n \in 1 .. N : f[n] = f[n - 1] \cup G[f[n - 1]]
    BY <1>2, <2>1, <2>2, <2>3
  <2>5. f = [n \in 0 .. N |-> f[n]]
    BY <1>6 DEF Iterates
  <2> QED
    BY <1>4, <2>2, <2>3, <2>4, <2>5 DEF Grown
<1> QED
  BY <1>5, <1>7

----------------------------------------------------------------------------
(* is_test_class_via_chain.                                                *)
ParentsOf(S, classes) == Parents({c \in classes : c.fqcn \in S})

AncestorsOf(C, fqcn, classes) ==
  /\ fqcn \in C /\ ParentsOf(C, classes) \subseteq C
  /\ \A D : fqcn \in D /\ ParentsOf(D, classes) \subseteq D => C \subseteq D

Ascends(f, fqcn, classes) ==
  f = [k \in 0 .. Cardinality(classes) |->
         IF k = 0 THEN {fqcn} ELSE f[k - 1] \cup ParentsOf(f[k - 1], classes)]

\* The names looked at are those of the class and its ancestors.
LEMMA AncestorsAreSeen ==
  ASSUME NEW fqcn, NEW classes, IsFiniteSet(classes)
  PROVE  \E C : /\ AncestorsOf(C, fqcn, classes)
                /\ ReachesTestCase(fqcn, classes) <=> ParentsOf(C, classes) \cap TestBases # {}
<1> DEFINE f == CHOOSE f : Ascends(f, fqcn, classes)
           N == Cardinality(classes)
           U == {fqcn} \cup Parents(classes)
           S == {fqcn}
           G == [T \in SUBSET U |-> ParentsOf(T, classes)]
           W(T) == {c \in classes : c.fqcn \in T}
           rank == [T \in SUBSET U |-> Cardinality(W(T))]
<1>1. ReachesTestCase(fqcn, classes) <=> ParentsOf(f[N], classes) \cap TestBases # {}
  BY DEF ReachesTestCase, Closure, Ascends, ParentsOf
<1>2. N \in Nat /\ S \in SUBSET U
  BY FS_CardinalityType
<1>3. \A T \in SUBSET U : G[T] = ParentsOf(T, classes) /\ rank[T] = Cardinality(W(T))
  OBVIOUS
<1>4. Monotonic(G, U)
  <2>1. \A T : ParentsOf(T, classes) \subseteq U
    BY DEF ParentsOf, Parents
  <2>2. \A T, D : T \subseteq D => ParentsOf(T, classes) \subseteq ParentsOf(D, classes)
    BY DEF ParentsOf, Parents
  <2> HIDE DEF G, U
  <2>3. \A T \in SUBSET U : G[T] \in SUBSET U
    BY <1>3, <2>1
  <2>4. \A T, D \in SUBSET U : T \subseteq D => G[T] \subseteq G[D]
    <3> SUFFICES ASSUME NEW T \in SUBSET U, NEW D \in SUBSET U, T \subseteq D PROVE G[T] \subseteq G[D]
      OBVIOUS
    <3>1. G[T] = ParentsOf(T, classes) /\ G[D] = ParentsOf(D, classes)
      BY <1>3
    <3> QED
      BY <2>2, <3>1
  <2> QED
    BY <2>3, <2>4 DEF Monotonic
<1>5. \A T : /\ IsFiniteSet(W(T)) /\ Cardinality(W(T)) \in Nat /\ Cardinality(W(T)) <= N
             /\ W(T) = {} => ParentsOf(T, classes) = {}
  <2> SUFFICES ASSUME NEW T PROVE /\ IsFiniteSet(W(T)) /\ Cardinality(W(T)) \in Nat /\ Cardinality(W(T)) <= N
                                  /\ W(T) = {} => ParentsOf(T, classes) = {}
    OBVIOUS
  <2>1. W(T) \in SUBSET classes
    OBVIOUS
  <2>2. IsFiniteSet(W(T)) /\ Cardinality(W(T)) \in Nat /\ Cardinality(W(T)) <= N
    <3> HIDE DEF W
    <3> QED BY <2>1, FS_Subset, FS_CardinalityType
  <2> QED
    BY <2>2 DEF ParentsOf, Parents
<1>6. ASSUME NEW T \in SUBSET U, NEW V \in SUBSET U, V = T \cup G[T]
      PROVE  Settled(V, G) \/ rank[V] > rank[T]
  <2>1. V = T \cup ParentsOf(T, classes)
    BY <1>3, <1>6
  <2>2. CASE W(V) = W(T)
    <3>1. ParentsOf(V, classes) = ParentsOf(T, classes)
      BY <2>2 DEF ParentsOf
    <3> QED
      BY <1>3, <2>1, <3>1 DEF Settled
  <2>3. CASE W(V) # W(T)
    <3>1. W(T) \subseteq W(V)
      BY <2>1
    <3> HIDE DEF W
    <3>2. IsFiniteSet(W(V)) /\ IsFiniteSet(W(T))
      BY <1>5
    <3>3. Cardinality(W(T)) <= Cardinality(W(V)) /\ Cardinality(W(T)) # Cardinality(W(V))
      BY <2>3, <3>1, <3>2, FS_Subset
    <3>4. rank[V] > rank[T]
      <4>1. Cardinality(W(V)) \in Nat /\ Cardinality(W(T)) \in Nat
        BY <1>5
      <4>2. rank[V] = Cardinality(W(V)) /\ rank[T] = Cardinality(W(T))
        BY <1>3
      <4> HIDE DEF rank
      <4> QED
        BY <3>3, <4>1, <4>2
    <3> QED
      BY <3>4
  <2> QED
    BY <2>2, <2>3
<1>7. Ranks(rank, S, G, U, N)
  <2>1. \A T \in SUBSET U : T \cup G[T] \in SUBSET U
    BY <1>4 DEF Monotonic
  <2>2. Settled(S, G) \/ rank[S] > 0
    <3>1. CASE W(S) = {}
      BY <1>2, <1>3, <1>5, <3>1 DEF Settled
    <3>2. CASE W(S) # {}
      <4>1. rank[S] = Cardinality(W(S)) /\ IsFiniteSet(W(S)) /\ Cardinality(W(S)) \in Nat
        BY <1>2, <1>3, <1>5
      <4> HIDE DEF W, S, rank
      <4>2. Cardinality(W(S)) # 0
        BY <3>2, <4>1, FS_EmptySet
      <4> QED
        BY <4>1, <4>2
    <3> QED
      BY <3>1, <3>2
  <2> HIDE DEF rank, G, W, U, S, N
  <2> QED
    BY <1>3, <1>5, <1>6, <2>1, <2>2 DEF Ranks
<1> HIDE DEF f, rank, W, N
<1>8. PICK g : Grown(g, S, G, U, N) /\ g = [n \in 0 .. N |-> g[n]] /\ \A n \in 0 .. N : g[n] \in SUBSET U
  <2> HIDE DEF S, G, U
  <2> QED BY <1>2, <1>4, <1>7, GrowthSettles
<1>9. Ascends(g, fqcn, classes)
  <2>1. \A n \in 0 .. N : n # 0 => n \in 1 .. N /\ n - 1 \in 0 .. N
    BY <1>2
  <2>2. g[0] = {fqcn} /\ \A n \in 1 .. N : g[n - 1] \in SUBSET U => g[n] = g[n - 1] \cup G[g[n - 1]]
    <3> HIDE DEF G, U
    <3> QED BY <1>8 DEF Grown
  <2> HIDE DEF G, U
  <2>3. \A n \in 0 .. N : g[n] = IF n = 0 THEN {fqcn} ELSE g[n - 1] \cup ParentsOf(g[n - 1], classes)
    BY <1>3, <1>8, <2>1, <2>2
  <2>4. g = [n \in 0 .. N |-> IF n = 0 THEN {fqcn} ELSE g[n - 1] \cup ParentsOf(g[n - 1], classes)]
    BY <1>8, <2>3
  <2> QED
    BY <2>4 DEF Ascends, N
<1>10. Ascends(f, fqcn, classes)
  BY <1>9 DEF f
<1>11. Grown(f, S, G, U, N)
  <2>1. 0 \in 0 .. N /\ \A n \in 1 .. N : n \in 0 .. N /\ n # 0
    BY <1>2
  <2>2. f[0] = {fqcn} /\ \A n \in 1 .. N : f[n] = f[n - 1] \cup ParentsOf(f[n - 1], classes)
    BY <1>10, <2>1 DEF Ascends, N
  <2> HIDE DEF G, U
  <2> QED
    BY <1>3, <2>2 DEF Grown
<1>12. LeastOf(f[N], S, G, U)
  <2> HIDE DEF S, G, U
  <2> QED BY <1>2, <1>4, <1>7, <1>11, GrowthSettles
<1>13. AncestorsOf(f[N], fqcn, classes)
  <2> DEFINE C == f[N]
  <2>1. C \in SUBSET U /\ fqcn \in C /\ G[C] \subseteq C
    BY <1>12 DEF LeastOf, Settled
  <2>2. ParentsOf(C, classes) \subseteq C
    BY <1>3, <2>1
  <2>3. ASSUME NEW D, fqcn \in D, ParentsOf(D, classes) \subseteq D PROVE C \subseteq D
    <3> DEFINE E == D \cap U
    <3>1. ParentsOf(E, classes) \subseteq ParentsOf(D, classes) /\ ParentsOf(E, classes) \subseteq U
      BY DEF ParentsOf, Parents
    <3>2. E \in SUBSET U /\ S \subseteq E /\ ParentsOf(E, classes) \subseteq E
      BY <2>3, <3>1
    <3> HIDE DEF E
    <3>3. Settled(E, G)
      BY <1>3, <3>2 DEF Settled
    <3>4. C \subseteq E
      BY <1>12, <3>2, <3>3 DEF LeastOf
    <3> QED
      BY <3>4 DEF E
  <2> HIDE DEF C
  <2> QED
    BY <2>1, <2>2, <2>3 DEF AncestorsOf, C
<1> QED
  BY <1>1, <1>13

\* A class that reaches a test case does so in more classes, and in no more if they hold none of its
\* ancestors that was not there before.
LEMMA ReachesAgree ==
  ASSUME NEW fqcn, NEW all, IsFiniteSet(all), NEW classes \in SUBSET all
  PROVE  /\ ReachesTestCase(fqcn, classes) => ReachesTestCase(fqcn, all)
         /\ Named(all, fqcn) \subseteq classes /\ (\A c \in classes : Named(all, c.parent) \subseteq classes) =>
              (ReachesTestCase(fqcn, all) => ReachesTestCase(fqcn, classes))
<1>1. IsFiniteSet(classes)
  BY FS_Subset
<1>2. PICK B : /\ AncestorsOf(B, fqcn, classes)
               /\ ReachesTestCase(fqcn, classes) <=> ParentsOf(B, classes) \cap TestBases # {}
  BY <1>1, AncestorsAreSeen
<1>3. PICK C : /\ AncestorsOf(C, fqcn, all)
               /\ ReachesTestCase(fqcn, all) <=> ParentsOf(C, all) \cap TestBases # {}
  BY AncestorsAreSeen
<1>4. \A D : ParentsOf(D, classes) \subseteq ParentsOf(D, all)
  BY DEF ParentsOf, Parents
<1>5. \A D, E : D \subseteq E =>
        ParentsOf(D, all) \subseteq ParentsOf(E, all) /\ ParentsOf(D, classes) \subseteq ParentsOf(E, classes)
  BY DEF ParentsOf, Parents
<1>6. ReachesTestCase(fqcn, classes) => ReachesTestCase(fqcn, all)
  <2>1. B \subseteq C
    BY <1>2, <1>3, <1>4 DEF AncestorsOf
  <2>2. ParentsOf(B, classes) \subseteq ParentsOf(C, all)
    BY <1>4, <1>5, <2>1
  <2> QED
    BY <1>2, <1>3, <2>2
<1>7. ASSUME Named(all, fqcn) \subseteq classes, \A c \in classes : Named(all, c.parent) \subseteq classes
      PROVE  ReachesTestCase(fqcn, all) => ReachesTestCase(fqcn, classes)
  <2> DEFINE D == {q \in B : Named(all, q) \subseteq classes}
  <2>1. ParentsOf(D, all) = ParentsOf(D, classes)
    BY DEF ParentsOf, Named, Parents
  <2>2. ParentsOf(D, all) \subseteq D
    <3> SUFFICES ASSUME NEW p \in ParentsOf(D, all) PROVE p \in D
      OBVIOUS
    <3>1. p \in ParentsOf(D, classes)
      BY <2>1
    <3>2. D \subseteq B
      OBVIOUS
    <3>3. p \in B
      BY <1>2, <1>5, <3>1, <3>2 DEF AncestorsOf
    <3>4. PICK c \in classes : p = c.parent
      BY <3>1 DEF ParentsOf, Parents
    <3> QED
      BY <1>7, <3>3, <3>4
  <2>3. fqcn \in D
    BY <1>2, <1>7 DEF AncestorsOf
  <2> HIDE DEF D
  <2>4. C \subseteq D
    BY <1>3, <2>2, <2>3 DEF AncestorsOf
  <2>5. D \subseteq B
    BY DEF D
  <2>6. ParentsOf(C, all) \subseteq ParentsOf(B, classes)
    BY <1>5, <2>1, <2>4, <2>5
  <2> QED
    BY <1>2, <1>3, <2>6
<1> QED
  BY <1>6, <1>7

(* resolve_vendor_bases.                                                   *)
Bases(S, vendor) == {v \in vendor : v.fqcn \in Parents(S) \ Framework}

Resolves(f, classes, vendor) ==
  f = [k \in 0 .. Cardinality(vendor) |->
         IF k = 0 THEN classes ELSE f[k - 1] \cup Bases(f[k - 1], vendor)]

\* It adds vendor classes only, and leaves none out that a class descends from.
LEMMA BasesAreResolved ==
  ASSUME NEW classes, NEW vendor, IsFiniteSet(vendor)
  PROVE  LET V == WithVendorBases(classes, vendor)
         IN classes \subseteq V /\ V \subseteq classes \cup vendor /\ Bases(V, vendor) \subseteq V
<1> DEFINE f == CHOOSE f : Resolves(f, classes, vendor)
           N == Cardinality(vendor)
           U == classes \cup vendor
           G == [T \in SUBSET U |-> Bases(T, vendor)]
           W(T) == T \cap vendor
           rank == [T \in SUBSET U |-> Cardinality(W(T)) + 1]
<1>1. WithVendorBases(classes, vendor) = f[N]
  BY DEF WithVendorBases, Closure, Resolves, Bases
<1>2. N \in Nat /\ classes \in SUBSET U
  BY FS_CardinalityType
<1>3. \A T \in SUBSET U : G[T] = Bases(T, vendor) /\ rank[T] = Cardinality(W(T)) + 1
  OBVIOUS
<1>4. Monotonic(G, U)
  <2>1. \A T : Bases(T, vendor) \subseteq U
    BY DEF Bases
  <2>2. \A T, D : T \subseteq D => Bases(T, vendor) \subseteq Bases(D, vendor)
    BY DEF Bases, Parents
  <2> HIDE DEF G, U
  <2>3. \A T \in SUBSET U : G[T] \in SUBSET U
    BY <1>3, <2>1
  <2>4. \A T, D \in SUBSET U : T \subseteq D => G[T] \subseteq G[D]
    <3> SUFFICES ASSUME NEW T \in SUBSET U, NEW D \in SUBSET U, T \subseteq D PROVE G[T] \subseteq G[D]
      OBVIOUS
    <3>1. G[T] = Bases(T, vendor) /\ G[D] = Bases(D, vendor)
      BY <1>3
    <3> QED
      BY <2>2, <3>1
  <2> QED
    BY <2>3, <2>4 DEF Monotonic
<1>5. \A T : /\ W(T) \in SUBSET vendor /\ IsFiniteSet(W(T)) /\ Cardinality(W(T)) \in Nat
             /\ W(T) = vendor \/ Cardinality(W(T)) + 1 <= N
  <2> SUFFICES ASSUME NEW T
               PROVE  /\ W(T) \in SUBSET vendor /\ IsFiniteSet(W(T)) /\ Cardinality(W(T)) \in Nat
                      /\ W(T) = vendor \/ Cardinality(W(T)) + 1 <= N
    OBVIOUS
  <2>1. W(T) \in SUBSET vendor
    OBVIOUS
  <2> HIDE DEF W
  <2>2. IsFiniteSet(W(T)) /\ Cardinality(W(T)) \in Nat /\ Cardinality(W(T)) <= N
        /\ (W(T) # vendor => Cardinality(W(T)) # N)
    BY <2>1, FS_Subset, FS_CardinalityType
  <2> HIDE DEF N
  <2> QED
    BY <1>2, <2>1, <2>2
<1>6. ASSUME NEW T \in SUBSET U, NEW V \in SUBSET U, V = T \cup G[T]
      PROVE  Settled(V, G) \/ rank[V] > rank[T]
  <2>1. V = T \cup Bases(T, vendor)
    BY <1>3, <1>6
  <2>2. CASE W(V) = W(T)
    <3>1. V = T
      BY <2>1, <2>2 DEF Bases
    <3>2. Bases(T, vendor) \subseteq T
      BY <2>1, <3>1
    <3> QED
      BY <1>3, <3>1, <3>2 DEF Settled
  <2>3. CASE W(V) # W(T)
    <3>1. W(T) \subseteq W(V)
      BY <2>1
    <3> HIDE DEF W
    <3>2. IsFiniteSet(W(V)) /\ IsFiniteSet(W(T))
      BY <1>5
    <3>3. Cardinality(W(T)) <= Cardinality(W(V)) /\ Cardinality(W(T)) # Cardinality(W(V))
      BY <2>3, <3>1, <3>2, FS_Subset
    <3>4. rank[V] > rank[T]
      <4>1. Cardinality(W(V)) \in Nat /\ Cardinality(W(T)) \in Nat
        BY <1>5
      <4>2. rank[V] = Cardinality(W(V)) + 1 /\ rank[T] = Cardinality(W(T)) + 1
        BY <1>3
      <4> HIDE DEF rank
      <4> QED
        BY <3>3, <4>1, <4>2
    <3> QED
      BY <3>4
  <2> QED
    BY <2>2, <2>3
<1>7. Ranks(rank, classes, G, U, N)
  <2>1. \A T \in SUBSET U : T \cup G[T] \in SUBSET U
    BY <1>4 DEF Monotonic
  <2>2. ASSUME NEW T \in SUBSET U, W(T) = vendor PROVE Settled(T, G)
    BY <1>3, <2>2 DEF Settled, Bases
  <2> HIDE DEF rank, G, W, U, N
  <2>3. \A T \in SUBSET U : rank[T] \in Nat /\ rank[T] > 0 /\ (Settled(T, G) \/ rank[T] <= N)
    BY <1>3, <1>5, <2>2
  <2> QED
    BY <1>2, <1>6, <2>1, <2>3 DEF Ranks
<1> HIDE DEF f, rank, W, N
<1>8. PICK g : Grown(g, classes, G, U, N) /\ g = [n \in 0 .. N |-> g[n]] /\ \A n \in 0 .. N : g[n] \in SUBSET U
  <2> HIDE DEF G, U
  <2> QED BY <1>2, <1>4, <1>7, GrowthSettles
<1>9. Resolves(g, classes, vendor)
  <2>1. \A n \in 0 .. N : n # 0 => n \in 1 .. N /\ n - 1 \in 0 .. N
    BY <1>2
  <2> HIDE DEF G, U
  <2>2. g[0] = classes /\ \A n \in 1 .. N : g[n - 1] \in SUBSET U => g[n] = g[n - 1] \cup G[g[n - 1]]
    BY <1>8 DEF Grown
  <2>3. \A n \in 0 .. N : g[n] = IF n = 0 THEN classes ELSE g[n - 1] \cup Bases(g[n - 1], vendor)
    BY <1>3, <1>8, <2>1, <2>2
  <2>4. g = [n \in 0 .. N |-> IF n = 0 THEN classes ELSE g[n - 1] \cup Bases(g[n - 1], vendor)]
    BY <1>8, <2>3
  <2> QED
    BY <2>4 DEF Resolves, N
<1>10. Resolves(f, classes, vendor)
  BY <1>9 DEF f
<1>11. Grown(f, classes, G, U, N)
  <2>1. 0 \in 0 .. N /\ \A n \in 1 .. N : n \in 0 .. N /\ n # 0
    BY <1>2
  <2>2. f[0] = classes /\ \A n \in 1 .. N : f[n] = f[n - 1] \cup Bases(f[n - 1], vendor)
    BY <1>10, <2>1 DEF Resolves, N
  <2> HIDE DEF G, U
  <2> QED
    BY <1>3, <2>2 DEF Grown
<1>12. LeastOf(f[N], classes, G, U)
  <2> HIDE DEF G, U
  <2> QED BY <1>2, <1>4, <1>7, <1>11, GrowthSettles
<1> DEFINE V == f[N]
<1>13. V \in SUBSET U /\ classes \subseteq V /\ G[V] \subseteq V
  BY <1>12 DEF LeastOf, Settled
<1> HIDE DEF V, G
<1>14. G[V] = Bases(V, vendor)
  BY <1>3, <1>13
<1> QED
  BY <1>1, <1>13, <1>14 DEF V

----------------------------------------------------------------------------
\* The graph of a loadable project; with the PSR-4 map it lacks no ancestor of its classes.
LEMMA ProjectGraph ==
  ASSUME NEW proj, Loadable(proj)
  PROVE  LET all == AllClasses(proj)
             graph == Graph(proj)
             fold == FoldSources(proj)
         IN /\ Tidy(all) /\ graph \subseteq all
            /\ ToSet(proj.root) \subseteq fold /\ fold \subseteq graph /\ graph \ proj.supplement \subseteq fold
            /\ proj.psr4 => \A c \in graph : Named(all, c.parent) \subseteq graph
<1> DEFINE all == AllClasses(proj)
           graph == Graph(proj)
           parsed == ToSet(proj.root) \cup proj.supplement
<1>1. all = parsed \cup proj.vendor
  BY DEF AllClasses
<1>2. /\ IsFiniteSet(all)
      /\ \A c \in all : c.fqcn \in STRING \ {NoClass} /\ c.uses \in Seq(STRING)
      /\ \A c, d \in all : c.fqcn = d.fqcn => c = d
      /\ \A v \in proj.vendor : v.fqcn \notin Framework
  BY DEF Loadable
<1>3. IsFiniteSet(proj.vendor)
  BY <1>1, <1>2, FS_Subset
<1>4. graph = IF proj.psr4 THEN WithVendorBases(parsed, proj.vendor) ELSE parsed
  BY DEF Graph
<1>5. ToSet(proj.root) \subseteq parsed /\ FoldSources(proj) = ToSet(proj.root) \cup (graph \ proj.supplement)
  BY DEF FoldSources
<1> HIDE DEF graph, all, parsed
<1>6. parsed \subseteq graph /\ graph \subseteq all /\ (proj.psr4 => Bases(graph, proj.vendor) \subseteq graph)
  BY <1>1, <1>3, <1>4, BasesAreResolved
<1>7. Tidy(all)
  BY <1>2 DEF Tidy
<1>8. ASSUME proj.psr4, NEW c \in graph, NEW p \in Named(all, c.parent) PROVE p \in graph
  <2>1. p \in all /\ p.fqcn = c.parent
    BY DEF Named
  <2>2. CASE p \in parsed
    BY <1>6, <2>2
  <2>3. CASE p \in proj.vendor
    <3>1. p.fqcn \in Parents(graph) \ Framework
      BY <1>2, <2>1, <2>3 DEF Parents
    <3> QED
      BY <1>6, <1>8, <2>3, <3>1 DEF Bases
  <2> QED
    BY <1>1, <2>1, <2>2, <2>3
<1> QED
  BY <1>5, <1>6, <1>7, <1>8 DEF graph, all

\* The fold sources are a world of their own.
LEMMA FoldIsWorld ==
  ASSUME NEW proj, Loadable(proj)
  PROVE  World(FoldSources(proj), FoldSources(proj), {}, FoldSources(proj))
<1> DEFINE all == AllClasses(proj)
           fold == FoldSources(proj)
<1>1. Tidy(all) /\ fold \subseteq all
  BY ProjectGraph
<1>2. \A T \in SUBSET {c \in all : c.kind = "trait"} : T # {} => \E t \in T : TraitsOf(t, all) \cap T = {}
  BY DEF Loadable
<1> HIDE DEF all, fold
<1>3. Tidy(fold)
  BY <1>1, FS_Subset DEF Tidy
<1>4. \A T \in SUBSET {c \in fold : c.kind = "trait"} : T # {} => \E t \in T : TraitsOf(t, fold) \cap T = {}
  <2> SUFFICES ASSUME NEW T \in SUBSET {c \in fold : c.kind = "trait"}, T # {}
               PROVE  \E t \in T : TraitsOf(t, fold) \cap T = {}
    OBVIOUS
  <2>1. T \in SUBSET {c \in all : c.kind = "trait"}
    BY <1>1
  <2>2. PICK t \in T : TraitsOf(t, all) \cap T = {}
    BY <1>2, <2>1
  <2> QED
    BY <1>1, <2>2 DEF TraitsOf
<1>5. \A c \in fold : Named(fold, c.parent) \cup TraitsOf(c, fold) \subseteq fold
  BY DEF Named, TraitsOf
<1> QED
  BY <1>3, <1>4, <1>5 DEF World, fold

\* What a covered class reaches: the fold sees its classes, and its traits or they are sealed.
LEMMA CoveredIsWorld ==
  ASSUME NEW proj, Loadable(proj), NEW class \in ToSet(proj.root), Covered(class, proj)
  PROVE  LET all == AllClasses(proj)
             fold == FoldSources(proj)
         IN \E sealed, reach :
              /\ World(fold, all, sealed, reach) /\ class \in reach
              /\ \A c \in fold \cap reach : Named(all, c.parent) \subseteq fold \cap reach
<1> DEFINE all == AllClasses(proj)
           fold == FoldSources(proj)
           graph == Graph(proj)
           root == ToSet(proj.root)
           seen(c) == \/ c \in root
                      \/ c.kind # "trait" /\ proj.psr4 /\ c \in proj.vendor \ proj.supplement
                      \/ c.kind = "trait" /\ c.methods = <<>> /\ TraitsOf(c, all) \cap root = {}
<1>1. PICK R \in SUBSET all :
        /\ class \in R
        /\ \A c \in R : seen(c) /\ Named(all, c.parent) \cup TraitsOf(c, all) \subseteq R
  BY DEF Covered
<1>2. /\ Tidy(all) /\ graph \subseteq all
      /\ root \subseteq fold /\ fold \subseteq graph /\ graph \ proj.supplement \subseteq fold
      /\ proj.psr4 => \A c \in graph : Named(all, c.parent) \subseteq graph
  BY ProjectGraph
<1>3. /\ \A T \in SUBSET {c \in all : c.kind = "trait"} : T # {} => \E t \in T : TraitsOf(t, all) \cap T = {}
      /\ \A c, d \in all : c.parent = d.fqcn => d.kind # "trait"
  BY DEF Loadable
<1> HIDE DEF all, fold, graph, root
<1> DEFINE sealed == {t \in R : t.kind = "trait" /\ t \notin root}
<1>4. World(fold, all, sealed, R)
  <2>1. \A t \in sealed : t.kind = "trait" /\ t.methods = <<>> /\ TraitsOf(t, all) \subseteq sealed
    <3> SUFFICES ASSUME NEW t \in sealed PROVE t.methods = <<>> /\ TraitsOf(t, all) \subseteq sealed
      OBVIOUS
    <3>1. t \in R /\ t.methods = <<>> /\ TraitsOf(t, all) \cap root = {} /\ TraitsOf(t, all) \subseteq R
      BY <1>1
    <3>2. \A u \in TraitsOf(t, all) : u.kind = "trait"
      BY DEF TraitsOf
    <3> QED
      BY <3>1, <3>2
  <2>2. \A t \in R : t.kind = "trait" => t \in fold \/ t \in sealed
    BY <1>2
  <2>3. R \subseteq all /\ sealed \subseteq all
    OBVIOUS
  <2>4. \A c \in R : Named(all, c.parent) \cup TraitsOf(c, all) \subseteq R
    BY <1>1
  <2> HIDE DEF sealed
  <2> QED
    BY <1>2, <1>3, <2>1, <2>2, <2>3, <2>4 DEF World
<1>5. ASSUME NEW c \in fold \cap R, NEW p \in Named(all, c.parent) PROVE p \in fold \cap R
  <2>1. p \in R /\ p \in all /\ p.fqcn = c.parent /\ c \in all /\ c \in graph
    BY <1>1, <1>2 DEF Named
  <2>2. p.kind # "trait"
    BY <1>3, <2>1
  <2>3. CASE p \in root
    BY <1>2, <2>1, <2>3
  <2>4. CASE proj.psr4 /\ p \in proj.vendor \ proj.supplement
    <3>1. p \in graph
      BY <1>2, <1>5, <2>1, <2>4
    <3> QED
      BY <1>2, <2>1, <2>4, <3>1
  <2> QED
    BY <1>1, <2>1, <2>2, <2>3, <2>4
<1> QED
  BY <1>1, <1>4, <1>5 DEF all, fold

(* What is emitted for the class is what PHP makes of it ...               *)
CasesMatch(cs, proj, fqcn) ==
  /\ Len(cs) \in Nat /\ DOMAIN cs = 1 .. Len(cs)
  /\ \A i, j \in DOMAIN cs : cs[i].method = cs[j].method => i = j
  /\ \A i \in DOMAIN cs :
       /\ MethodsIn(proj, fqcn, cs[i].method) # {}
       /\ CaseIs(cs[i], MethodIn(proj, fqcn, cs[i].method))
       /\ \E c \in AllClasses(proj) : MethodIn(proj, fqcn, cs[i].method) \in ToSet(c.methods)

(* ... and all PHP makes of it.                                            *)
NoneMissed(cs, proj, fqcn) ==
  \A n : MethodsIn(proj, fqcn, n) # {} => \E i \in DOMAIN cs : cs[i].method = n

\* A test class's cases are methods PHP finds, and all of them if the class is covered.
LEMMA EmittedCasesMatch ==
  ASSUME NEW proj, Loadable(proj), NothingHidden(proj),
         NEW class \in ToSet(proj.root), IsEmitted(class, Graph(proj))
  PROVE  LET cs == CasesOf(class, FoldSources(proj))
         IN /\ CasesMatch(cs, proj, class.fqcn)
            /\ Covered(class, proj) => NoneMissed(cs, proj, class.fqcn)
<1> DEFINE all == AllClasses(proj)
           fold == FoldSources(proj)
           graph == Graph(proj)
           s == Sources(class, fold)
           cs == CasesFrom(class, s)
<1>1. /\ Tidy(all) /\ graph \subseteq all /\ fold \subseteq all /\ class \in fold
      /\ World(fold, fold, {}, fold)
  BY ProjectGraph, FoldIsWorld
<1>2. /\ IsFiniteSet(all) /\ \A c, d \in all : c.fqcn = d.fqcn => c = d
  BY <1>1 DEF Tidy
<1>3. IsEmitted(class, all)
  <2>1. ReachesTestCase(class.fqcn, graph) => ReachesTestCase(class.fqcn, all)
    BY <1>1, <1>2, ReachesAgree
  <2> QED
    BY <2>1 DEF IsEmitted
<1>4. /\ Named(all, Last(Chain(class.fqcn, all)).parent) = {}
      /\ \A d \in all : \A m \in ToSet(d.methods) : \A a, b \in PhpMethod(class.fqcn, m.name, all) : a = b
  BY <1>3 DEF Loadable
<1>5. s \in Seq(fold) /\ \A n, x : FirstIn(s, n, x) => Defined(x, n) \subseteq PhpMethod(class.fqcn, n, fold)
  BY <1>1, SourcesTell
<1>6. \A c \in fold : c.methods \in Seq(ToSet(c.methods))
  BY <1>1 DEF Loadable
<1>7. CasesOf(class, fold) = cs
  BY DEF CasesOf
<1>8. /\ Len(cs) \in Nat /\ DOMAIN cs = 1 .. Len(cs)
      /\ \A i, j \in DOMAIN cs : cs[i].method = cs[j].method => i = j
      /\ \A i \in DOMAIN cs : \E x \in fold : \E m \in Defined(x, cs[i].method) :
           FirstIn(s, cs[i].method, x) /\ CaseIs(cs[i], m)
      /\ \A name : Misses(s, name) <=> \A i \in DOMAIN cs : cs[i].method # name
  <2> HIDE DEF s, fold
  <2> QED BY <1>5, <1>6, CasesAreFirsts
<1>9. \A n : MethodsIn(proj, class.fqcn, n) = PhpMethod(class.fqcn, n, all)
  BY DEF MethodsIn
<1>10. \A d \in fold : \A m \in ToSet(d.methods) :
         PhpMethod(class.fqcn, m.name, fold) \in {{}, PhpMethod(class.fqcn, m.name, all)}
  BY <1>3 DEF NothingHidden
<1> HIDE DEF cs, s, all, fold, graph
<1>11. ASSUME NEW i \in DOMAIN cs
       PROVE  /\ MethodsIn(proj, class.fqcn, cs[i].method) # {}
              /\ CaseIs(cs[i], MethodIn(proj, class.fqcn, cs[i].method))
              /\ \E c \in all : MethodIn(proj, class.fqcn, cs[i].method) \in ToSet(c.methods)
  <2> DEFINE n == cs[i].method
             P == PhpMethod(class.fqcn, n, all)
             called == MethodIn(proj, class.fqcn, n)
  <2>1. PICK x \in fold : \E m \in Defined(x, n) : FirstIn(s, n, x) /\ CaseIs(cs[i], m)
    BY <1>8
  <2>2. PICK m \in Defined(x, n) : FirstIn(s, n, x) /\ CaseIs(cs[i], m)
    BY <2>1
  <2>3. x \in all /\ m \in ToSet(x.methods) /\ m.name = n
    BY <1>1, <2>2 DEF Defined
  <2>4. m \in P
    <3>1. m \in PhpMethod(class.fqcn, n, fold)
      BY <1>5, <2>2
    <3>2. PhpMethod(class.fqcn, n, fold) \in {{}, P}
      BY <1>10, <2>3
    <3> QED
      BY <3>1, <3>2
  <2>5. \A a, b \in P : a = b
    BY <1>4, <2>3
  <2>6. called = CHOOSE a \in P : TRUE
    BY <1>9 DEF MethodIn
  <2> HIDE DEF P, called
  <2>7. called = m
    BY <2>4, <2>5, <2>6
  <2>8. MethodsIn(proj, class.fqcn, n) # {}
    BY <1>9, <2>4 DEF P
  <2> QED
    BY <2>2, <2>3, <2>7, <2>8 DEF called
<1>12. CasesMatch(cs, proj, class.fqcn)
  BY <1>8, <1>11 DEF CasesMatch, all
<1>13. ASSUME Covered(class, proj), NEW n, MethodsIn(proj, class.fqcn, n) # {}
       PROVE  \E i \in DOMAIN cs : cs[i].method = n
  <2>1. PICK sealed, reach :
          /\ World(fold, all, sealed, reach) /\ class \in reach
          /\ \A c \in fold \cap reach : Named(all, c.parent) \subseteq fold \cap reach
    BY <1>13, CoveredIsWorld DEF all, fold
  <2> DEFINE near == fold \cap reach
  <2>2. near \subseteq fold /\ near \subseteq all /\ Named(all, class.fqcn) \subseteq near
    BY <1>1, <1>2, <2>1 DEF Named
  <2>3. \A c \in near : Named(all, c.parent) \subseteq near /\ Named(fold, c.parent) \subseteq near
    BY <1>1, <2>1 DEF Named
  <2>4. Named(fold, class.fqcn) \subseteq near
    BY <1>1, <2>2 DEF Named
  <2> HIDE DEF near
  <2>5. Chain(class.fqcn, all) = Chain(class.fqcn, near) /\ Chain(class.fqcn, fold) = Chain(class.fqcn, near)
    BY <2>2, <2>3, <2>4, ChainsAgree
  <2>6. Named(all, Last(Chain(class.fqcn, fold)).parent) = {}
    BY <1>4, <2>5
  <2>7. \A q : Misses(s, q) => PhpMethod(class.fqcn, q, all) = {}
    BY <1>1, <2>1, <2>6, SourcesTell DEF s
  <2>8. ~Misses(s, n)
    BY <1>9, <1>13, <2>7
  <2> QED
    BY <1>8, <2>8
<1> QED
  BY <1>7, <1>12, <1>13 DEF NoneMissed, fold

(* discover_cases for a project PHP can load: each case of an emitted      *)
(* class is the method PHP calls by that name, found once.  With the PSR-4 *)
(* map no test class is missed, and no method of one all of whose          *)
(* ancestors and traits the fold sees.                                     *)
THEOREM FoundMatches ==
  ASSUME NEW proj, Loadable(proj), NothingHidden(proj)
  PROVE  LET found == DiscoverCases(proj)
         IN /\ DOMAIN found \subseteq DOMAIN proj.root
            /\ DOMAIN proj.root = 1 .. Len(proj.root) /\ Len(proj.root) \in Nat
            /\ \A k \in DOMAIN found :
                 /\ CasesMatch(found[k], proj, proj.root[k].fqcn)
                 /\ Covered(proj.root[k], proj) => NoneMissed(found[k], proj, proj.root[k].fqcn)
            /\ proj.psr4 => DOMAIN found = {k \in DOMAIN proj.root : IsEmitted(proj.root[k], AllClasses(proj))}
<1> DEFINE all == AllClasses(proj)
           graph == Graph(proj)
           found == DiscoverCases(proj)
           emitted == {i \in DOMAIN proj.root : IsEmitted(proj.root[i], graph)}
<1>1. DOMAIN found = emitted /\ \A k \in emitted : found[k] = CasesOf(proj.root[k], FoldSources(proj))
  BY DEF DiscoverCases
<1> HIDE DEF found
<1>2. proj.root \in Seq(all)
  BY DEF Loadable
<1>3. DOMAIN proj.root = 1 .. Len(proj.root) /\ Len(proj.root) \in Nat
  <2> HIDE DEF all
  <2> QED BY <1>2
<1>4. \A k \in DOMAIN proj.root : proj.root[k] \in ToSet(proj.root)
  BY DEF ToSet
<1>5. ASSUME NEW k \in DOMAIN found
      PROVE  /\ CasesMatch(found[k], proj, proj.root[k].fqcn)
             /\ Covered(proj.root[k], proj) => NoneMissed(found[k], proj, proj.root[k].fqcn)
  <2>1. /\ proj.root[k] \in ToSet(proj.root) /\ IsEmitted(proj.root[k], graph)
        /\ found[k] = CasesOf(proj.root[k], FoldSources(proj))
    BY <1>1, <1>4
  <2> QED
    BY <2>1, EmittedCasesMatch
<1>6. /\ Tidy(all) /\ graph \subseteq all /\ ToSet(proj.root) \subseteq graph
      /\ proj.psr4 => \A c \in graph : Named(all, c.parent) \subseteq graph
  BY ProjectGraph
<1>7. /\ IsFiniteSet(all) /\ \A c, d \in all : c.fqcn = d.fqcn => c = d
  BY <1>6 DEF Tidy
<1>8. ASSUME proj.psr4, NEW k \in DOMAIN proj.root
      PROVE  IsEmitted(proj.root[k], graph) <=> IsEmitted(proj.root[k], all)
  <2> DEFINE c == proj.root[k]
  <2>1. c \in graph
    BY <1>4, <1>6
  <2>2. Named(all, c.fqcn) \subseteq graph
    BY <1>6, <1>7, <2>1 DEF Named
  <2> HIDE DEF c, graph, all
  <2>3. /\ ReachesTestCase(c.fqcn, graph) => ReachesTestCase(c.fqcn, all)
        /\ ReachesTestCase(c.fqcn, all) => ReachesTestCase(c.fqcn, graph)
    BY <1>6, <1>7, <1>8, <2>2, ReachesAgree
  <2>4. IsEmitted(c, graph) <=> IsEmitted(c, all)
    BY <2>3 DEF IsEmitted
  <2> QED
    BY <2>4 DEF c
<1>9. proj.psr4 => DOMAIN found = {k \in DOMAIN proj.root : IsEmitted(proj.root[k], all)}
  BY <1>1, <1>8
<1>10. DOMAIN found \subseteq DOMAIN proj.root
  BY <1>1
<1> QED
  BY <1>3, <1>5, <1>9, <1>10 DEF found, all
=============================================================================
