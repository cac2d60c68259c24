--------------------------- MODULE PathTrieProofs ---------------------------
(***************************************************************************)
(* What the search of the trie yields, for any paths and any trie.         *)
(*                                                                         *)
(* The searches are functions defined by recursion on how much of a path   *)
(* is left.  That there are such functions is shown by induction, as the   *)
(* least counterexample that there would be otherwise.                     *)
(***************************************************************************)
EXTENDS PathTrie, FiniteSets, FiniteSetTheorems, SequenceTheorems, FunctionTheorems, WellFoundedInduction, TLAPS

-----------------------------------------------------------------------------
(***************************************************************************)
(* Recursion.                                                              *)
(***************************************************************************)

LEMMA LeastNumber ==
  ASSUME NEW T, T \subseteq Nat, T # {}
  PROVE  \E x \in T : \A y \in T : x <= y
<1>1. PICK x \in T : \A y \in T : ~ (<<y, x>> \in OpToRel(<, Nat))
  BY NatLessThanWellFounded, WFMin
<1>2. \A y \in T : ~(y < x) BY <1>1 DEF OpToRel
<1> QED BY <1>2

\* G makes functions from S to V of functions from S to V, and looks only at values
\* of a smaller measure, which is bounded.
IsRecursive(S, V, G, m, M) ==
  /\ V # {} /\ G \in [[S -> V] -> [S -> V]]
  /\ m \in [S -> Nat] /\ M \in Nat /\ \A x \in S : m[x] < M
  /\ \A f, g \in [S -> V] : \A x \in S :
       (\A y \in S : m[y] < m[x] => f[y] = g[y]) => G[f][x] = G[g][x]

\* Such a G has a fixed point.
LEMMA Recursion ==
  ASSUME NEW S, NEW V, NEW G, NEW m, NEW M, IsRecursive(S, V, G, m, M)
  PROVE  \E f \in [S -> V] : f = G[f]
<1> USE DEF IsRecursive
<1> DEFINE Upto(n, f) == \A x \in S : m[x] < n => f[x] = G[f][x]
           T == {n \in Nat : \A f \in [S -> V] : ~Upto(n, f)}
<1>1. T = {}
  <2>1. SUFFICES ASSUME T # {} PROVE FALSE OBVIOUS
  <2>2. PICK n \in T : \A k \in T : n <= k BY <2>1, LeastNumber
  <2>3. n # 0
    <3>1. PICK v : v \in V OBVIOUS
    <3>2. [x \in S |-> v] \in [S -> V] BY <3>1
    <3>3. Upto(0, [x \in S |-> v]) OBVIOUS
    <3> QED BY <3>2, <3>3
  <2>4. n - 1 \in Nat /\ n - 1 \notin T
    <3>1. n \in Nat OBVIOUS
    <3> HIDE DEF T
    <3>2. n - 1 \in Nat /\ ~(n <= n - 1) BY <3>1, <2>3
    <3> QED BY <2>2, <3>2
  <2>5. PICK f \in [S -> V] : Upto(n - 1, f)
    <3> HIDE DEF Upto
    <3> QED BY <2>4
  <2> DEFINE g == G[f]
  <2>6. g \in [S -> V] OBVIOUS
  <2>7. \A x \in S : m[x] < n - 1 => g[x] = f[x] BY <2>5
  <2>8. ASSUME NEW x \in S, m[x] < n PROVE g[x] = G[g][x]
    <3>1. \A y \in S : m[y] < m[x] => f[y] = g[y]
      <4>1. \A y \in S : m[y] < m[x] => m[y] < n - 1 BY <2>8, <2>2
      <4> QED BY <4>1, <2>7
    <3> HIDE DEF g
    <3>2. G[f][x] = G[g][x] BY <2>6, <3>1
    <3> QED BY <3>2 DEF g
  <2>9. Upto(n, g) BY <2>8
  <2> QED BY <2>2, <2>6, <2>9
<1>2. PICK f \in [S -> V] : Upto(M, f)
  <2> HIDE DEF Upto
  <2> QED BY <1>1
<1>3. \A x \in S : f[x] = G[f][x] BY <1>2
<1>4. G[f] \in [S -> V] OBVIOUS
<1> QED BY <1>3, <1>4

-----------------------------------------------------------------------------
(***************************************************************************)
(* FindExact.                                                              *)
(***************************************************************************)

Key == Segment \cup {Template}
Path == Seq(Key)

\* Where the values of some nodes are kept, and that a list has each of them once.
Places(trie, nodes) ==
  {pl \in (DOMAIN trie) \X Nat : pl[1] \in nodes /\ pl[2] \in DOMAIN trie[pl[1]]}

Lists(list, trie, nodes) ==
  \E b \in Bijection(DOMAIN list, Places(trie, nodes)) :
    \A k \in DOMAIN list : list[k] = trie[b[k][1]][b[k][2]]

LEMMA ListsNothing ==
  ASSUME NEW trie, NEW nodes, Places(trie, nodes) = {}
  PROVE  Lists(<<>>, trie, nodes)
<1>1. <<>> \in Bijection(DOMAIN <<>>, Places(trie, nodes))
  BY DEF Bijection, Injection, Surjection, IsInjective
<1> QED BY <1>1 DEF Lists

LEMMA ListsNode ==
  ASSUME NEW V, NEW trie, \A n \in DOMAIN trie : trie[n] \in Seq(V), NEW node
  PROVE  Lists(At(trie, node), trie, {node}) /\ At(trie, node) \in Seq(V)
<1>1. CASE node \notin DOMAIN trie
  <2>1. At(trie, node) = <<>> BY <1>1 DEF At
  <2>2. Places(trie, {node}) = {} BY <1>1 DEF Places
  <2> QED BY <2>1, <2>2, ListsNothing
<1>2. CASE node \in DOMAIN trie
  <2> DEFINE list == trie[node]
             b == [k \in DOMAIN list |-> <<node, k>>]
  <2>1. At(trie, node) = list /\ list \in Seq(V) BY <1>2 DEF At
  <2>2. DOMAIN list = 1..Len(list) /\ Len(list) \in Nat BY <2>1
  <2>3. Places(trie, {node}) = {<<node, k>> : k \in DOMAIN list}
    BY <1>2, <2>2 DEF Places
  <2>4. b \in Bijection(DOMAIN list, Places(trie, {node}))
    BY <2>3 DEF Bijection, Injection, Surjection, IsInjective
  <2>5. \A k \in DOMAIN list : list[k] = trie[b[k][1]][b[k][2]] OBVIOUS
  <2> QED BY <2>1, <2>4, <2>5 DEF Lists
<1> QED BY <1>1, <1>2

\* Nodes apart from each other are listed one after the other.
LEMMA ListsBoth ==
  ASSUME NEW V, NEW trie, NEW ns, NEW ms, ns \cap ms = {},
         NEW s \in Seq(V), Lists(s, trie, ns), NEW t \in Seq(V), Lists(t, trie, ms)
  PROVE  Lists(s \o t, trie, ns \cup ms)
<1>1. PICK b \in Bijection(DOMAIN s, Places(trie, ns)) :
             \A k \in DOMAIN s : s[k] = trie[b[k][1]][b[k][2]]
  BY DEF Lists
<1>2. PICK c \in Bijection(DOMAIN t, Places(trie, ms)) :
             \A k \in DOMAIN t : t[k] = trie[c[k][1]][c[k][2]]
  BY DEF Lists
<1> DEFINE l == Len(s)
           d == [k \in DOMAIN (s \o t) |-> IF k <= l THEN b[k] ELSE c[k - l]]
<1>3. /\ DOMAIN s = 1..l /\ l \in Nat /\ DOMAIN t = 1..Len(t) /\ Len(t) \in Nat
      /\ DOMAIN (s \o t) = 1..(l + Len(t))
  OBVIOUS
<1>4. Places(trie, ns \cup ms) = Places(trie, ns) \cup Places(trie, ms)
      /\ Places(trie, ns) \cap Places(trie, ms) = {}
  BY DEF Places
<1>5. /\ \A k \in DOMAIN s : b[k] \in Places(trie, ns)
      /\ \A k, j \in DOMAIN s : b[k] = b[j] => k = j
      /\ \A pl \in Places(trie, ns) : \E k \in DOMAIN s : b[k] = pl
  BY <1>1 DEF Bijection, Injection, Surjection, IsInjective
<1>6. /\ \A k \in DOMAIN t : c[k] \in Places(trie, ms)
      /\ \A k, j \in DOMAIN t : c[k] = c[j] => k = j
      /\ \A pl \in Places(trie, ms) : \E k \in DOMAIN t : c[k] = pl
  BY <1>2 DEF Bijection, Injection, Surjection, IsInjective
<1>7. \A k \in DOMAIN (s \o t) :
        \/ k \in DOMAIN s /\ d[k] = b[k] /\ (s \o t)[k] = s[k]
        \/ k - l \in DOMAIN t /\ k > l /\ d[k] = c[k - l] /\ (s \o t)[k] = t[k - l]
  BY <1>3
<1>8. \A k \in DOMAIN t : k + l \in DOMAIN (s \o t) /\ d[k + l] = c[k]
  BY <1>3
<1>9. \A k \in DOMAIN s : k \in DOMAIN (s \o t) /\ d[k] = b[k]
  BY <1>3
<1> HIDE DEF d, l
<1>10. d \in [DOMAIN (s \o t) -> Places(trie, ns \cup ms)]
  <2>1. \A k \in DOMAIN (s \o t) : d[k] \in Places(trie, ns \cup ms)
    BY <1>4, <1>5, <1>6, <1>7
  <2> QED BY <2>1 DEF d
<1>11. ASSUME NEW k \in DOMAIN (s \o t), NEW j \in DOMAIN (s \o t), d[k] = d[j] PROVE k = j
  <2>1. k \in Int /\ j \in Int /\ l \in Int BY <1>3
  <2>2. CASE k \in DOMAIN s /\ d[k] = b[k] /\ j \in DOMAIN s /\ d[j] = b[j]
    BY <1>5, <1>11, <2>2
  <2>3. CASE k - l \in DOMAIN t /\ d[k] = c[k - l] /\ j - l \in DOMAIN t /\ d[j] = c[j - l]
    <3>1. k - l = j - l BY <1>6, <1>11, <2>3
    <3> QED BY <2>1, <3>1
  <2> QED BY <1>4, <1>5, <1>6, <1>7, <1>11, <2>2, <2>3
<1>12. \A pl \in Places(trie, ns \cup ms) : \E k \in DOMAIN (s \o t) : d[k] = pl
  BY <1>4, <1>5, <1>6, <1>8, <1>9
<1>13. d \in Bijection(DOMAIN (s \o t), Places(trie, ns \cup ms))
  BY <1>10, <1>11, <1>12 DEF Bijection, Injection, Surjection, IsInjective
<1>14. \A k \in DOMAIN (s \o t) : (s \o t)[k] = trie[d[k][1]][d[k][2]]
  BY <1>1, <1>2, <1>7
<1> QED BY <1>13, <1>14 DEF Lists

\* The nodes below a node at which the search for a topic ends: those that fit the
\* topic segment by segment, and those which end in > before the topic does.
Reach(topic, node) ==
  {n \in Path :
     /\ Len(node) <= Len(n) /\ Len(n) <= Len(topic)
     /\ \A i \in 1..Len(node) : n[i] = node[i]
     /\ \A i \in (Len(node) + 1)..(Len(n) - 1) : n[i] \in {topic[i], Star, Template}
     /\ IF Len(n) = Len(node) THEN Len(n) = Len(topic)
        ELSE \/ n[Len(n)] = Multi
             \/ Len(n) = Len(topic) /\ n[Len(n)] \in {topic[Len(n)], Star, Template}}

LEMMA ReachEnd ==
  ASSUME NEW topic \in Seq(Literal \cup Param), NEW node \in Path, Len(node) = Len(topic)
  PROVE  Reach(topic, node) = {node}
<1>1. node \in Reach(topic, node) BY DEF Reach, Path
<1>2. ASSUME NEW n \in Reach(topic, node) PROVE n = node
  <2>1. n \in Path /\ Len(n) = Len(node) /\ \A i \in 1..Len(node) : n[i] = node[i]
    BY DEF Reach, Path
  <2> QED BY <2>1, SeqEqual DEF Path
<1> QED BY <1>1, <1>2

LEMMA AppendParts ==
  ASSUME NEW node \in Path, NEW key \in Key
  PROVE  /\ Append(node, key) \in Path
         /\ Len(Append(node, key)) = Len(node) + 1
         /\ Append(node, key)[Len(node) + 1] = key
         /\ \A i \in 1..Len(node) : Append(node, key)[i] = node[i]
BY DEF Path

LEMMA ReachSplit ==
  ASSUME NEW topic \in Seq(Literal \cup Param), NEW node \in Path, Len(node) < Len(topic)
  PROVE  LET next == Len(node) + 1
             literal == Reach(topic, Append(node, topic[next]))
             star == Reach(topic, Append(node, Star))
             template == Reach(topic, Append(node, Template))
         IN  /\ Reach(topic, node)
                  = (({Append(node, Multi)} \cup literal) \cup star) \cup template
             /\ {Append(node, Multi)} \cap literal = {}
             /\ ({Append(node, Multi)} \cup literal) \cap star = {}
             /\ (({Append(node, Multi)} \cup literal) \cup star) \cap template = {}
<1> DEFINE next == Len(node) + 1
           child(key) == Append(node, key)
<1>0. /\ next \in Nat /\ Len(node) \in Nat /\ next \in 1..Len(topic) /\ Len(topic) \in Nat
      /\ topic[next] \in Literal \cup Param
  BY DEF Path
<1>1. {topic[next], Star, Template, Multi} \subseteq Key
  BY <1>0 DEF Key, Segment
<1>2. /\ topic[next] \notin {Star, Template, Multi} /\ Star # Template
      /\ Star # Multi /\ Template # Multi
  BY <1>0, SegmentAssumption
<1>3. \A key \in Key : /\ child(key) \in Path /\ Len(child(key)) = next
                       /\ child(key)[next] = key
                       /\ \A i \in 1..Len(node) : child(key)[i] = node[i]
  BY AppendParts
<1>4. \A n \in Path : Len(n) \in Nat BY DEF Path
<1>5. ASSUME NEW key \in Key, NEW n \in Reach(topic, child(key)) PROVE n[next] = key
  <2> HIDE DEF child
  <2>1. \A i \in 1..Len(child(key)) : n[i] = child(key)[i] BY <1>5 DEF Reach
  <2> QED BY <1>0, <1>3, <2>1
<1>6. ASSUME NEW key \in {topic[next], Star, Template}
      PROVE  Reach(topic, child(key)) = {n \in Reach(topic, node) : Len(n) >= next /\ n[next] = key}
  <2>0. key \in Key /\ key # Multi BY <1>1, <1>2
  <2> DEFINE c == child(key)
  <2>1. /\ c \in Path /\ Len(c) = next /\ c[next] = key
        /\ \A i \in 1..Len(node) : c[i] = node[i]
    BY <1>3, <2>0
  <2> HIDE DEF c
  <2>2. ASSUME NEW n \in Reach(topic, c) PROVE n \in Reach(topic, node) /\ Len(n) >= next /\ n[next] = key
    <3>1. /\ n \in Path /\ next <= Len(n) /\ Len(n) <= Len(topic)
          /\ \A i \in 1..next : n[i] = c[i]
          /\ \A i \in (next + 1)..(Len(n) - 1) : n[i] \in {topic[i], Star, Template}
          /\ IF Len(n) = next THEN Len(n) = Len(topic)
             ELSE \/ n[Len(n)] = Multi
                  \/ Len(n) = Len(topic) /\ n[Len(n)] \in {topic[Len(n)], Star, Template}
      BY <2>1 DEF Reach
    <3>2. Len(n) \in Nat BY <3>1, <1>4
    <3>3. n[next] = key /\ \A i \in 1..Len(node) : n[i] = node[i] BY <1>0, <2>1, <3>1
    <3>4. \A i \in (Len(node) + 1)..(Len(n) - 1) : n[i] \in {topic[i], Star, Template}
      BY <1>0, <3>1, <3>2, <3>3
    <3> QED BY <1>0, <3>1, <3>2, <3>3, <3>4 DEF Reach
  <2>3. ASSUME NEW n \in Reach(topic, node), Len(n) >= next, n[next] = key
        PROVE  n \in Reach(topic, c)
    <3>1. /\ n \in Path /\ Len(n) <= Len(topic)
          /\ \A i \in 1..Len(node) : n[i] = node[i]
          /\ \A i \in (Len(node) + 1)..(Len(n) - 1) : n[i] \in {topic[i], Star, Template}
          /\ IF Len(n) = Len(node) THEN Len(n) = Len(topic)
             ELSE \/ n[Len(n)] = Multi
                  \/ Len(n) = Len(topic) /\ n[Len(n)] \in {topic[Len(n)], Star, Template}
      BY DEF Reach
    <3>2. Len(n) \in Nat BY <3>1, <1>4
    <3>3. \A i \in 1..Len(c) : n[i] = c[i] BY <1>0, <2>1, <2>3, <3>1
    <3>4. \A i \in (Len(c) + 1)..(Len(n) - 1) : n[i] \in {topic[i], Star, Template}
      BY <1>0, <2>1, <3>1, <3>2
    <3>5. IF Len(n) = Len(c) THEN Len(n) = Len(topic)
          ELSE \/ n[Len(n)] = Multi
               \/ Len(n) = Len(topic) /\ n[Len(n)] \in {topic[Len(n)], Star, Template}
      BY <1>0, <2>0, <2>1, <2>3, <3>1, <3>2
    <3> QED BY <2>1, <2>3, <3>1, <3>3, <3>4, <3>5 DEF Reach
  <2>4. Reach(topic, c) = {n \in Reach(topic, node) : Len(n) >= next /\ n[next] = key}
    BY <2>2, <2>3
  <2> QED BY <2>4 DEF c
<1>7. child(Multi) \in Reach(topic, node)
  <2> DEFINE c == child(Multi)
  <2>1. /\ c \in Path /\ Len(c) = next /\ c[next] = Multi
        /\ \A i \in 1..Len(node) : c[i] = node[i]
    BY <1>1, <1>3
  <2> HIDE DEF c
  <2>2. c \in Reach(topic, node) BY <1>0, <2>1 DEF Reach
  <2> QED BY <2>2 DEF c
<1>8. ASSUME NEW n \in Reach(topic, node), n[next] = Multi, Len(n) >= next PROVE n = child(Multi)
  <2> DEFINE c == child(Multi)
  <2>1. /\ c \in Path /\ Len(c) = next /\ c[next] = Multi
        /\ \A i \in 1..Len(node) : c[i] = node[i]
    BY <1>1, <1>3
  <2> HIDE DEF c
  <2>2. /\ n \in Path /\ Len(n) \in Nat
        /\ \A i \in 1..Len(node) : n[i] = node[i]
        /\ \A i \in (Len(node) + 1)..(Len(n) - 1) : n[i] \in {topic[i], Star, Template}
    BY <1>4 DEF Reach
  <2>3. Len(n) = next BY <1>0, <1>2, <1>8, <2>2
  <2>4. n = c BY <1>0, <1>8, <2>1, <2>2, <2>3, SeqEqual DEF Path
  <2> QED BY <2>4 DEF c
<1>9. ASSUME NEW n \in Reach(topic, node)
      PROVE  Len(n) >= next /\ n[next] \in {topic[next], Star, Template, Multi}
  <2>1. /\ n \in Path /\ Len(n) \in Nat /\ Len(node) <= Len(n)
        /\ \A i \in (Len(node) + 1)..(Len(n) - 1) : n[i] \in {topic[i], Star, Template}
        /\ IF Len(n) = Len(node) THEN Len(n) = Len(topic)
           ELSE \/ n[Len(n)] = Multi
                \/ Len(n) = Len(topic) /\ n[Len(n)] \in {topic[Len(n)], Star, Template}
    BY <1>4 DEF Reach
  <2>2. Len(n) >= next BY <1>0, <2>1
  <2>3. CASE Len(n) = next BY <1>0, <2>1, <2>3
  <2>4. CASE Len(n) > next
    <3>1. next \in (Len(node) + 1)..(Len(n) - 1) BY <1>0, <2>1, <2>4
    <3> QED BY <2>1, <2>2, <3>1
  <2> QED BY <1>0, <2>1, <2>2, <2>3, <2>4
<1> DEFINE part(key) == Reach(topic, child(key))
<1>10. Reach(topic, node) = (({child(Multi)} \cup part(topic[next])) \cup part(Star)) \cup part(Template)
  <2>1. ASSUME NEW key \in {topic[next], Star, Template}
        PROVE  part(key) = {n \in Reach(topic, node) : Len(n) >= next /\ n[next] = key}
    BY <1>6
  <2> HIDE DEF part, child, next
  <2> QED BY <1>7, <1>8, <1>9, <2>1
<1>11. \A n \in part(topic[next]) : n[next] = topic[next]
  BY <1>1, <1>5
<1>12. \A n \in part(Star) : n[next] = Star
  BY <1>1, <1>5
<1>13. \A n \in part(Template) : n[next] = Template
  BY <1>1, <1>5
<1>14. child(Multi)[next] = Multi
  BY <1>1, <1>3
<1>15. /\ {child(Multi)} \cap part(topic[next]) = {}
       /\ ({child(Multi)} \cup part(topic[next])) \cap part(Star) = {}
       /\ (({child(Multi)} \cup part(topic[next])) \cup part(Star)) \cap part(Template) = {}
  <2> HIDE DEF part, child, next
  <2> QED BY <1>2, <1>11, <1>12, <1>13, <1>14
<1> QED BY <1>10, <1>15

\* The search for one topic, as a function of the node it stands at.
Exact(trie, topic, find) ==
  [node \in Path |->
     IF Len(node) >= Len(topic) THEN At(trie, node)
     ELSE Child(trie, node, Multi)
            \o find[Append(node, topic[Len(node) + 1])]
            \o find[Append(node, Star)]
            \o find[Append(node, Template)]]

\* There is such a function.
LEMMA ExactExists ==
  ASSUME NEW V, NEW trie, \A n \in DOMAIN trie : trie[n] \in Seq(V),
         NEW topic \in Seq(Literal \cup Param)
  PROVE  \E find \in [Path -> Seq(V)] : find = Exact(trie, topic, find)
<1> DEFINE R == [Path -> Seq(V)]
           m == [node \in Path |->
                   IF Len(node) >= Len(topic) THEN 0 ELSE Len(topic) - Len(node)]
           G == [f \in R |-> Exact(trie, topic, f)]
<1>1. Len(topic) \in Nat /\ \A node \in Path : Len(node) \in Nat
  BY DEF Path
<1>2. {Star, Multi, Template} \subseteq Key /\ \A i \in 1..Len(topic) : topic[i] \in Key
  BY DEF Key, Segment
<1>3. \A node \in Path, key \in Key :
        Append(node, key) \in Path /\ Len(Append(node, key)) = Len(node) + 1
  BY AppendParts
<1>4. \A node : At(trie, node) \in Seq(V)
  BY DEF At
<1>5. ASSUME NEW f \in R, NEW node \in Path PROVE Exact(trie, topic, f)[node] \in Seq(V)
  <2>1. CASE Len(node) >= Len(topic) BY <1>4, <2>1 DEF Exact
  <2>2. CASE ~(Len(node) >= Len(topic))
    <3> DEFINE a == Child(trie, node, Multi)
               b == f[Append(node, topic[Len(node) + 1])]
               c == f[Append(node, Star)]
               d == f[Append(node, Template)]
    <3>1. a \in Seq(V) BY <1>4 DEF Child
    <3>2. topic[Len(node) + 1] \in Key BY <1>1, <1>2, <2>2
    <3>3. b \in Seq(V) /\ c \in Seq(V) /\ d \in Seq(V) BY <1>2, <1>3, <3>2
    <3>4. Exact(trie, topic, f)[node] = a \o b \o c \o d BY <2>2 DEF Exact
    <3> HIDE DEF a, b, c, d
    <3> QED BY <3>1, <3>3, <3>4
  <2> QED BY <2>1, <2>2
<1>6. G \in [R -> R] BY <1>5 DEF Exact
<1>7. m \in [Path -> Nat] BY <1>1
<1>8. \A node \in Path : m[node] < Len(topic) + 1 BY <1>1
<1>9. ASSUME NEW f \in R, NEW g \in R, NEW x \in Path,
             \A y \in Path : m[y] < m[x] => f[y] = g[y]
      PROVE  G[f][x] = G[g][x]
  <2>1. CASE Len(x) >= Len(topic) BY <2>1 DEF Exact
  <2>2. CASE ~(Len(x) >= Len(topic))
    <3>1. topic[Len(x) + 1] \in Key BY <1>1, <1>2, <2>2
    <3>2. ASSUME NEW key \in Key PROVE f[Append(x, key)] = g[Append(x, key)]
      <4> DEFINE y == Append(x, key)
      <4>1. y \in Path /\ Len(y) = Len(x) + 1 BY <1>3
      <4> HIDE DEF y
      <4>2. m[y] < m[x] BY <1>1, <2>2, <4>1
      <4>3. f[y] = g[y] BY <1>9, <4>1, <4>2
      <4> QED BY <4>3 DEF y
    <3>3. /\ f[Append(x, topic[Len(x) + 1])] = g[Append(x, topic[Len(x) + 1])]
          /\ f[Append(x, Star)] = g[Append(x, Star)]
          /\ f[Append(x, Template)] = g[Append(x, Template)]
      BY <1>2, <3>1, <3>2
    <3> QED BY <2>2, <3>3 DEF Exact
  <2> QED BY <2>1, <2>2
<1>10. Seq(V) # {}
  <2>1. <<>> \in Seq(V) OBVIOUS
  <2> QED BY <2>1
<1> HIDE DEF G, m, R
<1>11. \E f \in [Path -> Seq(V)] : f = G[f]
  <2>1. \A x \in Path : m[x] < Len(topic) + 1 BY <1>8
  <2>2. \A f, g \in [Path -> Seq(V)] : \A x \in Path :
           (\A y \in Path : m[y] < m[x] => f[y] = g[y]) => G[f][x] = G[g][x]
    BY <1>9 DEF R
  <2>3. G \in [[Path -> Seq(V)] -> [Path -> Seq(V)]] BY <1>6 DEF R
  <2>4. Len(topic) + 1 \in Nat BY <1>1
  <2>5. IsRecursive(Path, Seq(V), G, m, Len(topic) + 1)
    BY <1>7, <1>10, <2>1, <2>2, <2>3, <2>4 DEF IsRecursive
  <2> QED BY <2>5, Recursion
<1> QED BY <1>11 DEF G, R

\* The search finds what is kept at the nodes that fit, each value once.
LEMMA ExactLists ==
  ASSUME NEW V, NEW trie, \A n \in DOMAIN trie : trie[n] \in Seq(V),
         NEW topic \in Seq(Literal \cup Param)
  PROVE  /\ FindExact(trie, topic) \in Seq(V)
         /\ Lists(FindExact(trie, topic), trie, Reach(topic, <<>>))
<1> DEFINE find == CHOOSE find : find = Exact(trie, topic, find)
<1>1. find = Exact(trie, topic, find)
  <2>1. \E f : f = Exact(trie, topic, f) BY ExactExists
  <2> QED BY <2>1
<1>2. FindExact(trie, topic) = find[<<>>]
  BY DEF FindExact, Exact, Path, Key
<1> HIDE DEF find
<1>3. Len(topic) \in Nat /\ \A node \in Path : Len(node) \in Nat
  BY DEF Path
<1>4. {Star, Multi, Template} \subseteq Key /\ \A i \in 1..Len(topic) : topic[i] \in Key
  BY DEF Key, Segment
<1> DEFINE Right(node) ==
             find[node] \in Seq(V) /\ Lists(find[node], trie, Reach(topic, node))
           Wrong == {node \in Path : Len(node) <= Len(topic) /\ ~Right(node)}
           T == {Len(topic) - Len(node) : node \in Wrong}
<1>5. ASSUME NEW node \in Path, Len(node) = Len(topic) PROVE Right(node)
  <2>1. find[node] = At(trie, node)
    <3>1. Len(node) >= Len(topic) BY <1>3, <1>5
    <3>2. Exact(trie, topic, find)[node] = At(trie, node) BY <3>1 DEF Exact
    <3> QED BY <1>1, <3>2
  <2>2. Reach(topic, node) = {node} BY <1>5, ReachEnd
  <2>3. At(trie, node) \in Seq(V) /\ Lists(At(trie, node), trie, {node}) BY ListsNode
  <2> QED BY <2>1, <2>2, <2>3
<1>6. ASSUME NEW node \in Path, Len(node) < Len(topic),
             \A n \in Path : Len(n) = Len(node) + 1 => Right(n)
      PROVE  Right(node)
  <2> DEFINE next == Len(node) + 1
             a == Child(trie, node, Multi)
             b == find[Append(node, topic[next])]
             c == find[Append(node, Star)]
             d == find[Append(node, Template)]
             A == {Append(node, Multi)}
             B == Reach(topic, Append(node, topic[next]))
             C == Reach(topic, Append(node, Star))
             D == Reach(topic, Append(node, Template))
  <2>1. topic[next] \in Key BY <1>3, <1>4, <1>6
  <2>2. \A key \in Key : Append(node, key) \in Path /\ Len(Append(node, key)) = next
    BY AppendParts
  <2>3. a \in Seq(V) /\ Lists(a, trie, A) BY ListsNode DEF Child
  <2>4. b \in Seq(V) /\ Lists(b, trie, B) BY <1>6, <2>1, <2>2
  <2>5. c \in Seq(V) /\ Lists(c, trie, C) BY <1>4, <1>6, <2>2
  <2>6. d \in Seq(V) /\ Lists(d, trie, D) BY <1>4, <1>6, <2>2
  <2>7. /\ Reach(topic, node) = ((A \cup B) \cup C) \cup D
        /\ A \cap B = {} /\ (A \cup B) \cap C = {} /\ ((A \cup B) \cup C) \cap D = {}
    BY <1>6, ReachSplit
  <2>8. find[node] = ((a \o b) \o c) \o d
    <3>1. ~(Len(node) >= Len(topic)) BY <1>3, <1>6
    <3> QED BY <1>1, <3>1 DEF Exact
  <2> HIDE DEF a, b, c, d, A, B, C, D
  <2>9. a \o b \in Seq(V) /\ Lists(a \o b, trie, A \cup B)
    BY <2>3, <2>4, <2>7, ListsBoth
  <2> DEFINE ab == a \o b
             AB == A \cup B
             abc == ab \o c
             ABC == AB \cup C
  <2>10. abc \in Seq(V) /\ Lists(abc, trie, ABC)
    <3>1. ab \in Seq(V) /\ Lists(ab, trie, AB) /\ AB \cap C = {} BY <2>7, <2>9
    <3> HIDE DEF ab, AB
    <3> QED BY <2>5, <3>1, ListsBoth
  <2>11. abc \o d \in Seq(V) /\ Lists(abc \o d, trie, ABC \cup D)
    <3>1. ABC \cap D = {} BY <2>7
    <3> HIDE DEF abc, ABC
    <3> QED BY <2>6, <2>10, <3>1, ListsBoth
  <2>12. Reach(topic, node) = ABC \cup D /\ find[node] = abc \o d BY <2>7, <2>8
  <2> HIDE DEF abc, ABC
  <2> QED BY <2>11, <2>12
<1> HIDE DEF Right
<1>7. Wrong = {}
  <2>1. SUFFICES ASSUME Wrong # {} PROVE FALSE OBVIOUS
  <2>2. T \subseteq Nat /\ T # {} BY <1>3, <2>1
  <2>3. PICK t \in T : \A k \in T : t <= k BY <2>2, LeastNumber
  <2>4. PICK node \in Wrong : t = Len(topic) - Len(node) BY <2>3
  <2>5. Len(node) < Len(topic) BY <1>3, <1>5, <2>4
  <2>6. \A n \in Path : Len(n) = Len(node) + 1 => Right(n)
    <3> SUFFICES ASSUME NEW n \in Path, Len(n) = Len(node) + 1, ~Right(n) PROVE FALSE
      OBVIOUS
    <3>1. n \in Wrong BY <1>3, <2>5
    <3>2. Len(topic) - Len(n) \in T BY <3>1
    <3>3. t <= Len(topic) - Len(n) BY <2>3, <3>2
    <3>4. Len(topic) \in Nat /\ Len(node) \in Nat BY <1>3
    <3> HIDE DEF Wrong, T
    <3> QED BY <2>4, <3>3, <3>4
  <2> QED BY <1>6, <2>4, <2>5, <2>6
<1>8. <<>> \in Path /\ Len(<<>>) = 0 BY DEF Path
<1>9. Right(<<>>) BY <1>3, <1>7, <1>8
<1> QED BY <1>2, <1>9 DEF Right

-----------------------------------------------------------------------------
(***************************************************************************)
(* Lists joined one after the other.                                       *)
(***************************************************************************)

HasItem(list, v) == \E k \in DOMAIN list : list[k] = v

LEMMA HasItemBoth ==
  ASSUME NEW V, NEW s \in Seq(V), NEW t \in Seq(V), NEW v
  PROVE  HasItem(s \o t, v) <=> HasItem(s, v) \/ HasItem(t, v)
<1>1. /\ s \o t \in Seq(V) /\ Len(s \o t) = Len(s) + Len(t)
      /\ \A i \in 1..(Len(s) + Len(t)) :
           (s \o t)[i] = IF i <= Len(s) THEN s[i] ELSE t[i - Len(s)]
  BY ConcatProperties
<1>2. /\ DOMAIN s = 1..Len(s) /\ DOMAIN t = 1..Len(t) /\ DOMAIN (s \o t) = 1..Len(s \o t)
      /\ Len(s) \in Nat /\ Len(t) \in Nat
  BY <1>1
<1>3. ASSUME HasItem(s \o t, v) PROVE HasItem(s, v) \/ HasItem(t, v)
  <2>1. PICK k \in 1..(Len(s) + Len(t)) : (s \o t)[k] = v BY <1>1, <1>2, <1>3 DEF HasItem
  <2>2. CASE k <= Len(s)
    <3>1. k \in DOMAIN s /\ s[k] = v BY <1>1, <1>2, <2>1, <2>2
    <3> QED BY <3>1 DEF HasItem
  <2>3. CASE k > Len(s)
    <3>1. k - Len(s) \in DOMAIN t /\ t[k - Len(s)] = v BY <1>1, <1>2, <2>1, <2>3
    <3> QED BY <3>1 DEF HasItem
  <2> QED BY <1>2, <2>1, <2>2, <2>3
<1>4. ASSUME HasItem(s, v) PROVE HasItem(s \o t, v)
  <2>1. PICK k \in 1..Len(s) : s[k] = v BY <1>2, <1>4 DEF HasItem
  <2>2. k \in DOMAIN (s \o t) /\ (s \o t)[k] = v BY <1>1, <1>2, <2>1
  <2> QED BY <2>2 DEF HasItem
<1>5. ASSUME HasItem(t, v) PROVE HasItem(s \o t, v)
  <2>1. PICK k \in 1..Len(t) : t[k] = v BY <1>2, <1>5 DEF HasItem
  <2> DEFINE j == k + Len(s)
  <2>2. j \in DOMAIN (s \o t) /\ j \in 1..(Len(s) + Len(t)) /\ ~(j <= Len(s)) /\ j - Len(s) = k
    BY <1>1, <1>2, <2>1
  <2> HIDE DEF j
  <2>3. (s \o t)[j] = v BY <1>1, <2>1, <2>2
  <2> QED BY <2>2, <2>3 DEF HasItem
<1> QED BY <1>3, <1>4, <1>5

LEMMA AppendItems ==
  ASSUME NEW V, NEW s \in Seq(V), NEW x \in V
  PROVE  /\ Append(s, x) \in Seq(V)
         /\ \A v : HasItem(Append(s, x), v) <=> HasItem(s, v) \/ v = x
<1> DEFINE one == <<x>>
<1>1. one \in Seq(V) /\ Append(s, x) = s \o one /\ Append(s, x) \in Seq(V) OBVIOUS
<1>2. \A v : HasItem(one, v) <=> v = x BY DEF HasItem
<1> HIDE DEF one
<1>3. \A v : HasItem(s \o one, v) <=> HasItem(s, v) \/ HasItem(one, v) BY <1>1, HasItemBoth
<1> QED BY <1>1, <1>2, <1>3

\* No item is in two places.
Distinct(list) == \A j, k \in DOMAIN list : list[j] = list[k] => j = k

LEMMA DistinctBoth ==
  ASSUME NEW V, NEW s \in Seq(V), NEW t \in Seq(V), Distinct(s), Distinct(t),
         \A v : ~(HasItem(s, v) /\ HasItem(t, v))
  PROVE  Distinct(s \o t)
<1>1. /\ s \o t \in Seq(V) /\ Len(s \o t) = Len(s) + Len(t)
      /\ \A i \in 1..(Len(s) + Len(t)) :
           (s \o t)[i] = IF i <= Len(s) THEN s[i] ELSE t[i - Len(s)]
  BY ConcatProperties
<1>2. /\ DOMAIN s = 1..Len(s) /\ DOMAIN t = 1..Len(t) /\ DOMAIN (s \o t) = 1..(Len(s) + Len(t))
      /\ Len(s) \in Nat /\ Len(t) \in Nat
  BY <1>1
<1>3. \A i \in 1..Len(s), j \in 1..Len(t) : s[i] # t[j] BY <1>2 DEF HasItem
<1> DEFINE st == s \o t
<1>4. \A i \in 1..(Len(s) + Len(t)) :
        \/ i \in 1..Len(s) /\ st[i] = s[i]
        \/ i - Len(s) \in 1..Len(t) /\ st[i] = t[i - Len(s)]
  BY <1>1, <1>2
<1> HIDE DEF st
<1>5. ASSUME NEW i \in 1..(Len(s) + Len(t)), NEW j \in 1..(Len(s) + Len(t)), st[i] = st[j]
      PROVE  i = j
  <2>1. CASE i \in 1..Len(s) /\ st[i] = s[i]
    <3>1. j \in 1..Len(s) /\ st[j] = s[j] BY <1>3, <1>4, <1>5, <2>1
    <3> QED BY <1>2, <1>5, <2>1, <3>1 DEF Distinct
  <2>2. CASE i - Len(s) \in 1..Len(t) /\ st[i] = t[i - Len(s)]
    <3>1. j - Len(s) \in 1..Len(t) /\ st[j] = t[j - Len(s)] BY <1>3, <1>4, <1>5, <2>2
    <3>2. i - Len(s) = j - Len(s) BY <1>2, <1>5, <2>2, <3>1 DEF Distinct
    <3> QED BY <1>2, <3>2
  <2> QED BY <1>4, <2>1, <2>2
<1> QED BY <1>2, <1>5 DEF Distinct, st

\* No item is in two places of a part or in two parts.
Apart(f, n) ==
  /\ \A i \in 1..n : Distinct(f[i])
  /\ \A i, j \in 1..n : \A v : HasItem(f[i], v) /\ HasItem(f[j], v) => i = j

\* Joined appends one part after the other.
Builds(u, f, n) ==
  /\ Joined(f, n) = u[n] /\ u[0] = <<>>
  /\ \A k \in 1..n : u[k] = u[k - 1] \o f[k]

LEMMA JoinedBuilds ==
  ASSUME NEW V, NEW n \in Nat, NEW f, \A i \in 1..n : f[i] \in Seq(V)
  PROVE  \E u : Builds(u, f, n)
<1> DEFINE Step(u) == [i \in 0..n |-> IF i = 0 THEN <<>> ELSE u[i - 1] \o f[i]]
           upTo == CHOOSE upTo : upTo = Step(upTo)
           R == [0..n -> Seq(V)]
           G == [u \in R |-> Step(u)]
           m == [i \in 0..n |-> i]
<1>1. Joined(f, n) = upTo[n] BY DEF Joined
<1>2. \A u \in R : Step(u) \in R
  <2> SUFFICES ASSUME NEW u \in R, NEW i \in 0..n
               PROVE (IF i = 0 THEN <<>> ELSE u[i - 1] \o f[i]) \in Seq(V)
    OBVIOUS
  <2>1. CASE i = 0 BY <2>1
  <2>2. CASE i # 0
    <3>1. i - 1 \in 0..n /\ i \in 1..n BY <2>2
    <3>2. u[i - 1] \in Seq(V) /\ f[i] \in Seq(V) BY <3>1
    <3>3. u[i - 1] \o f[i] \in Seq(V) BY <3>2, ConcatProperties
    <3> QED BY <2>2, <3>3
  <2> QED BY <2>1, <2>2
<1>3. G \in [R -> R] BY <1>2
<1>4. ASSUME NEW u \in R, NEW w \in R, NEW i \in 0..n,
             \A j \in 0..n : m[j] < m[i] => u[j] = w[j]
      PROVE  G[u][i] = G[w][i]
  <2>1. CASE i = 0 BY <2>1
  <2>2. CASE i # 0
    <3>1. i - 1 \in 0..n /\ m[i - 1] < m[i] BY <2>2
    <3>2. u[i - 1] = w[i - 1] BY <1>4, <3>1
    <3> QED BY <2>2, <3>2
  <2> QED BY <2>1, <2>2
<1>5. \E u : u = Step(u)
  <2>0. Seq(V) # {}
    <3>1. <<>> \in Seq(V) OBVIOUS
    <3> QED BY <3>1
  <2>1. m \in [0..n -> Nat] /\ n + 1 \in Nat /\ \A i \in 0..n : m[i] < n + 1 OBVIOUS
  <2>2. G \in [[0..n -> Seq(V)] -> [0..n -> Seq(V)]] BY <1>3
  <2>3. \A u, w \in [0..n -> Seq(V)] : \A i \in 0..n :
           (\A j \in 0..n : m[j] < m[i] => u[j] = w[j]) => G[u][i] = G[w][i]
    BY <1>4
  <2> HIDE DEF G, m
  <2>4. IsRecursive(0..n, Seq(V), G, m, n + 1) BY <2>0, <2>1, <2>2, <2>3 DEF IsRecursive
  <2>5. \E u \in [0..n -> Seq(V)] : u = G[u]
    <3> DEFINE S == 0..n
               W == Seq(V)
               M == n + 1
    <3>1. IsRecursive(S, W, G, m, M) BY <2>4
    <3> HIDE DEF S, W, M
    <3>2. \E u \in [S -> W] : u = G[u] BY <3>1, Recursion
    <3> QED BY <3>2 DEF S, W
  <2> QED BY <2>5 DEF G
<1>6. upTo = Step(upTo) BY <1>5
<1> HIDE DEF upTo
<1>7. upTo[0] = <<>>
  <2>1. Step(upTo)[0] = <<>> OBVIOUS
  <2> HIDE DEF Step
  <2> QED BY <1>6, <2>1
<1>8. ASSUME NEW k \in 1..n PROVE upTo[k] = upTo[k - 1] \o f[k]
  <2>1. k \in 0..n /\ k # 0 OBVIOUS
  <2>2. Step(upTo)[k] = IF k = 0 THEN <<>> ELSE upTo[k - 1] \o f[k] BY <2>1
  <2>3. Step(upTo)[k] = upTo[k - 1] \o f[k] BY <2>1, <2>2
  <2> HIDE DEF Step
  <2> QED BY <1>6, <2>3
<1> QED BY <1>1, <1>7, <1>8 DEF Builds

\* Joined has the items of its parts and no others, and if it has none in two places
\* of a part or in two parts, it has none in two places.
LEMMA JoinedParts ==
  ASSUME NEW V, NEW n \in Nat, NEW f, \A i \in 1..n : f[i] \in Seq(V)
  PROVE  /\ Joined(f, n) \in Seq(V)
         /\ \A v : HasItem(Joined(f, n), v) <=> \E i \in 1..n : HasItem(f[i], v)
         /\ Apart(f, n) => Distinct(Joined(f, n))
<1>0. PICK upTo : Builds(upTo, f, n) BY JoinedBuilds
<1>1. /\ Joined(f, n) = upTo[n] /\ upTo[0] = <<>>
      /\ \A k \in 1..n : upTo[k] = upTo[k - 1] \o f[k]
  BY <1>0 DEF Builds
<1> DEFINE Right(k) ==
             /\ upTo[k] \in Seq(V)
             /\ \A v : HasItem(upTo[k], v) <=> \E i \in 1..k : HasItem(f[i], v)
             /\ Apart(f, n) => Distinct(upTo[k])
           T == {k \in 0..n : ~Right(k)}
<1>7. Right(0)
  BY <1>1 DEF HasItem, Distinct
<1>8. ASSUME NEW k \in 1..n, Right(k - 1) PROVE Right(k)
  <2> DEFINE a == upTo[k - 1]
             b == f[k]
  <2>1. upTo[k] = a \o b BY <1>1
  <2>2. a \in Seq(V) /\ \A v : HasItem(a, v) <=> \E i \in 1..(k - 1) : HasItem(f[i], v)
    BY <1>8
  <2>3. b \in Seq(V) OBVIOUS
  <2> HIDE DEF a
  <2>4. a \o b \in Seq(V) /\ \A v : HasItem(a \o b, v) <=> HasItem(a, v) \/ HasItem(b, v)
    <3> HIDE DEF b
    <3> QED BY <2>2, <2>3, HasItemBoth, ConcatProperties
  <2>5. \A i : i \in 1..k <=> i \in 1..(k - 1) \/ i = k OBVIOUS
  <2>6. \A v : HasItem(upTo[k], v) <=> \E i \in 1..k : HasItem(f[i], v)
    BY <2>1, <2>2, <2>4, <2>5
  <2>7. ASSUME Apart(f, n) PROVE Distinct(upTo[k])
    <3>1. Distinct(a) BY <1>8, <2>7 DEF a
    <3>2. Distinct(b) BY <2>7 DEF Apart
    <3>3. \A v : ~(HasItem(a, v) /\ HasItem(b, v))
      <4> SUFFICES ASSUME NEW v, HasItem(a, v), HasItem(b, v) PROVE FALSE OBVIOUS
      <4>1. PICK i \in 1..(k - 1) : HasItem(f[i], v) BY <2>2
      <4>2. i \in 1..n /\ i # k /\ k \in 1..n OBVIOUS
      <4> QED BY <2>7, <4>1, <4>2 DEF Apart
    <3> HIDE DEF b
    <3> QED BY <2>1, <2>2, <2>3, <3>1, <3>2, <3>3, DistinctBoth
  <2> QED BY <2>1, <2>4, <2>6, <2>7
<1> HIDE DEF Right
<1>9. T = {}
  <2>1. SUFFICES ASSUME T # {} PROVE FALSE OBVIOUS
  <2>2. PICK k \in T : \A j \in T : k <= j
    <3>1. T \subseteq Nat OBVIOUS
    <3> HIDE DEF T
    <3> QED BY <2>1, <3>1, LeastNumber
  <2>3. k \in 0..n /\ ~Right(k) BY <2>2
  <2>4. k # 0 BY <1>7, <2>3
  <2>5. k - 1 \in 0..n /\ ~(k <= k - 1) BY <2>3, <2>4
  <2>6. Right(k - 1) BY <2>2, <2>5
  <2> QED BY <1>8, <2>3, <2>4, <2>6
<1>10. Right(n) BY <1>9
<1> QED BY <1>1, <1>10 DEF Right

LEMMA WithoutParts ==
  ASSUME NEW V, NEW list \in Seq(V), NEW x
  PROVE  /\ Without(list, x) \in Seq(V \ {x})
         /\ \A v : HasItem(Without(list, x), v) <=> HasItem(list, v) /\ v # x
         /\ Distinct(list) => Distinct(Without(list, x))
<1> DEFINE f == [i \in DOMAIN list |-> IF list[i] = x THEN <<>> ELSE <<list[i]>>]
<1>1. Len(list) \in Nat /\ DOMAIN list = 1..Len(list) OBVIOUS
<1>2. ASSUME NEW i \in 1..Len(list) PROVE f[i] \in Seq(V \ {x}) /\ list[i] \in V
  <2>1. list[i] \in V OBVIOUS
  <2>2. CASE list[i] = x BY <1>1, <2>1, <2>2
  <2>3. CASE list[i] # x
    <3>1. f[i] = <<list[i]>> /\ list[i] \in V \ {x} BY <1>1, <2>1, <2>3
    <3> HIDE DEF f
    <3> QED BY <2>1, <3>1
  <2> QED BY <2>2, <2>3
<1>3. \A v : \A i \in 1..Len(list) : HasItem(f[i], v) <=> list[i] = v /\ v # x
  BY <1>1 DEF HasItem
<1>3a. \A i \in 1..Len(list) : Distinct(f[i]) BY <1>1 DEF Distinct
<1>4. Without(list, x) = Joined(f, Len(list)) BY DEF Without
<1> HIDE DEF f
<1>5. /\ Joined(f, Len(list)) \in Seq(V \ {x})
      /\ \A v : HasItem(Joined(f, Len(list)), v) <=> \E i \in 1..Len(list) : HasItem(f[i], v)
      /\ Apart(f, Len(list)) => Distinct(Joined(f, Len(list)))
  BY <1>1, <1>2, JoinedParts
<1>5a. ASSUME Distinct(list) PROVE Apart(f, Len(list))
  <2>1. \A i, j \in 1..Len(list) : list[i] = list[j] => i = j BY <1>1, <1>5a DEF Distinct
  <2>2. ASSUME NEW i \in 1..Len(list), NEW j \in 1..Len(list), NEW v,
               HasItem(f[i], v), HasItem(f[j], v)
        PROVE  i = j
    <3>1. list[i] = v /\ list[j] = v BY <1>3, <2>2
    <3> QED BY <2>1, <3>1
  <2> QED BY <1>3a, <2>2 DEF Apart
<1>6. \A v : (\E i \in 1..Len(list) : HasItem(f[i], v)) <=> HasItem(list, v) /\ v # x
  BY <1>1, <1>3 DEF HasItem
<1> QED BY <1>4, <1>5, <1>5a, <1>6

LEMMA ConcatParts ==
  ASSUME NEW V, NEW S, NEW order \in Seq(S), NEW f, \A s \in S : f[s] \in Seq(V)
  PROVE  /\ Concat(f, order) \in Seq(V)
         /\ \A v : HasItem(Concat(f, order), v)
                     <=> \E i \in DOMAIN order : HasItem(f[order[i]], v)
<1> DEFINE g == [i \in DOMAIN order |-> f[order[i]]]
<1>1. Len(order) \in Nat /\ DOMAIN order = 1..Len(order) OBVIOUS
<1>2. \A i \in 1..Len(order) : g[i] = f[order[i]] /\ f[order[i]] \in Seq(V) BY <1>1
<1>3. Concat(f, order) = Joined(g, Len(order)) BY DEF Concat
<1> HIDE DEF g
<1>4. /\ Joined(g, Len(order)) \in Seq(V)
      /\ \A v : HasItem(Joined(g, Len(order)), v) <=> \E i \in 1..Len(order) : HasItem(g[i], v)
  BY <1>1, <1>2, JoinedParts
<1> QED BY <1>1, <1>2, <1>3, <1>4

-----------------------------------------------------------------------------
(***************************************************************************)
(* The search for a pattern.                                               *)
(***************************************************************************)

\* A trie of paths has a depth.
LEMMA DepthBound ==
  ASSUME NEW trie, IsFiniteSet(DOMAIN trie), DOMAIN trie \subseteq Path
  PROVE  Depth(trie) \in Nat /\ \A n \in DOMAIN trie : Len(n) <= Depth(trie)
<1> DEFINE L == {Len(n) : n \in DOMAIN trie} \cup {0}
<1>1. L \subseteq Nat
  <2>1. \A n \in DOMAIN trie : Len(n) \in Nat BY DEF Path
  <2> QED BY <2>1
<1>2. PICK c \in Nat : ExistsBijection(1..c, DOMAIN trie) BY FS_NatBijection
<1>2a. PICK f \in [1..c -> DOMAIN trie] : \A n \in DOMAIN trie : \E i \in 1..c : f[i] = n
  <2>1. PICK f \in Bijection(1..c, DOMAIN trie) : TRUE BY <1>2 DEF ExistsBijection
  <2>2. f \in [1..c -> DOMAIN trie] /\ \A n \in DOMAIN trie : \E i \in 1..c : f[i] = n
    BY <2>1 DEF Bijection, Injection, Surjection
  <2> QED BY <2>2
<1>3. \E B \in Nat : \A x \in L : x <= B
  <2> DEFINE Bounded(k) == \E B \in Nat : \A i \in 1..k : Len(f[i]) <= B
             T == {k \in 0..c : ~Bounded(k)}
  <2>1. Bounded(0) OBVIOUS
  <2>2. ASSUME NEW k \in 1..c, Bounded(k - 1) PROVE Bounded(k)
    <3>1. PICK B \in Nat : \A i \in 1..(k - 1) : Len(f[i]) <= B BY <2>2
    <3>2. Len(f[k]) \in Nat BY <1>1, <1>2a
    <3>3. \E C \in Nat : B <= C /\ Len(f[k]) <= C
      <4>1. CASE B <= Len(f[k]) BY <3>2, <4>1
      <4>2. CASE ~(B <= Len(f[k])) BY <3>2, <4>2
      <4> QED BY <4>1, <4>2
    <3>4. PICK C \in Nat : B <= C /\ Len(f[k]) <= C BY <3>3
    <3>5. ASSUME NEW i \in 1..k PROVE Len(f[i]) <= C
      <4>1. CASE i = k BY <3>4, <4>1
      <4>2. CASE i # k
        <5>1. i \in 1..(k - 1) /\ i \in 1..c BY <4>2
        <5>2. Len(f[i]) \in Nat /\ Len(f[i]) <= B BY <1>1, <1>2a, <3>1, <5>1
        <5> QED BY <3>4, <5>2
      <4> QED BY <4>1, <4>2
    <3> QED BY <3>5
  <2> HIDE DEF Bounded
  <2>3. T = {}
    <3>1. SUFFICES ASSUME T # {} PROVE FALSE OBVIOUS
    <3>2. PICK k \in T : \A j \in T : k <= j
      <4>1. T \subseteq Nat OBVIOUS
      <4> HIDE DEF T
      <4> QED BY <3>1, <4>1, LeastNumber
    <3>3. k \in 0..c /\ ~Bounded(k) BY <3>2
    <3>4. k # 0 BY <2>1, <3>3
    <3>5. k - 1 \in 0..c /\ ~(k <= k - 1) BY <3>3, <3>4
    <3>6. Bounded(k - 1) BY <3>2, <3>5
    <3> QED BY <2>2, <3>3, <3>4, <3>6
  <2>4. PICK B \in Nat : \A i \in 1..c : Len(f[i]) <= B
    <3>1. Bounded(c) BY <2>3
    <3> QED BY <3>1 DEF Bounded
  <2>5. \A n \in DOMAIN trie : Len(n) <= B BY <1>2a, <2>4
  <2> QED BY <2>5
<1>3a. PICK B \in Nat : \A x \in L : x <= B BY <1>3
<1>4. \E d \in L : \A n \in DOMAIN trie : Len(n) <= d
  <2> DEFINE T == {B - x : x \in L}
  <2>1. T \subseteq Nat /\ T # {} BY <1>1, <1>3a
  <2>2. PICK t \in T : \A s \in T : t <= s BY <2>1, LeastNumber
  <2>3. PICK d \in L : t = B - d BY <2>2
  <2>4. ASSUME NEW n \in DOMAIN trie PROVE Len(n) <= d
    <3>1. Len(n) \in L /\ Len(n) \in Nat /\ d \in Nat BY <1>1
    <3>2. t <= B - Len(n) BY <2>2, <3>1
    <3> QED BY <1>3a, <2>3, <3>1, <3>2
  <2> QED BY <2>4
<1>5. Depth(trie) \in L /\ \A n \in DOMAIN trie : Len(n) <= Depth(trie)
  BY <1>4 DEF Depth
<1> QED BY <1>1, <1>5

\* CollectAll as a function of the node it stands at.
Collected(trie, order, all) ==
  [node \in Path |->
     IF Len(node) >= Depth(trie) THEN At(trie, node)
     ELSE At(trie, node) \o Child(trie, node, Multi)
            \o Concat([l \in Literal |-> all[Append(node, l)]], order)
            \o all[Append(node, Star)]
            \o all[Append(node, Template)]]

LEMMA CollectedStep ==
  ASSUME NEW V, NEW trie, \A n \in DOMAIN trie : trie[n] \in Seq(V),
         NEW order \in Seq(Literal), NEW all \in [Path -> Seq(V)], NEW node \in Path,
         ~(Len(node) >= Depth(trie))
  PROVE  LET list == Collected(trie, order, all)[node]
         IN  /\ list \in Seq(V)
             /\ \A v : HasItem(Child(trie, node, Multi), v) => HasItem(list, v)
<1> DEFINE a == At(trie, node)
           b == Child(trie, node, Multi)
           g == [l \in Literal |-> all[Append(node, l)]]
           c == Concat(g, order)
           d == all[Append(node, Star)]
           e == all[Append(node, Template)]
           list == Collected(trie, order, all)[node]
<1>1. {Star, Multi, Template} \cup Literal \subseteq Key BY DEF Key, Segment
<1>2. \A key \in Key : Append(node, key) \in Path BY AppendParts
<1>3. a \in Seq(V) /\ b \in Seq(V) BY DEF At, Child
<1>4. d \in Seq(V) /\ e \in Seq(V) BY <1>1, <1>2
<1>5. \A l \in Literal : g[l] \in Seq(V) BY <1>1, <1>2
<1>6. c \in Seq(V)
  <2> HIDE DEF g
  <2> QED BY <1>5, ConcatParts
<1>7. list = (((a \o b) \o c) \o d) \o e BY DEF Collected
<1> HIDE DEF a, b, c, d, e, list
<1>8. a \o b \in Seq(V) /\ \A v : HasItem(b, v) => HasItem(a \o b, v)
  BY <1>3, HasItemBoth, ConcatProperties
<1> DEFINE ab == a \o b
           abc == ab \o c
           abcd == abc \o d
<1>9. abc \in Seq(V) /\ \A v : HasItem(ab, v) => HasItem(abc, v)
  <2>1. ab \in Seq(V) BY <1>8
  <2> HIDE DEF ab
  <2> QED BY <1>6, <2>1, HasItemBoth, ConcatProperties
<1>10. abcd \in Seq(V) /\ \A v : HasItem(abc, v) => HasItem(abcd, v)
  <2>1. abc \in Seq(V) BY <1>9
  <2> HIDE DEF abc
  <2> QED BY <1>4, <2>1, HasItemBoth, ConcatProperties
<1>11. abcd \o e \in Seq(V) /\ \A v : HasItem(abcd, v) => HasItem(abcd \o e, v)
  <2>1. abcd \in Seq(V) BY <1>10
  <2> HIDE DEF abcd
  <2> QED BY <1>4, <2>1, HasItemBoth, ConcatProperties
<1>12. list = abcd \o e /\ b = Child(trie, node, Multi) BY <1>7 DEF b
<1>13. list \in Seq(V) /\ \A v : HasItem(b, v) => HasItem(list, v)
  <2>1. \A v : HasItem(b, v) => HasItem(ab, v) BY <1>8
  <2> HIDE DEF ab, abc, abcd
  <2> QED BY <1>9, <1>10, <1>11, <1>12, <2>1
<1> QED BY <1>12, <1>13 DEF list

LEMMA CollectedExists ==
  ASSUME NEW V, NEW trie, \A n \in DOMAIN trie : trie[n] \in Seq(V),
         Depth(trie) \in Nat, NEW order \in Seq(Literal)
  PROVE  \E all \in [Path -> Seq(V)] : all = Collected(trie, order, all)
<1> DEFINE D == Depth(trie)
           W == Seq(V)
           R == [Path -> W]
           m == [node \in Path |-> IF Len(node) >= D THEN 0 ELSE D - Len(node)]
           G == [f \in R |-> Collected(trie, order, f)]
<1>1. D \in Nat /\ \A node \in Path : Len(node) \in Nat BY DEF Path
<1>2. {Star, Multi, Template} \cup Literal \subseteq Key BY DEF Key, Segment
<1>3. \A node \in Path, key \in Key :
        Append(node, key) \in Path /\ Len(Append(node, key)) = Len(node) + 1
  BY AppendParts
<1>4. ASSUME NEW f \in R, NEW node \in Path PROVE Collected(trie, order, f)[node] \in W
  <2>1. CASE Len(node) >= Depth(trie) BY <2>1 DEF Collected, At
  <2>2. CASE ~(Len(node) >= Depth(trie)) BY <2>2, CollectedStep
  <2> QED BY <2>1, <2>2
<1>5. G \in [R -> R] BY <1>4 DEF Collected
<1>6. m \in [Path -> Nat] /\ \A node \in Path : m[node] < D + 1 BY <1>1
<1>7. ASSUME NEW f \in R, NEW g \in R, NEW x \in Path,
             \A y \in Path : m[y] < m[x] => f[y] = g[y]
      PROVE  G[f][x] = G[g][x]
  <2>1. CASE Len(x) >= D BY <2>1 DEF Collected
  <2>2. CASE ~(Len(x) >= D)
    <3>1. ASSUME NEW key \in Key PROVE f[Append(x, key)] = g[Append(x, key)]
      <4> DEFINE y == Append(x, key)
      <4>1. y \in Path /\ Len(y) = Len(x) + 1 BY <1>3
      <4> HIDE DEF y
      <4>2. m[y] < m[x] BY <1>1, <2>2, <4>1
      <4>3. f[y] = g[y] BY <1>7, <4>1, <4>2
      <4> QED BY <4>3 DEF y
    <3>2. /\ f[Append(x, Star)] = g[Append(x, Star)]
          /\ f[Append(x, Template)] = g[Append(x, Template)]
          /\ [l \in Literal |-> f[Append(x, l)]] = [l \in Literal |-> g[Append(x, l)]]
      BY <1>2, <3>1
    <3> QED BY <2>2, <3>2 DEF Collected
  <2> QED BY <2>1, <2>2
<1>8. W # {}
  <2>1. <<>> \in W OBVIOUS
  <2> QED BY <2>1
<1>9. D + 1 \in Nat BY <1>1
<1>10. IsRecursive(Path, W, G, m, D + 1)
  <2>1. G \in [[Path -> W] -> [Path -> W]] BY <1>5
  <2>2. \A f, g \in [Path -> W] : \A x \in Path :
           (\A y \in Path : m[y] < m[x] => f[y] = g[y]) => G[f][x] = G[g][x]
    BY <1>7
  <2> HIDE DEF G, m, R, W, D
  <2> QED BY <1>6, <1>8, <1>9, <2>1, <2>2 DEF IsRecursive
<1>11. \E f \in R : f = G[f]
  <2> HIDE DEF G, m, W, D
  <2> QED BY <1>10, Recursion
<1> QED BY <1>11

LEMMA CollectedTyped ==
  ASSUME NEW V, NEW trie, \A n \in DOMAIN trie : trie[n] \in Seq(V),
         Depth(trie) \in Nat, NEW order \in Seq(Literal),
         NEW all, all = Collected(trie, order, all)
  PROVE  all \in [Path -> Seq(V)]
<1>5. /\ \A n \in Path : Len(n) \in Nat
      /\ {Star, Multi, Template} \cup Literal \subseteq Key
  BY DEF Path, Key, Segment
<1> DEFINE T == {k \in Nat : \E n \in Path : all[n] \notin Seq(V)
                                /\ k = IF Len(n) >= Depth(trie) THEN 0 ELSE Depth(trie) - Len(n)}
<1>6. ASSUME NEW n \in Path, Len(n) >= Depth(trie) PROVE all[n] = At(trie, n)
  <2>1. Collected(trie, order, all)[n] = At(trie, n) BY <1>6 DEF Collected
  <2> QED BY <2>1
<1>7. \A n \in Path : Len(n) >= Depth(trie) => all[n] \in Seq(V)
  <2>1. \A n : At(trie, n) \in Seq(V) BY DEF At
  <2> QED BY <1>6, <2>1
<1>8. T = {}
  <2>1. SUFFICES ASSUME T # {} PROVE FALSE OBVIOUS
  <2>2. PICK k \in T : \A j \in T : k <= j
    <3>1. T \subseteq Nat OBVIOUS
    <3> HIDE DEF T
    <3> QED BY <2>1, <3>1, LeastNumber
  <2>3. PICK n \in Path : all[n] \notin Seq(V)
                          /\ k = IF Len(n) >= Depth(trie) THEN 0 ELSE Depth(trie) - Len(n)
    BY <2>2
  <2>4. ~(Len(n) >= Depth(trie)) /\ k = Depth(trie) - Len(n) BY <1>7, <2>3
  <2>5. ASSUME NEW x \in Path, Len(x) = Len(n) + 1 PROVE all[x] \in Seq(V)
    <3> SUFFICES ASSUME all[x] \notin Seq(V) PROVE FALSE OBVIOUS
    <3>1. ~(Len(x) >= Depth(trie)) BY <1>7
    <3>2. Depth(trie) - Len(x) \in Nat BY <1>5, <3>1
    <3>3. Depth(trie) - Len(x) \in T BY <3>1, <3>2
    <3>4. k <= Depth(trie) - Len(x) BY <2>2, <3>3
    <3> HIDE DEF T
    <3> QED BY <1>5, <2>4, <2>5, <3>4
  <2>6. \A key \in Key : all[Append(n, key)] \in Seq(V) BY <2>5, AppendParts
  <2>7. \E g \in [Path -> Seq(V)] : \A key \in Key : g[Append(n, key)] = all[Append(n, key)]
    <3> DEFINE g == [x \in Path |-> IF all[x] \in Seq(V) THEN all[x] ELSE <<>>]
    <3>1. g \in [Path -> Seq(V)] OBVIOUS
    <3>2. \A key \in Key : g[Append(n, key)] = all[Append(n, key)] BY <2>6, AppendParts
    <3> QED BY <3>1, <3>2
  <2>8. PICK g \in [Path -> Seq(V)] : \A key \in Key : g[Append(n, key)] = all[Append(n, key)]
    BY <2>7
  <2>9. Collected(trie, order, g)[n] = Collected(trie, order, all)[n]
    <3>1. [l \in Literal |-> g[Append(n, l)]] = [l \in Literal |-> all[Append(n, l)]]
      BY <1>5, <2>8
    <3>2. /\ g[Append(n, Star)] = all[Append(n, Star)]
          /\ g[Append(n, Template)] = all[Append(n, Template)]
      BY <1>5, <2>8
    <3> QED BY <2>4, <3>1, <3>2 DEF Collected
  <2>10. Collected(trie, order, g)[n] \in Seq(V) BY <2>4, CollectedStep
  <2> QED BY <2>3, <2>9, <2>10
<1>9. all \in [Path -> Seq(V)]
  <2>1. ASSUME NEW n \in Path PROVE all[n] \in Seq(V)
    <3>1. Depth(trie) \in Nat /\ Len(n) \in Nat BY <1>5
    <3>2. (IF Len(n) >= Depth(trie) THEN 0 ELSE Depth(trie) - Len(n)) \in Nat BY <3>1
    <3> QED BY <1>8, <3>2
  <2>2. all = [n \in Path |-> Collected(trie, order, all)[n]]
    <3>1. Collected(trie, order, all) = [n \in Path |-> Collected(trie, order, all)[n]]
      BY DEF Collected
    <3> QED BY <3>1
  <2> HIDE DEF T
  <2>3. DOMAIN all = Path BY <2>2
  <2> QED BY <2>1, <2>2, <2>3
<1> QED BY <1>9

\* Of what lies below a node it collects at least what is kept there for >.
LEMMA CollectAllParts ==
  ASSUME NEW V, NEW trie, \A n \in DOMAIN trie : trie[n] \in Seq(V),
         IsFiniteSet(DOMAIN trie), DOMAIN trie \subseteq Path,
         NEW order \in Seq(Literal), NEW node \in Path
  PROVE  /\ CollectAll(trie, node, order) \in Seq(V)
         /\ \A v : HasItem(Child(trie, node, Multi), v)
                     => HasItem(CollectAll(trie, node, order), v)
<1> DEFINE all == CHOOSE all : all = Collected(trie, order, all)
<1>1. Depth(trie) \in Nat /\ \A n \in DOMAIN trie : Len(n) <= Depth(trie) BY DepthBound
<1>2. PICK f \in [Path -> Seq(V)] : f = Collected(trie, order, f) BY <1>1, CollectedExists
<1>3. all = Collected(trie, order, all) BY <1>2
<1>4. CollectAll(trie, node, order) = all[node]
  BY DEF CollectAll, Collected, Path, Key
<1> HIDE DEF all
<1>5. /\ \A n \in Path : Len(n) \in Nat
      /\ {Star, Multi, Template} \cup Literal \subseteq Key
  BY DEF Path, Key, Segment
<1>9. all \in [Path -> Seq(V)] BY <1>1, <1>3, CollectedTyped
<1>10. CASE Len(node) >= Depth(trie)
  <2>1. Append(node, Multi) \notin DOMAIN trie
    <3> DEFINE x == Append(node, Multi)
    <3>1. Len(x) = Len(node) + 1 BY <1>5, AppendParts
    <3> HIDE DEF x
    <3>2. x \notin DOMAIN trie BY <1>1, <1>5, <1>10, <3>1
    <3> QED BY <3>2 DEF x
  <2>2. Child(trie, node, Multi) = <<>> BY <2>1 DEF Child, At
  <2> QED BY <1>4, <1>9, <2>2 DEF HasItem
<1>11. CASE ~(Len(node) >= Depth(trie))
  <2>1. all[node] = Collected(trie, order, all)[node] BY <1>3
  <2> DEFINE list == Collected(trie, order, all)[node]
  <2>2. list \in Seq(V) /\ \A v : HasItem(Child(trie, node, Multi), v) => HasItem(list, v)
    BY <1>9, <1>11, CollectedStep
  <2> QED BY <1>4, <2>1, <2>2
<1> QED BY <1>10, <1>11

\* The search for a pattern as a function of the node it stands at.
Wild(trie, pattern, order, find) ==
  [node \in Path |->
     LET segment == pattern[Len(node) + 1]
     IN  IF Len(node) >= Len(pattern) THEN At(trie, node)
         ELSE IF segment = Multi THEN CollectAll(trie, node, order)
         ELSE IF segment = Star
         THEN Concat([l \in Literal |-> find[Append(node, l)]], order)
                \o find[Append(node, Star)]
                \o find[Append(node, Template)]
         ELSE find[Append(node, segment)]]

IsTrie(trie, V) ==
  /\ DOMAIN trie \subseteq Path /\ IsFiniteSet(DOMAIN trie)
  /\ \A n \in DOMAIN trie : trie[n] \in Seq(V)

LEMMA WildStep ==
  ASSUME NEW V, NEW trie, IsTrie(trie, V), NEW pattern \in Seq(Segment),
         NEW order \in Seq(Literal), NEW find \in [Path -> Seq(V)], NEW node \in Path
  PROVE  LET list == Wild(trie, pattern, order, find)[node]
             segment == pattern[Len(node) + 1]
         IN  /\ list \in Seq(V)
             /\ Len(node) < Len(pattern) => \A v :
                  /\ segment = Multi /\ HasItem(Child(trie, node, Multi), v) => HasItem(list, v)
                  /\ segment # Multi /\ HasItem(find[Append(node, segment)], v)
                       => HasItem(list, v)
<1> DEFINE segment == pattern[Len(node) + 1]
           list == Wild(trie, pattern, order, find)[node]
<1>1. {Star, Multi, Template} \cup Segment \subseteq Key BY DEF Key, Segment
<1>2. \A key \in Key : Append(node, key) \in Path BY AppendParts
<1>3. Len(node) \in Nat /\ Len(pattern) \in Nat BY DEF Path
<1>4. CASE Len(node) >= Len(pattern)
  <2>1. list = At(trie, node) BY <1>4 DEF Wild
  <2>2. list \in Seq(V) BY <2>1 DEF At, IsTrie
  <2> QED BY <1>3, <1>4, <2>2
<1>5. CASE Len(node) < Len(pattern)
  <2>0. segment \in Segment /\ ~(Len(node) >= Len(pattern)) BY <1>3, <1>5
  <2>1. CASE segment = Multi
    <3>1. list = CollectAll(trie, node, order) BY <2>0, <2>1 DEF Wild
    <3>2. /\ CollectAll(trie, node, order) \in Seq(V)
          /\ \A v : HasItem(Child(trie, node, Multi), v)
                      => HasItem(CollectAll(trie, node, order), v)
      BY CollectAllParts DEF IsTrie
    <3> QED BY <2>1, <3>1, <3>2
  <2>2. CASE segment = Star
    <3> DEFINE g == [l \in Literal |-> find[Append(node, l)]]
               a == Concat(g, order)
               b == find[Append(node, Star)]
               c == find[Append(node, Template)]
    <3>1. list = (a \o b) \o c /\ segment # Multi
      BY <2>0, <2>2, SegmentAssumption DEF Wild
    <3>2. \A l \in Literal : g[l] \in Seq(V) BY <1>1, <1>2 DEF Segment
    <3>3. a \in Seq(V)
      <4> HIDE DEF g
      <4> QED BY <3>2, ConcatParts
    <3>4. b \in Seq(V) /\ c \in Seq(V) BY <1>1, <1>2
    <3>5. b = find[Append(node, segment)] BY <2>2
    <3> HIDE DEF a, b, c, list
    <3>6. a \o b \in Seq(V) /\ \A v : HasItem(b, v) => HasItem(a \o b, v)
      BY <3>3, <3>4, HasItemBoth, ConcatProperties
    <3> DEFINE ab == a \o b
    <3>7. ab \o c \in Seq(V) /\ \A v : HasItem(ab, v) => HasItem(ab \o c, v)
      <4>1. ab \in Seq(V) BY <3>6
      <4> HIDE DEF ab
      <4> QED BY <3>4, <4>1, HasItemBoth, ConcatProperties
    <3>8. list \in Seq(V) /\ \A v : HasItem(b, v) => HasItem(list, v)
      BY <3>1, <3>6, <3>7
    <3> QED BY <3>1, <3>5, <3>8 DEF list
  <2>3. CASE segment # Multi /\ segment # Star
    <3>1. list = find[Append(node, segment)] BY <2>0, <2>3 DEF Wild
    <3>2. find[Append(node, segment)] \in Seq(V) BY <1>1, <1>2, <2>0
    <3> QED BY <2>3, <3>1, <3>2
  <2> QED BY <2>1, <2>2, <2>3
<1> QED BY <1>3, <1>4, <1>5

LEMMA WildExists ==
  ASSUME NEW V, NEW trie, IsTrie(trie, V), NEW pattern \in Seq(Segment),
         NEW order \in Seq(Literal)
  PROVE  \E find \in [Path -> Seq(V)] : find = Wild(trie, pattern, order, find)
<1> DEFINE D == Len(pattern)
           W == Seq(V)
           R == [Path -> W]
           m == [node \in Path |-> IF Len(node) >= D THEN 0 ELSE D - Len(node)]
           G == [f \in R |-> Wild(trie, pattern, order, f)]
<1>1. D \in Nat /\ \A node \in Path : Len(node) \in Nat BY DEF Path
<1>2. {Star, Multi, Template} \cup Literal \cup Segment \subseteq Key BY DEF Key, Segment
<1>3. \A node \in Path, key \in Key :
        Append(node, key) \in Path /\ Len(Append(node, key)) = Len(node) + 1
  BY AppendParts
<1>4. ASSUME NEW f \in R, NEW node \in Path PROVE Wild(trie, pattern, order, f)[node] \in W
  BY WildStep
<1>5. G \in [R -> R] BY <1>4 DEF Wild
<1>6. m \in [Path -> Nat] /\ \A node \in Path : m[node] < D + 1 BY <1>1
<1>7. ASSUME NEW f \in R, NEW g \in R, NEW x \in Path,
             \A y \in Path : m[y] < m[x] => f[y] = g[y]
      PROVE  G[f][x] = G[g][x]
  <2>1. CASE Len(x) >= D BY <2>1 DEF Wild
  <2>2. CASE ~(Len(x) >= D)
    <3>1. ASSUME NEW key \in Key PROVE f[Append(x, key)] = g[Append(x, key)]
      <4> DEFINE y == Append(x, key)
      <4>1. y \in Path /\ Len(y) = Len(x) + 1 BY <1>3
      <4> HIDE DEF y
      <4>2. m[y] < m[x] BY <1>1, <2>2, <4>1
      <4>3. f[y] = g[y] BY <1>7, <4>1, <4>2
      <4> QED BY <4>3 DEF y
    <3>2. pattern[Len(x) + 1] \in Key
      <4>1. Len(x) + 1 \in 1..Len(pattern) BY <1>1, <2>2
      <4> QED BY <1>2, <4>1
    <3>3. /\ f[Append(x, Star)] = g[Append(x, Star)]
          /\ f[Append(x, Template)] = g[Append(x, Template)]
          /\ f[Append(x, pattern[Len(x) + 1])] = g[Append(x, pattern[Len(x) + 1])]
          /\ [l \in Literal |-> f[Append(x, l)]] = [l \in Literal |-> g[Append(x, l)]]
      BY <1>2, <3>1, <3>2
    <3> QED BY <2>2, <3>3 DEF Wild
  <2> QED BY <2>1, <2>2
<1>8. W # {}
  <2>1. <<>> \in W OBVIOUS
  <2> QED BY <2>1
<1>9. D + 1 \in Nat BY <1>1
<1>10. IsRecursive(Path, W, G, m, D + 1)
  <2>1. G \in [[Path -> W] -> [Path -> W]] BY <1>5
  <2>2. \A f, g \in [Path -> W] : \A x \in Path :
           (\A y \in Path : m[y] < m[x] => f[y] = g[y]) => G[f][x] = G[g][x]
    BY <1>7
  <2> HIDE DEF G, m, R, W, D
  <2> QED BY <1>6, <1>8, <1>9, <2>1, <2>2 DEF IsRecursive
<1>11. \E f \in R : f = G[f]
  <2> HIDE DEF G, m, W, D
  <2> QED BY <1>10, Recursion
<1> QED BY <1>11

\* What it finds is a list of what the trie keeps.
LEMMA WildTyped ==
  ASSUME NEW V, NEW trie, IsTrie(trie, V), NEW pattern \in Seq(Segment),
         NEW order \in Seq(Literal), NEW find, find = Wild(trie, pattern, order, find)
  PROVE  find \in [Path -> Seq(V)]
<1> DEFINE L == Len(pattern)
           M(n) == IF Len(n) >= L THEN 0 ELSE L - Len(n)
           T == {k \in Nat : \E n \in Path : find[n] \notin Seq(V) /\ k = M(n)}
<1>1. L \in Nat /\ \A n \in Path : Len(n) \in Nat BY DEF Path
<1>2. \A n \in Path : M(n) \in Nat BY <1>1
<1>3. {Star, Multi, Template} \cup Literal \cup Segment \subseteq Key BY DEF Key, Segment
<1>4. ASSUME NEW n \in Path, Len(n) >= L PROVE find[n] \in Seq(V)
  <2>1. Wild(trie, pattern, order, find)[n] = At(trie, n) BY <1>4 DEF Wild
  <2>2. At(trie, n) \in Seq(V) BY DEF At, IsTrie
  <2> QED BY <2>1, <2>2
<1>5. T = {}
  <2>1. SUFFICES ASSUME T # {} PROVE FALSE OBVIOUS
  <2>2. PICK k \in T : \A j \in T : k <= j
    <3>1. T \subseteq Nat OBVIOUS
    <3> HIDE DEF T
    <3> QED BY <2>1, <3>1, LeastNumber
  <2>3. PICK n \in Path : find[n] \notin Seq(V) /\ k = M(n) BY <2>2
  <2>4. ~(Len(n) >= L) /\ k = L - Len(n) BY <1>4, <2>3
  <2>5. ASSUME NEW x \in Path, Len(x) = Len(n) + 1 PROVE find[x] \in Seq(V)
    <3> SUFFICES ASSUME find[x] \notin Seq(V) PROVE FALSE OBVIOUS
    <3>1. ~(Len(x) >= L) BY <1>4
    <3>2. M(x) \in T /\ M(x) = L - Len(x) BY <1>2, <3>1
    <3>3. k <= L - Len(x) BY <2>2, <3>2
    <3> HIDE DEF T, L
    <3> QED BY <1>1, <2>4, <2>5, <3>3
  <2>6. \A key \in Key : find[Append(n, key)] \in Seq(V) BY <2>5, AppendParts
  <2> DEFINE g == [x \in Path |-> IF find[x] \in Seq(V) THEN find[x] ELSE <<>>]
  <2>7. g \in [Path -> Seq(V)] OBVIOUS
  <2>8. \A key \in Key : g[Append(n, key)] = find[Append(n, key)] BY <2>6, AppendParts
  <2> HIDE DEF g
  <2>9. Wild(trie, pattern, order, g)[n] = Wild(trie, pattern, order, find)[n]
    <3>1. [l \in Literal |-> g[Append(n, l)]] = [l \in Literal |-> find[Append(n, l)]]
      BY <1>3, <2>8
    <3>2. pattern[Len(n) + 1] \in Key
      <4>1. Len(n) + 1 \in 1..Len(pattern) BY <1>1, <2>4
      <4> QED BY <1>3, <4>1
    <3>3. /\ g[Append(n, Star)] = find[Append(n, Star)]
          /\ g[Append(n, Template)] = find[Append(n, Template)]
          /\ g[Append(n, pattern[Len(n) + 1])] = find[Append(n, pattern[Len(n) + 1])]
      BY <1>3, <2>8, <3>2
    <3> QED BY <2>4, <3>1, <3>3 DEF Wild
  <2>10. Wild(trie, pattern, order, g)[n] \in Seq(V) BY <2>7, WildStep
  <2> QED BY <2>3, <2>9, <2>10
<1>6. ASSUME NEW n \in Path PROVE find[n] \in Seq(V)
  BY <1>2, <1>5
<1>7. find = [n \in Path |-> Wild(trie, pattern, order, find)[n]]
  <2>1. Wild(trie, pattern, order, find) = [n \in Path |-> Wild(trie, pattern, order, find)[n]]
    BY DEF Wild
  <2> QED BY <2>1
<1> HIDE DEF T
<1>8. DOMAIN find = Path BY <1>7
<1> QED BY <1>6, <1>7, <1>8

MultiLast(path) == \A i \in DOMAIN path : path[i] = Multi => i = Len(path)

LEMMA WildcardParts ==
  ASSUME NEW V, NEW trie, IsTrie(trie, V), NEW pattern \in Seq(Segment),
         NEW order \in Seq(Literal)
  PROVE  /\ FindWildcard(trie, pattern, order) \in Seq(V)
         /\ Unmixed(pattern) /\ MultiLast(pattern) /\ IsPattern(pattern) =>
              \A v : HasItem(At(trie, pattern), v)
                       => HasItem(FindWildcard(trie, pattern, order), v)
<1> DEFINE find == CHOOSE find : find = Wild(trie, pattern, order, find)
           L == Len(pattern)
           Before(k) == [i \in 1..k |-> pattern[i]]
<1>1. find = Wild(trie, pattern, order, find)
  <2>1. \E f : f = Wild(trie, pattern, order, f) BY WildExists
  <2> QED BY <2>1
<1>2. FindWildcard(trie, pattern, order) = find[<<>>]
  BY DEF FindWildcard, Wild, Path, Key
<1> HIDE DEF find
<1>3. find \in [Path -> Seq(V)] BY <1>1, WildTyped
<1>4. <<>> \in Path BY DEF Path
<1>5. L \in Nat /\ pattern \in Path /\ \A i \in 1..L : pattern[i] \in Key
  BY DEF Path, Key
<1>6. ASSUME NEW k \in 0..L PROVE Before(k) \in Path /\ Len(Before(k)) = k
  BY <1>5 DEF Path
<1>7. ASSUME NEW k \in 0..(L - 1) PROVE Append(Before(k), pattern[k + 1]) = Before(k + 1)
  <2> DEFINE b == Before(k)
             c == Before(k + 1)
             a == Append(b, pattern[k + 1])
  <2>1. k \in 0..L /\ k + 1 \in 0..L /\ k + 1 \in 1..L BY <1>5
  <2>2. b \in Path /\ Len(b) = k /\ c \in Path /\ Len(c) = k + 1 BY <1>6, <2>1
  <2>3. \A i \in 1..k : b[i] = pattern[i] OBVIOUS
  <2>4. \A i \in 1..(k + 1) : c[i] = pattern[i] OBVIOUS
  <2> HIDE DEF b, c
  <2>5. /\ a \in Path /\ Len(a) = k + 1 /\ a[k + 1] = pattern[k + 1]
        /\ \A i \in 1..k : a[i] = b[i]
    BY <1>5, <2>1, <2>2, AppendParts
  <2> HIDE DEF a
  <2>6. \A i \in 1..(k + 1) : a[i] = c[i] BY <2>1, <2>3, <2>4, <2>5
  <2>7. a = c BY <2>2, <2>5, <2>6, SeqEqual DEF Path
  <2> QED BY <2>7 DEF a, b, c
<1>8. ASSUME Unmixed(pattern), MultiLast(pattern), IsPattern(pattern), NEW v, HasItem(At(trie, pattern), v)
      PROVE  HasItem(find[<<>>], v)
  <2>1. Before(L) = pattern
    <3>1. Before(L) \in Path /\ Len(Before(L)) = L /\ \A i \in 1..L : Before(L)[i] = pattern[i]
      BY <1>5, <1>6
    <3> HIDE DEF Before
    <3> QED BY <1>5, <3>1, SeqEqual DEF Path
  <2>2. \A k \in 1..L : k # L => pattern[k] # Multi BY <1>5, <1>8 DEF MultiLast
  <2>3. Before(0) = <<>> OBVIOUS
  <2>4. \A k \in 0..(L - 1) : k \in 0..L /\ k + 1 \in 0..L /\ k + 1 \in 1..L BY <1>5
  <2> HIDE DEF Before
  <2>5. ASSUME NEW k \in 0..(L - 1), pattern[k + 1] = Multi PROVE HasItem(find[Before(k)], v)
    <3>1. k + 1 = L BY <1>5, <2>2, <2>4, <2>5
    <3>2. Append(Before(k), Multi) = pattern BY <1>7, <2>1, <2>5, <3>1
    <3>3. Child(trie, Before(k), Multi) = At(trie, pattern) BY <3>2 DEF Child
    <3>4. Before(k) \in Path /\ Len(Before(k)) = k /\ k < L BY <1>5, <1>6, <2>4
    <3>5. HasItem(Wild(trie, pattern, order, find)[Before(k)], v)
      BY <1>3, <1>8, <2>5, <3>3, <3>4, WildStep
    <3> QED BY <1>1, <3>5
  <2>6. ASSUME NEW k \in 0..(L - 1), pattern[k + 1] # Multi, HasItem(find[Before(k + 1)], v)
        PROVE  HasItem(find[Before(k)], v)
    <3>1. Before(k) \in Path /\ Len(Before(k)) = k /\ k < L BY <1>5, <1>6, <2>4
    <3>2. Append(Before(k), pattern[k + 1]) = Before(k + 1) BY <1>7
    <3>3. HasItem(Wild(trie, pattern, order, find)[Before(k)], v)
      BY <1>3, <2>6, <3>1, <3>2, WildStep
    <3> QED BY <1>1, <3>3
  <2>7. HasItem(find[Before(L)], v)
    <3>1. Len(pattern) >= Len(pattern) BY <1>5
    <3>2. Wild(trie, pattern, order, find)[pattern] = At(trie, pattern)
      BY <1>5, <3>1 DEF Wild
    <3>3. find[pattern] = At(trie, pattern) BY <1>1, <3>2
    <3> QED BY <1>8, <2>1, <3>3
  <2> DEFINE Ok(k) == HasItem(find[Before(k)], v)
             T == {j \in 0..L : ~Ok(L - j)}
  <2>8. \A k \in 0..(L - 1) : Ok(k + 1) => Ok(k) BY <2>5, <2>6
  <2>9. Ok(L) BY <2>7
  <2> HIDE DEF Ok
  <2>10. T = {}
    <3>1. SUFFICES ASSUME T # {} PROVE FALSE OBVIOUS
    <3>2. PICK j \in T : \A i \in T : j <= i
      <4>1. T \subseteq Nat OBVIOUS
      <4> HIDE DEF T
      <4> QED BY <3>1, <4>1, LeastNumber
    <3>3. j \in 0..L /\ ~Ok(L - j) BY <3>2
    <3>4. j # 0 BY <1>5, <2>9, <3>3
    <3>5. j - 1 \in 0..L /\ ~(j <= j - 1) BY <1>5, <3>3, <3>4
    <3>6. Ok(L - (j - 1)) BY <3>2, <3>5
    <3>7. L - (j - 1) = (L - j) + 1 /\ L - j \in 0..(L - 1) BY <1>5, <3>3, <3>4
    <3> QED BY <2>8, <3>3, <3>6, <3>7
  <2>11. Ok(0)
    <3>1. L \in 0..L /\ L - L = 0 BY <1>5
    <3> QED BY <2>10, <3>1
  <2> QED BY <2>3, <2>11 DEF Ok
<1> QED BY <1>2, <1>3, <1>4, <1>8

\* The items of a list of places, and of the nodes they are at.
LEMMA ListsItems ==
  ASSUME NEW V, NEW trie, \A n \in DOMAIN trie : trie[n] \in Seq(V),
         NEW nodes, NEW list, Lists(list, trie, nodes), NEW v
  PROVE  HasItem(list, v) <=> \E n \in nodes : HasItem(At(trie, n), v)
<1>1. PICK b \in Bijection(DOMAIN list, Places(trie, nodes)) :
             \A k \in DOMAIN list : list[k] = trie[b[k][1]][b[k][2]]
  BY DEF Lists
<1>2. /\ \A k \in DOMAIN list : b[k] \in Places(trie, nodes)
      /\ \A pl \in Places(trie, nodes) : \E k \in DOMAIN list : b[k] = pl
  BY <1>1 DEF Bijection, Injection, Surjection
<1>3. ASSUME HasItem(list, v) PROVE \E n \in nodes : HasItem(At(trie, n), v)
  <2>1. PICK k \in DOMAIN list : list[k] = v BY <1>3 DEF HasItem
  <2>2. b[k] \in Places(trie, nodes) BY <1>2
  <2>3. b[k][1] \in nodes /\ b[k][1] \in DOMAIN trie /\ b[k][2] \in DOMAIN trie[b[k][1]]
    BY <2>2 DEF Places
  <2>4. trie[b[k][1]][b[k][2]] = v BY <1>1, <2>1
  <2> QED BY <2>3, <2>4 DEF HasItem, At
<1>4. ASSUME NEW n \in nodes, HasItem(At(trie, n), v) PROVE HasItem(list, v)
  <2>1. PICK k \in DOMAIN At(trie, n) : At(trie, n)[k] = v BY <1>4 DEF HasItem
  <2>2. n \in DOMAIN trie /\ At(trie, n) = trie[n] BY <2>1 DEF At
  <2>3. k \in Nat BY <2>1, <2>2
  <2>4. <<n, k>> \in Places(trie, nodes) BY <2>1, <2>2, <2>3 DEF Places
  <2>5. PICK j \in DOMAIN list : b[j] = <<n, k>> BY <1>2, <2>4
  <2>6. list[j] = v BY <1>1, <2>1, <2>2, <2>5
  <2> QED BY <2>6 DEF HasItem
<1> QED BY <1>3, <1>4

LEMMA NodeOfPath ==
  ASSUME NEW path \in Seq(Segment)
  PROVE  NodeOf(path) \in Path /\ Len(NodeOf(path)) = Len(path)
<1>1. \A i \in 1..Len(path) : path[i] \in Segment OBVIOUS
<1>2. NodeOf(path) = [i \in 1..Len(path) |-> IF path[i] \in Param THEN Template ELSE path[i]]
  BY DEF NodeOf
<1>3. \A i \in 1..Len(path) : (IF path[i] \in Param THEN Template ELSE path[i]) \in Key
  BY <1>1 DEF Key
<1> QED BY <1>2, <1>3 DEF Path

LEMMA NotPattern ==
  ASSUME NEW path \in Seq(Segment), ~IsPattern(path)
  PROVE  path \in Seq(Literal \cup Param)
<1>1. \A i \in 1..Len(path) : path[i] \in Literal \cup Param
  BY DEF IsPattern, Segment
<1> QED BY <1>1

LEMMA OwnReached ==
  ASSUME NEW path \in Seq(Literal \cup Param)
  PROVE  NodeOf(path) \in Reach(path, <<>>)
<1>1. path \in Seq(Segment) /\ Len(path) \in Nat BY DEF Segment
<1>2. NodeOf(path) \in Path /\ Len(NodeOf(path)) = Len(path) BY <1>1, NodeOfPath
<1>3. \A i \in 1..Len(path) : NodeOf(path)[i] \in {path[i], Star, Template} BY DEF NodeOf
<1>4. Len(<<>>) = 0 OBVIOUS
<1> QED BY <1>1, <1>2, <1>3, <1>4 DEF Reach

\* find_matches yields a list of what the trie keeps, and of a path without names
\* next to wildcards it finds what is kept under that path.
LEMMA FindMatchesParts ==
  ASSUME NEW V, NEW trie, IsTrie(trie, V), NEW path \in Seq(Segment),
         NEW order \in Seq(Literal)
  PROVE  /\ FindMatches(trie, path, order) \in Seq(V)
         /\ Unmixed(path) /\ MultiLast(path) =>
              \A v : HasItem(At(trie, NodeOf(path)), v) => HasItem(FindMatches(trie, path, order), v)
<1>1. CASE IsPattern(path)
  <2>1. Unmixed(path) => NodeOf(path) = path
    <3> SUFFICES ASSUME Unmixed(path) PROVE NodeOf(path) = path OBVIOUS
    <3>1. NodeOf(path) = [i \in 1..Len(path) |-> path[i]] BY <1>1 DEF Unmixed, NodeOf
    <3> QED BY <3>1
  <2> QED BY <1>1, <2>1, WildcardParts DEF FindMatches
<1>2. CASE ~IsPattern(path)
  <2>1. path \in Seq(Literal \cup Param) BY <1>2, NotPattern
  <2>2. \A n \in DOMAIN trie : trie[n] \in Seq(V) BY DEF IsTrie
  <2>3. /\ FindExact(trie, path) \in Seq(V)
        /\ Lists(FindExact(trie, path), trie, Reach(path, <<>>))
    BY <2>1, <2>2, ExactLists
  <2>4. \A v : HasItem(At(trie, NodeOf(path)), v) => HasItem(FindExact(trie, path), v)
    BY <2>1, <2>2, <2>3, OwnReached, ListsItems
  <2> QED BY <1>2, <2>3, <2>4 DEF FindMatches
<1> QED BY <1>1, <1>2

\* A node is at or below another one.
Below(node, n) ==
  n \in Path /\ Len(node) <= Len(n) /\ \A i \in 1..Len(node) : n[i] = node[i]

LEMMA BelowSelf ==
  ASSUME NEW node \in Path
  PROVE  Below(node, node)
BY DEF Below, Path

LEMMA BelowChild ==
  ASSUME NEW node \in Path, NEW key \in Key, NEW n, Below(Append(node, key), n)
  PROVE  Below(node, n) /\ Len(node) < Len(n) /\ n[Len(node) + 1] = key
<1> DEFINE c == Append(node, key)
<1>1. /\ c \in Path /\ Len(c) = Len(node) + 1 /\ c[Len(node) + 1] = key
      /\ \A i \in 1..Len(node) : c[i] = node[i]
  BY AppendParts
<1>2. Len(node) \in Nat /\ Below(c, n) BY DEF Path
<1>3. n \in Path /\ Len(n) \in Nat BY <1>2 DEF Below, Path
<1> HIDE DEF c
<1> QED BY <1>1, <1>2, <1>3 DEF Below

LEMMA CollectedItems ==
  ASSUME NEW V, NEW trie, \A n \in DOMAIN trie : trie[n] \in Seq(V),
         NEW order \in Seq(Literal), NEW all \in [Path -> Seq(V)], NEW node \in Path,
         NEW v, HasItem(Collected(trie, order, all)[node], v)
  PROVE  \/ HasItem(At(trie, node), v)
         \/ HasItem(Child(trie, node, Multi), v)
         \/ /\ ~(Len(node) >= Depth(trie))
            /\ \E key \in Key : HasItem(all[Append(node, key)], v)
<1> DEFINE a == At(trie, node)
           b == Child(trie, node, Multi)
           g == [l \in Literal |-> all[Append(node, l)]]
           c == Concat(g, order)
           d == all[Append(node, Star)]
           e == all[Append(node, Template)]
           list == Collected(trie, order, all)[node]
<1>1. {Star, Multi, Template} \cup Literal \subseteq Key BY DEF Key, Segment
<1>2. \A key \in Key : Append(node, key) \in Path BY AppendParts
<1>3. a \in Seq(V) /\ b \in Seq(V) BY DEF At, Child
<1>4. d \in Seq(V) /\ e \in Seq(V) BY <1>1, <1>2
<1>5. \A l \in Literal : g[l] \in Seq(V) BY <1>1, <1>2
<1>6. c \in Seq(V) /\ (HasItem(c, v) => \E i \in DOMAIN order : HasItem(g[order[i]], v))
  <2> HIDE DEF g
  <2> QED BY <1>5, ConcatParts
<1>7. HasItem(c, v) => \E key \in Key : HasItem(all[Append(node, key)], v)
  <2> SUFFICES ASSUME HasItem(c, v) PROVE \E key \in Key : HasItem(all[Append(node, key)], v)
    OBVIOUS
  <2>1. PICK i \in DOMAIN order : HasItem(g[order[i]], v) BY <1>6
  <2>2. order[i] \in Literal OBVIOUS
  <2>3. HasItem(all[Append(node, order[i])], v) BY <2>1, <2>2
  <2> HIDE DEF c, g
  <2> QED BY <1>1, <2>2, <2>3
<1>8. CASE Len(node) >= Depth(trie)
  <2>1. list = a BY <1>8 DEF Collected
  <2> QED BY <2>1
<1>9. CASE ~(Len(node) >= Depth(trie))
  <2>1. list = (((a \o b) \o c) \o d) \o e BY <1>9 DEF Collected
  <2>2. HasItem(list, v) OBVIOUS
  <2>3. /\ HasItem(d, v) => \E key \in Key : HasItem(all[Append(node, key)], v)
        /\ HasItem(e, v) => \E key \in Key : HasItem(all[Append(node, key)], v)
    BY <1>1
  <2> HIDE DEF a, b, c, d, e, list
  <2>4. a \o b \in Seq(V) /\ (HasItem(a \o b, v) => HasItem(a, v) \/ HasItem(b, v))
    BY <1>3, HasItemBoth, ConcatProperties
  <2> DEFINE ab == a \o b
  <2>5. ab \o c \in Seq(V) /\ (HasItem(ab \o c, v) => HasItem(ab, v) \/ HasItem(c, v))
    <3>1. ab \in Seq(V) BY <2>4
    <3> HIDE DEF ab
    <3> QED BY <1>6, <3>1, HasItemBoth, ConcatProperties
  <2> DEFINE abc == ab \o c
  <2>6. abc \o d \in Seq(V) /\ (HasItem(abc \o d, v) => HasItem(abc, v) \/ HasItem(d, v))
    <3>1. abc \in Seq(V) BY <2>5
    <3> HIDE DEF abc
    <3> QED BY <1>4, <3>1, HasItemBoth, ConcatProperties
  <2> DEFINE abcd == abc \o d
  <2>7. HasItem(abcd \o e, v) => HasItem(abcd, v) \/ HasItem(e, v)
    <3>1. abcd \in Seq(V) BY <2>6
    <3> HIDE DEF abcd
    <3> QED BY <1>4, <3>1, HasItemBoth
  <2>8. HasItem(a, v) \/ HasItem(b, v) \/ HasItem(c, v) \/ HasItem(d, v) \/ HasItem(e, v)
    BY <2>1, <2>2, <2>4, <2>5, <2>6, <2>7
  <2> QED BY <1>7, <1>9, <2>3, <2>8 DEF a, b
<1> QED BY <1>8, <1>9

\* It collects nothing but what is kept at the node and below.
LEMMA CollectAllBelow ==
  ASSUME NEW V, NEW trie, IsTrie(trie, V), NEW order \in Seq(Literal), NEW node \in Path,
         NEW v, HasItem(CollectAll(trie, node, order), v)
  PROVE  \E n : Below(node, n) /\ HasItem(At(trie, n), v)
<1> DEFINE all == CHOOSE all : all = Collected(trie, order, all)
           D == Depth(trie)
<1>0. /\ DOMAIN trie \subseteq Path /\ IsFiniteSet(DOMAIN trie)
      /\ \A n \in DOMAIN trie : trie[n] \in Seq(V)
  BY DEF IsTrie
<1>1. D \in Nat BY <1>0, DepthBound
<1>2. PICK f \in [Path -> Seq(V)] : f = Collected(trie, order, f)
  BY <1>0, <1>1, CollectedExists
<1>3. all = Collected(trie, order, all) BY <1>2
<1>4. CollectAll(trie, node, order) = all[node]
  BY DEF CollectAll, Collected, Path, Key
<1> HIDE DEF all, D
<1>5. all \in [Path -> Seq(V)] BY <1>0, <1>1, <1>3, CollectedTyped DEF D
<1>6. \A n \in Path : Len(n) \in Nat BY DEF Path
<1> DEFINE Sound(n) ==
             HasItem(all[n], v) => \E m : Below(n, m) /\ HasItem(At(trie, m), v)
           M(n) == IF Len(n) >= D THEN 0 ELSE D - Len(n)
           T == {k \in Nat : \E n \in Path : ~Sound(n) /\ k = M(n)}
<1>7. ASSUME NEW n \in Path,
             ~(Len(n) >= D) => \A key \in Key : Sound(Append(n, key))
      PROVE  Sound(n)
  <2> SUFFICES ASSUME HasItem(all[n], v)
               PROVE  \E m : Below(n, m) /\ HasItem(At(trie, m), v)
    OBVIOUS
  <2>1. HasItem(Collected(trie, order, all)[n], v) BY <1>3
  <2>2. \/ HasItem(At(trie, n), v)
        \/ HasItem(Child(trie, n, Multi), v)
        \/ ~(Len(n) >= D) /\ \E key \in Key : HasItem(all[Append(n, key)], v)
    BY <1>0, <1>5, <2>1, CollectedItems DEF D
  <2>3. CASE HasItem(At(trie, n), v) BY <2>3, BelowSelf
  <2>4. CASE HasItem(Child(trie, n, Multi), v)
    <3>1. Multi \in Key BY DEF Key, Segment
    <3>2. Append(n, Multi) \in Path BY <3>1, AppendParts
    <3>3. Below(n, Append(n, Multi)) BY <3>1, <3>2, BelowSelf, BelowChild
    <3> QED BY <2>4, <3>3 DEF Child
  <2>5. ASSUME ~(Len(n) >= D), NEW key \in Key, HasItem(all[Append(n, key)], v)
        PROVE  \E m : Below(n, m) /\ HasItem(At(trie, m), v)
    <3>1. Sound(Append(n, key)) BY <1>7, <2>5
    <3>2. PICK m : Below(Append(n, key), m) /\ HasItem(At(trie, m), v) BY <2>5, <3>1
    <3> QED BY <3>2, BelowChild
  <2> QED BY <2>2, <2>3, <2>4, <2>5
<1> HIDE DEF Sound
<1>8. T = {}
  <2>1. SUFFICES ASSUME T # {} PROVE FALSE OBVIOUS
  <2>2. PICK k \in T : \A j \in T : k <= j
    <3>1. T \subseteq Nat OBVIOUS
    <3> HIDE DEF T
    <3> QED BY <2>1, <3>1, LeastNumber
  <2>3. PICK n \in Path : ~Sound(n) /\ k = M(n) BY <2>2
  <2>4. ~(Len(n) >= D) /\ \E key \in Key : ~Sound(Append(n, key)) BY <1>7, <2>3
  <2>5. PICK key \in Key : ~Sound(Append(n, key)) BY <2>4
  <2> DEFINE c == Append(n, key)
  <2>6. c \in Path /\ Len(c) = Len(n) + 1 /\ ~Sound(c) BY <2>5, AppendParts
  <2> HIDE DEF c
  <2>7. M(c) \in Nat /\ M(c) < M(n) BY <1>1, <1>6, <2>4, <2>6
  <2>8. M(c) \in T BY <2>6, <2>7
  <2>9. k <= M(c) BY <2>2, <2>8
  <2> QED BY <1>1, <1>6, <2>3, <2>4, <2>6, <2>7, <2>9
<1>9. M(node) \in Nat BY <1>1, <1>6
<1>10. Sound(node) BY <1>8, <1>9
<1> QED BY <1>4, <1>10 DEF Sound

\* Where the search for a pattern comes to.
Under(pattern, node, n) ==
  LET fits(i) == pattern[i] = n[i] \/ (pattern[i] = Star /\ n[i] # Multi)
      L == Len(pattern)
  IN  /\ Below(node, n)
      /\ IF pattern[L] = Multi THEN Len(n) >= L - 1 ELSE Len(n) = L
      /\ \A i \in (Len(node) + 1)..(IF pattern[L] = Multi THEN L - 1 ELSE L) : fits(i)

\* An item found at a node is found at a child that the pattern leads to.
WildFinds(trie, pattern, order, find, node, v) ==
  LET segment == pattern[Len(node) + 1]
  IN  \/ segment = Multi /\ HasItem(CollectAll(trie, node, order), v)
      \/ /\ segment # Multi
         /\ \E key \in Key :
              /\ segment = key \/ (segment = Star /\ key # Multi)
              /\ HasItem(find[Append(node, key)], v)

LEMMA WildItems ==
  ASSUME NEW V, NEW trie, IsTrie(trie, V), NEW pattern \in Seq(Segment),
         NEW order \in Seq(Literal), NEW find \in [Path -> Seq(V)], NEW node \in Path,
         Len(node) < Len(pattern),
         NEW v, HasItem(Wild(trie, pattern, order, find)[node], v)
  PROVE  WildFinds(trie, pattern, order, find, node, v)
<1> DEFINE segment == pattern[Len(node) + 1]
           list == Wild(trie, pattern, order, find)[node]
<1>1. {Star, Multi, Template} \cup Literal \cup Segment \subseteq Key BY DEF Key, Segment
<1>2. \A key \in Key : Append(node, key) \in Path BY AppendParts
<1>3. Len(node) \in Nat /\ Len(pattern) \in Nat BY DEF Path
<1>4. segment \in Segment /\ ~(Len(node) >= Len(pattern)) BY <1>3
<1>5. CASE segment = Multi
  <2>1. list = CollectAll(trie, node, order) BY <1>4, <1>5 DEF Wild
  <2> QED BY <1>5, <2>1 DEF WildFinds
<1>6. CASE segment = Star
  <2> DEFINE g == [l \in Literal |-> find[Append(node, l)]]
             a == Concat(g, order)
             b == find[Append(node, Star)]
             c == find[Append(node, Template)]
             Found == \E key \in Key : key # Multi /\ HasItem(find[Append(node, key)], v)
  <2>1. list = (a \o b) \o c /\ segment # Multi BY <1>4, <1>6, SegmentAssumption DEF Wild
  <2>2. \A l \in Literal : g[l] \in Seq(V) BY <1>1, <1>2
  <2>3. a \in Seq(V) /\ (HasItem(a, v) => \E i \in DOMAIN order : HasItem(g[order[i]], v))
    <3> HIDE DEF g
    <3> QED BY <2>2, ConcatParts
  <2>4. b \in Seq(V) /\ c \in Seq(V) BY <1>1, <1>2
  <2>5. ASSUME HasItem(a, v) PROVE Found
    <3>1. PICK i \in DOMAIN order : HasItem(g[order[i]], v) BY <2>3, <2>5
    <3>2. order[i] \in Literal OBVIOUS
    <3>3. HasItem(find[Append(node, order[i])], v) BY <3>1, <3>2
    <3>4. order[i] \in Key /\ order[i] # Multi BY <1>1, <3>2, SegmentAssumption
    <3> QED BY <3>3, <3>4
  <2>6. HasItem(b, v) => Found BY <1>1, SegmentAssumption
  <2>7. HasItem(c, v) => Found BY <1>1, SegmentAssumption
  <2>8. HasItem(list, v) OBVIOUS
  <2> HIDE DEF a, b, c, list
  <2>9. a \o b \in Seq(V) /\ (HasItem(a \o b, v) => HasItem(a, v) \/ HasItem(b, v))
    BY <2>3, <2>4, HasItemBoth, ConcatProperties
  <2> DEFINE ab == a \o b
  <2>10. HasItem(ab \o c, v) => HasItem(ab, v) \/ HasItem(c, v)
    <3>1. ab \in Seq(V) BY <2>9
    <3> HIDE DEF ab
    <3> QED BY <2>4, <3>1, HasItemBoth
  <2>11. Found BY <2>1, <2>5, <2>6, <2>7, <2>8, <2>9, <2>10
  <2> QED BY <1>6, <2>1, <2>11 DEF WildFinds
<1>7. CASE segment # Multi /\ segment # Star
  <2>1. list = find[Append(node, segment)] BY <1>4, <1>7 DEF Wild
  <2>2. segment \in Key BY <1>1, <1>4
  <2>3. HasItem(list, v) OBVIOUS
  <2> HIDE DEF list, segment
  <2> QED BY <1>7, <2>1, <2>2, <2>3 DEF segment, WildFinds
<1> QED BY <1>5, <1>6, <1>7

\* It finds nothing but what is kept at the nodes it comes to.
LEMMA WildcardUnder ==
  ASSUME NEW V, NEW trie, IsTrie(trie, V), NEW pattern \in Seq(Segment), MultiLast(pattern),
         NEW order \in Seq(Literal), NEW v, HasItem(FindWildcard(trie, pattern, order), v)
  PROVE  \E n : Under(pattern, <<>>, n) /\ HasItem(At(trie, n), v)
<1> DEFINE find == CHOOSE find : find = Wild(trie, pattern, order, find)
           L == Len(pattern)
<1>1. find = Wild(trie, pattern, order, find)
  <2>1. \E f : f = Wild(trie, pattern, order, f) BY WildExists
  <2> QED BY <2>1
<1>2. FindWildcard(trie, pattern, order) = find[<<>>]
  BY DEF FindWildcard, Wild, Path, Key
<1> HIDE DEF find
<1>3. find \in [Path -> Seq(V)] BY <1>1, WildTyped
<1>4. L \in Nat /\ DOMAIN pattern = 1..L /\ \A n \in Path : Len(n) \in Nat BY DEF Path
<1> HIDE DEF L
<1> DEFINE Sound(n) ==
             HasItem(find[n], v) => \E m : Under(pattern, n, m) /\ HasItem(At(trie, m), v)
           T == {k \in 0..L : \E n \in Path : Len(n) = L - k /\ ~Sound(n)}
<1>5. ASSUME NEW n \in Path, Len(n) = L PROVE Sound(n)
  <2> SUFFICES ASSUME HasItem(find[n], v)
               PROVE  \E m : Under(pattern, n, m) /\ HasItem(At(trie, m), v)
    OBVIOUS
  <2>1. Len(n) >= Len(pattern) BY <1>4, <1>5 DEF L
  <2>2. Wild(trie, pattern, order, find)[n] = At(trie, n) BY <2>1 DEF Wild
  <2>3. HasItem(At(trie, n), v) BY <1>1, <2>2
  <2>4. Under(pattern, n, n) BY <1>4, <1>5, BelowSelf DEF Under, L
  <2> QED BY <2>3, <2>4
<1>6. ASSUME NEW n \in Path, Len(n) < L, \A key \in Key : Sound(Append(n, key))
      PROVE  Sound(n)
  <2> SUFFICES ASSUME HasItem(find[n], v)
               PROVE  \E m : Under(pattern, n, m) /\ HasItem(At(trie, m), v)
    OBVIOUS
  <2> DEFINE next == Len(n) + 1
  <2>0. next \in 1..L /\ Len(n) \in Nat BY <1>4, <1>6
  <2>1. HasItem(Wild(trie, pattern, order, find)[n], v) BY <1>1
  <2>2. \/ pattern[next] = Multi /\ HasItem(CollectAll(trie, n, order), v)
        \/ /\ pattern[next] # Multi
           /\ \E key \in Key :
                /\ pattern[next] = key \/ (pattern[next] = Star /\ key # Multi)
                /\ HasItem(find[Append(n, key)], v)
    <3>1. Len(n) < Len(pattern) BY <1>6 DEF L
    <3>2. WildFinds(trie, pattern, order, find, n, v) BY <1>3, <2>1, <3>1, WildItems
    <3> QED BY <3>2 DEF WildFinds
  <2>3. CASE pattern[next] = Multi /\ HasItem(CollectAll(trie, n, order), v)
    <3>1. next = L /\ pattern[L] = Multi BY <1>4, <2>0, <2>3 DEF MultiLast, L
    <3>2. PICK m : Below(n, m) /\ HasItem(At(trie, m), v) BY <2>3, CollectAllBelow
    <3>3. Len(m) >= L - 1 BY <1>4, <2>0, <3>1, <3>2 DEF Below
    <3>4. next..(L - 1) = {} BY <1>4, <3>1
    <3>5. Under(pattern, n, m) BY <3>1, <3>2, <3>3, <3>4 DEF Under, L
    <3> QED BY <3>2, <3>5
  <2>4. ASSUME pattern[next] # Multi, NEW key \in Key,
               pattern[next] = key \/ (pattern[next] = Star /\ key # Multi),
               HasItem(find[Append(n, key)], v)
        PROVE  \E m : Under(pattern, n, m) /\ HasItem(At(trie, m), v)
    <3> DEFINE c == Append(n, key)
    <3>1. PICK m : Under(pattern, c, m) /\ HasItem(At(trie, m), v) BY <1>6, <2>4
    <3>2. Below(c, m) BY <3>1 DEF Under
    <3>3. Below(n, m) /\ m[next] = key BY <3>2, BelowChild
    <3>4. Len(c) = next BY AppendParts
    <3> HIDE DEF c
    <3> DEFINE last == IF pattern[L] = Multi THEN L - 1 ELSE L
    <3>5. /\ IF pattern[L] = Multi THEN Len(m) >= L - 1 ELSE Len(m) = L
          /\ \A i \in (next + 1)..last :
               pattern[i] = m[i] \/ (pattern[i] = Star /\ m[i] # Multi)
      BY <3>1, <3>4 DEF Under, L
    <3>6. last \in Int /\ \A i \in next..last : i = next \/ i \in (next + 1)..last BY <1>4, <2>0
    <3> HIDE DEF last
    <3>7. \A i \in next..last : pattern[i] = m[i] \/ (pattern[i] = Star /\ m[i] # Multi)
      BY <2>4, <3>3, <3>5, <3>6
    <3>8. Under(pattern, n, m) BY <3>3, <3>5, <3>7 DEF Under, last, L
    <3> QED BY <3>1, <3>8
  <2> QED BY <2>2, <2>3, <2>4
<1> HIDE DEF Sound
<1>7. T = {}
  <2>1. SUFFICES ASSUME T # {} PROVE FALSE OBVIOUS
  <2>2. PICK k \in T : \A j \in T : k <= j
    <3>1. T \subseteq Nat BY <1>4
    <3> HIDE DEF T
    <3> QED BY <2>1, <3>1, LeastNumber
  <2>3. PICK n \in Path : Len(n) = L - k /\ ~Sound(n) BY <2>2
  <2>4. k \in 0..L /\ k # 0 BY <1>4, <1>5, <2>2, <2>3
  <2>5. Len(n) < L BY <1>4, <2>3, <2>4
  <2>6. PICK key \in Key : ~Sound(Append(n, key)) BY <1>6, <2>3, <2>5
  <2> DEFINE c == Append(n, key)
  <2>7. c \in Path /\ Len(c) = Len(n) + 1 /\ ~Sound(c) BY <2>6, AppendParts
  <2> HIDE DEF c
  <2>8. k - 1 \in 0..L /\ Len(c) = L - (k - 1) BY <1>4, <2>3, <2>4, <2>7
  <2>9. k - 1 \in T BY <2>7, <2>8
  <2>10. k <= k - 1 BY <2>2, <2>9
  <2> QED BY <1>4, <2>4, <2>10
<1>8. <<>> \in Path /\ Len(<<>>) = L - L /\ L \in 0..L BY <1>4 DEF Path
<1>9. Sound(<<>>) BY <1>7, <1>8
<1> QED BY <1>2, <1>9 DEF Sound

\* find_matches finds nothing but what is kept where the path leads.
LEMMA FindMatchesUnder ==
  ASSUME NEW V, NEW trie, IsTrie(trie, V), NEW path \in Seq(Segment), MultiLast(path),
         NEW order \in Seq(Literal), NEW v, HasItem(FindMatches(trie, path, order), v)
  PROVE  \E n \in DOMAIN trie :
           /\ HasItem(trie[n], v)
           /\ IsPattern(path) => Under(path, <<>>, n)
           /\ ~IsPattern(path) => n \in Reach(path, <<>>)
<1>1. \A n : HasItem(At(trie, n), v) => n \in DOMAIN trie /\ HasItem(trie[n], v)
  BY DEF At, HasItem
<1>2. CASE IsPattern(path)
  <2>1. PICK n : Under(path, <<>>, n) /\ HasItem(At(trie, n), v)
    BY <1>2, WildcardUnder DEF FindMatches
  <2> QED BY <1>1, <1>2, <2>1
<1>3. CASE ~IsPattern(path)
  <2>1. path \in Seq(Literal \cup Param) BY <1>3, NotPattern
  <2>2. \A n \in DOMAIN trie : trie[n] \in Seq(V) BY DEF IsTrie
  <2>3. Lists(FindExact(trie, path), trie, Reach(path, <<>>)) BY <2>1, <2>2, ExactLists
  <2>4. PICK n \in Reach(path, <<>>) : HasItem(At(trie, n), v)
    BY <1>3, <2>2, <2>3, ListsItems DEF FindMatches
  <2> QED BY <1>1, <1>3, <2>4
<1> QED BY <1>2, <1>3

=============================================================================
