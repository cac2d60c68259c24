------------------------- MODULE SubscriptionsProofs -------------------------
(***************************************************************************)
(* Proofs about Subscriptions, for any patterns, topics, ids and           *)
(* publishers.                                                             *)
(***************************************************************************)
EXTENDS Subscriptions, PathTrieProofs

-----------------------------------------------------------------------------
(***************************************************************************)
(* The trie of subscriptions.                                              *)
(***************************************************************************)

IdLists == [Node -> Seq(Seq(Id))]

LEMMA PatternParts ==
  ASSUME NEW p \in Pattern
  PROVE  /\ p \in Seq(Segment) /\ NodeOf(p) \in Node /\ p[1] \in Service
         /\ MultiLast(p) /\ NodeOf(p) \in Path
<1>1. p \in Seq(Segment) /\ MultiLast(p) BY ConstantsAssumption DEF MultiLast
<1> QED BY <1>1, NodeOfPath DEF Node, Service

LEMMA NodesFinite == IsFiniteSet(Node) /\ Node \subseteq Path
<1> DEFINE f == [p \in Pattern |-> NodeOf(p)]
<1>1. f \in Surjection(Pattern, Node) BY DEF Surjection, Node
<1>2. IsFiniteSet(Node) BY <1>1, ConstantsAssumption, FS_Surjection
<1> QED BY <1>2, PatternParts DEF Node

LEMMA IdListsTrie ==
  ASSUME NEW trie \in IdLists
  PROVE  IsTrie(trie, Seq(Id))
BY NodesFinite DEF IdLists, IsTrie

\* What a search that starts at a pattern's path finds.
LEMMA PatternSearch ==
  ASSUME NEW trie \in IdLists, NEW p \in Pattern, NEW literals \in Orders
  PROVE  /\ FindMatches(trie, p, literals) \in Seq(Seq(Id))
         /\ Unmixed(p) => \A v : HasItem(trie[NodeOf(p)], v)
                                   => HasItem(FindMatches(trie, p, literals), v)
         /\ Unmixed(p) /\ trie[NodeOf(p)] # <<>> => FindMatches(trie, p, literals) # <<>>
<1>1. IsTrie(trie, Seq(Id)) BY IdListsTrie
<1>2. p \in Seq(Segment) /\ MultiLast(p) /\ NodeOf(p) \in Node BY PatternParts
<1>3. literals \in Seq(Literal) BY ConstantsAssumption
<1>4. At(trie, NodeOf(p)) = trie[NodeOf(p)] /\ trie[NodeOf(p)] \in Seq(Seq(Id))
  BY <1>2 DEF At, IdLists
<1> DEFINE found == FindMatches(trie, p, literals)
<1>5. /\ found \in Seq(Seq(Id))
      /\ Unmixed(p) => \A v : HasItem(trie[NodeOf(p)], v) => HasItem(found, v)
  <2>1. /\ found \in Seq(Seq(Id))
        /\ Unmixed(p) /\ MultiLast(p) =>
             \A v : HasItem(At(trie, NodeOf(p)), v) => HasItem(found, v)
    BY <1>1, <1>2, <1>3, FindMatchesParts
  <2> QED BY <1>2, <1>4, <2>1
<1> HIDE DEF found
<1>6. ASSUME Unmixed(p), trie[NodeOf(p)] # <<>> PROVE found # <<>>
  <2>1. 1 \in DOMAIN trie[NodeOf(p)] BY <1>4, <1>6
  <2>2. HasItem(trie[NodeOf(p)], trie[NodeOf(p)][1]) BY <2>1 DEF HasItem
  <2>3. HasItem(found, trie[NodeOf(p)][1]) BY <1>5, <1>6, <2>2
  <2> QED BY <2>3 DEF HasItem
<1> QED BY <1>5, <1>6 DEF found

Single(trie) == \A n \in Node : Len(trie[n]) <= 1

LEMMA ReplaceParts ==
  ASSUME NEW trie \in IdLists, NEW p \in Pattern, NEW list \in Seq(Id)
  PROVE  /\ Replace(trie, p, list) \in IdLists
         /\ Single(trie) => Single(Replace(trie, p, list))
<1>1. NodeOf(p) \in Node BY PatternParts
<1>2. Replace(trie, p, list) = [trie EXCEPT ![NodeOf(p)] = Append(<<>>, list)]
  BY <1>1 DEF Replace, SetValue, RemoveHandlers, IdLists
<1>3. Append(<<>>, list) \in Seq(Seq(Id)) /\ Len(Append(<<>>, list)) <= 1 OBVIOUS
<1> QED BY <1>1, <1>2, <1>3 DEF IdLists, Single

LEMMA RemoveHandlersParts ==
  ASSUME NEW trie \in IdLists, NEW p \in Pattern
  PROVE  /\ RemoveHandlers(trie, p) \in IdLists
         /\ Single(trie) => Single(RemoveHandlers(trie, p))
<1>1. NodeOf(p) \in Node BY PatternParts
<1>2. <<>> \in Seq(Seq(Id)) /\ Len(<<>>) <= 1 OBVIOUS
<1> QED BY <1>1, <1>2 DEF RemoveHandlers, IdLists, Single

LEMMA RegisterParts ==
  ASSUME NEW trie \in IdLists, NEW p \in Pattern, NEW i \in Id, NEW literals \in Orders
  PROVE  /\ Register(trie, p, i, literals) \in IdLists
         /\ Unmixed(p) /\ Single(trie) => Single(Register(trie, p, i, literals))
<1> DEFINE matches == FindMatches(trie, p, literals)
<1>1. /\ matches \in Seq(Seq(Id)) /\ NodeOf(p) \in Node
      /\ Unmixed(p) /\ trie[NodeOf(p)] # <<>> => matches # <<>>
  BY PatternSearch, PatternParts
<1>2. CASE matches = <<>>
  <2>1. Register(trie, p, i, literals) = [trie EXCEPT ![NodeOf(p)] = Append(@, <<i>>)]
    BY <1>2 DEF Register, SetValue
  <2>2. trie[NodeOf(p)] \in Seq(Seq(Id)) /\ <<i>> \in Seq(Id) BY <1>1 DEF IdLists
  <2>3. /\ Append(trie[NodeOf(p)], <<i>>) \in Seq(Seq(Id))
        /\ Unmixed(p) => Len(Append(trie[NodeOf(p)], <<i>>)) <= 1
    BY <1>1, <1>2, <2>2
  <2> QED BY <1>1, <2>1, <2>3 DEF IdLists, Single
<1>3. CASE matches # <<>>
  <2>1. Register(trie, p, i, literals) = Replace(trie, p, Append(matches[1], i))
    BY <1>3 DEF Register
  <2>2. matches[1] \in Seq(Id) BY <1>1, <1>3
  <2>3. Append(matches[1], i) \in Seq(Id) BY <2>2
  <2> QED BY <2>1, <2>3, ReplaceParts
<1> QED BY <1>2, <1>3

\* What an event finds.
LEMMA FlattenParts ==
  ASSUME NEW V, NEW lists \in Seq(Seq(V))
  PROVE  Flatten(lists) \in Seq(V)
<1>1. Len(lists) \in Nat /\ \A i \in 1..Len(lists) : lists[i] \in Seq(V) OBVIOUS
<1> QED BY <1>1, JoinedParts DEF Flatten

LEMMA TopicSearch ==
  ASSUME NEW trie \in IdLists, NEW t \in Topic
  PROVE  /\ FindExact(trie, t) \in Seq(Seq(Id))
         /\ Lists(FindExact(trie, t), trie, Reach(t, <<>>))
<1>1. t \in Seq(Literal) BY ConstantsAssumption
<1>2. t \in Seq(Literal \cup Param) BY <1>1
<1>3. \A n \in DOMAIN trie : trie[n] \in Seq(Seq(Id)) BY DEF IdLists
<1> QED BY <1>2, <1>3, ExactLists

\* Where the search for a path ends is where the patterns are that cover it.
LEMMA ReachCovers ==
  ASSUME NEW t \in Seq(Literal \cup Param), NEW n \in Node
  PROVE  n \in Reach(t, <<>>) <=> Covers(n, t)
<1>1. Len(t) \in Nat OBVIOUS
<1>2. PICK p \in Pattern : n = NodeOf(p) BY DEF Node
<1>3. p \in Seq(Segment) /\ p # <<>> BY <1>2, ConstantsAssumption
<1>4. n \in Path /\ Len(n) = Len(p) /\ Len(n) \in Nat /\ Len(n) > 0 /\ DOMAIN n = 1..Len(n)
  BY <1>2, <1>3, NodeOfPath DEF Path
<1>5. \A i \in 1..Len(n) : n[i] \notin Param
  BY <1>2, <1>3, SegmentAssumption DEF NodeOf
<1>6. /\ n \in Reach(t, <<>>) <=>
           /\ Len(n) <= Len(t)
           /\ \A i \in 1..(Len(n) - 1) : n[i] \in {t[i], Star, Template}
           /\ \/ n[Len(n)] = Multi
              \/ Len(n) = Len(t) /\ n[Len(n)] \in {t[Len(n)], Star, Template}
  <2>1. Len(<<>>) = 0 OBVIOUS
  <2> QED BY <1>4, <2>1 DEF Reach
<1>7. \A i \in 1..Len(n) : n[i] \in Param \cup {Star, Template} <=> n[i] \in {Star, Template}
  BY <1>5
<1>8. CASE n[Len(n)] = Multi
  <2>1. Covers(n, t) <=> /\ Len(t) >= Len(n)
                         /\ \A i \in 1..(Len(n) - 1) : n[i] \in {t[i], Star, Template}
    BY <1>4, <1>7, <1>8 DEF Covers
  <2>2. n \in Reach(t, <<>>) <=>
           Len(n) <= Len(t) /\ \A i \in 1..(Len(n) - 1) : n[i] \in {t[i], Star, Template}
    BY <1>6, <1>8
  <2>3. Len(t) >= Len(n) <=> Len(n) <= Len(t) BY <1>1, <1>4
  <2> QED BY <2>1, <2>2, <2>3
<1>9. CASE n[Len(n)] # Multi
  <2>1. Covers(n, t) <=> /\ Len(t) = Len(n)
                         /\ \A i \in 1..Len(n) : n[i] \in {t[i], Star, Template}
    BY <1>4, <1>7, <1>9 DEF Covers
  <2>2. n \in Reach(t, <<>>) <=>
           /\ Len(n) = Len(t) /\ n[Len(n)] \in {t[Len(n)], Star, Template}
           /\ \A i \in 1..(Len(n) - 1) : n[i] \in {t[i], Star, Template}
    BY <1>1, <1>4, <1>6, <1>9
  <2>3. \A i : i \in 1..Len(n) <=> i \in 1..(Len(n) - 1) \/ i = Len(n) BY <1>4
  <2> QED BY <2>1, <2>2, <2>3
<1> QED BY <1>8, <1>9

-----------------------------------------------------------------------------
(***************************************************************************)
(* Types.                                                                  *)
(***************************************************************************)

AllUnmixed == \A p \in Pattern : Unmixed(p)

LEMMA InitType == Init => TypeOK
<1> SUFFICES ASSUME Init PROVE TypeOK OBVIOUS
<1> USE DEF Init
<1>1. AnyPattern \in Pattern BY ConstantsAssumption DEF AnyPattern
<1>2. local_event_subscriptions \in [Node -> Seq(Seq(Id))]
      /\ \A n \in Node : Len(local_event_subscriptions[n]) <= 1
  OBVIOUS
<1>3. local_events_by_service \in [Service -> Seq(Pattern)] OBVIOUS
<1>4. sub \in [Id -> [pc : {"none", "written", "done"}, topic : Pattern]] BY <1>1
<1>5. unsub \in [Id \X Attempt -> [pc : {"none", "found", "done", "failed"}, topic : Pattern]]
  BY <1>1
<1>6. pub \in [Publisher -> [pc : {"none", "calling", "done"}, todo : Seq(Id)]] OBVIOUS
<1>7. calls \in [Id -> Nat] OBVIOUS
<1> QED BY <1>1, <1>2, <1>3, <1>4, <1>5, <1>6, <1>7 DEF TypeOK

LEMMA TypeStep == TypeOK /\ [Next]_vars => TypeOK'
<1> SUFFICES ASSUME TypeOK, [Next]_vars PROVE TypeOK' OBVIOUS
<1> DEFINE trie == local_event_subscriptions
<1>0. /\ trie \in IdLists /\ (AllUnmixed => Single(trie))
      /\ local_events_by_service \in [Service -> Seq(Pattern)]
      /\ subscription_id_to_topic_path \in [Id -> Pattern \cup {NoTopic}]
      /\ NoTopic \notin Pattern
      /\ patterns \subseteq Pattern
  BY ConstantsAssumption DEF TypeOK, IdLists, AllUnmixed, Single
<1>1. ASSUME NEW i \in Id, NEW p \in Pattern, Subscribe(i, p) PROVE TypeOK'
  <2>1. PICK literals \in Orders : trie' = Register(trie, p, i, literals)
    BY <1>1 DEF Subscribe
  <2>2. trie' \in IdLists /\ (AllUnmixed => Single(trie'))
    BY <1>0, <2>1, RegisterParts DEF AllUnmixed
  <2>3. sub' \in [Id -> [pc : {"none", "written", "done"}, topic : Pattern]]
    BY <1>1 DEF Subscribe, TypeOK
  <2>4. subscription_id_to_topic_path' \in [Id -> Pattern \cup {NoTopic}]
    BY <1>1 DEF Subscribe, TypeOK
  <2> QED BY <1>1, <2>2, <2>3, <2>4 DEF Subscribe, TypeOK, IdLists, AllUnmixed, Single
<1>2. ASSUME NEW i \in Id, ListEvent(i) PROVE TypeOK'
  <2>1. sub[i].topic \in Pattern /\ sub[i].topic[1] \in Service
    BY PatternParts DEF TypeOK
  <2>2. Append(local_events_by_service[sub[i].topic[1]], sub[i].topic) \in Seq(Pattern)
    BY <1>0, <2>1
  <2>3. local_events_by_service' \in [Service -> Seq(Pattern)]
    BY <1>0, <1>2, <2>1, <2>2 DEF ListEvent
  <2>4. sub' \in [Id -> [pc : {"none", "written", "done"}, topic : Pattern]]
    BY <1>2 DEF ListEvent, TypeOK
  <2> QED BY <1>2, <2>3, <2>4 DEF ListEvent, TypeOK
<1>2a. \A i \in Id, a \in Attempt :
         unsub[<<i, a>>] \in [pc : {"none", "found", "done", "failed"}, topic : Pattern]
  BY DEF TypeOK
<1>2b. ASSUME NEW i \in Id, NEW a \in Attempt, NEW s \in {"none", "found", "done", "failed"},
              unsub' = [unsub EXCEPT ![<<i, a>>].pc = s]
       PROVE  unsub' \in [Id \X Attempt -> [pc : {"none", "found", "done", "failed"}, topic : Pattern]]
  <2> DEFINE new == [unsub[<<i, a>>] EXCEPT !.pc = s]
  <2>1. new \in [pc : {"none", "found", "done", "failed"}, topic : Pattern] BY <1>2a
  <2>2. unsub' = [unsub EXCEPT ![<<i, a>>] = new] BY <1>2b
  <2> HIDE DEF new
  <2> QED BY <2>1, <2>2 DEF TypeOK
<1> DEFINE Unsub == [Id \X Attempt -> [pc : {"none", "found", "done", "failed"}, topic : Pattern]]
<1>3. ASSUME NEW i \in Id, NEW a \in Attempt, FindTopic(i, a) PROVE TypeOK'
  <2> DEFINE new == IF subscription_id_to_topic_path[i] = NoTopic
                    THEN [unsub[<<i, a>>] EXCEPT !.pc = "failed"]
                    ELSE [pc |-> "found", topic |-> subscription_id_to_topic_path[i]]
  <2>1. new \in [pc : {"none", "found", "done", "failed"}, topic : Pattern]
    <3>1. unsub[<<i, a>>] \in [pc : {"none", "found", "done", "failed"}, topic : Pattern]
      BY <1>2a
    <3>2. subscription_id_to_topic_path[i] \in Pattern \cup {NoTopic} BY <1>0
    <3> QED BY <3>1, <3>2
  <2>2. unsub' = [unsub EXCEPT ![<<i, a>>] = new] BY <1>3 DEF FindTopic
  <2> HIDE DEF new
  <2>3. unsub' \in Unsub BY <2>1, <2>2 DEF TypeOK
  <2> QED BY <1>3, <2>3 DEF FindTopic, TypeOK, maps
<1>4. ASSUME NEW i \in Id, NEW a \in Attempt, RemoveSubscription(i, a) PROVE TypeOK'
  <2> DEFINE path == unsub[<<i, a>>].topic
  <2>1. path \in Pattern /\ path[1] \in Service BY PatternParts DEF TypeOK
  <2>2. PICK literals \in Orders :
          LET matches == FindMatches(trie, path, literals)
              rest == Without(matches[1], i)
          IN  /\ matches # <<>>
              /\ trie' = IF rest = <<>> THEN RemoveHandlers(trie, path)
                         ELSE Replace(trie, path, rest)
    BY <1>4 DEF RemoveSubscription
  <2> DEFINE matches == FindMatches(trie, path, literals)
             rest == Without(matches[1], i)
  <2>3. matches \in Seq(Seq(Id)) BY <1>0, <2>1, PatternSearch
  <2>4. rest \in Seq(Id)
    <3>1. matches[1] \in Seq(Id) BY <2>2, <2>3
    <3>2. rest \in Seq(Id \ {i}) BY <3>1, WithoutParts
    <3> QED BY <3>2
  <2>5. trie' \in IdLists /\ (AllUnmixed => Single(trie'))
    <3> HIDE DEF rest, matches, path
    <3>1. CASE rest = <<>>
      <4>1. trie' = RemoveHandlers(trie, path) BY <2>2, <3>1 DEF rest, matches
      <4> QED BY <1>0, <2>1, <4>1, RemoveHandlersParts
    <3>2. CASE rest # <<>>
      <4>1. trie' = Replace(trie, path, rest) BY <2>2, <3>2 DEF rest, matches
      <4> QED BY <1>0, <2>1, <2>4, <4>1, ReplaceParts
    <3> QED BY <3>1, <3>2
  <2> HIDE DEF matches, rest
  <2>6. unsub' \in Unsub
    <3>1. \/ unsub' = [unsub EXCEPT ![<<i, a>>].pc = "done"]
          \/ unsub' = [unsub EXCEPT ![<<i, a>>].pc = "failed"]
      BY <1>4 DEF RemoveSubscription
    <3> QED BY <3>1, <1>2b
  <2>7. subscription_id_to_topic_path' \in [Id -> Pattern \cup {NoTopic}]
    BY <1>0, <1>4 DEF RemoveSubscription
  <2>8. local_events_by_service' \in [Service -> Seq(Pattern)]
    <3>1. local_events_by_service[path[1]] \in Seq(Pattern) BY <1>0, <2>1
    <3> DEFINE list == Without(local_events_by_service[path[1]], path)
    <3>2. list \in Seq(Pattern \ {path}) BY <3>1, WithoutParts
    <3>3. list \in Seq(Pattern) BY <3>2
    <3>4. \/ local_events_by_service' = local_events_by_service
          \/ local_events_by_service' = [local_events_by_service EXCEPT ![path[1]] = list]
      BY <1>4 DEF RemoveSubscription
    <3> HIDE DEF list, path
    <3> QED BY <1>0, <3>3, <3>4
  <2> QED BY <1>4, <2>5, <2>6, <2>7, <2>8
          DEF RemoveSubscription, TypeOK, IdLists, AllUnmixed, Single
<1>5. ASSUME NEW i \in Id, NEW a \in Attempt, FailToRemove(i, a) PROVE TypeOK'
  <2>1. unsub' \in Unsub
    <3>1. unsub' = [unsub EXCEPT ![<<i, a>>].pc = "failed"] BY <1>5 DEF FailToRemove
    <3> QED BY <3>1, <1>2b
  <2> QED BY <1>5, <2>1 DEF FailToRemove, TypeOK, maps
<1> DEFINE Pub == [Publisher -> [pc : {"none", "calling", "done"}, todo : Seq(Id)]]
<1>6. ASSUME NEW u \in Publisher, NEW t \in Topic, Publish(u, t) PROVE TypeOK'
  <2>1. Subscribers(t) \in Seq(Id)
    <3>1. FindExact(trie, t) \in Seq(Seq(Id)) BY <1>0, TopicSearch
    <3> QED BY <3>1, FlattenParts DEF Subscribers
  <2>2. pub' \in Pub BY <1>6, <2>1 DEF Publish, TypeOK
  <2> QED BY <1>6, <2>2 DEF Publish, TypeOK, maps
<1>7. ASSUME NEW u \in Publisher, CallBack(u) PROVE TypeOK'
  <2>1. pub[u].todo \in Seq(Id) /\ pub[u].todo # <<>> BY <1>7 DEF CallBack, TypeOK
  <2>2. Tail(pub[u].todo) \in Seq(Id) /\ Head(pub[u].todo) \in Id BY <2>1
  <2>3. pub' \in Pub BY <1>7, <2>2 DEF CallBack, TypeOK
  <2>4. calls' \in [Id -> Nat] BY <1>7, <2>2 DEF CallBack, TypeOK
  <2> QED BY <1>7, <2>3, <2>4 DEF CallBack, TypeOK, maps
<1>8. ASSUME NEW u \in Publisher, Return(u) PROVE TypeOK'
  <2>1. pub' \in Pub BY <1>8 DEF Return, TypeOK
  <2> QED BY <1>8, <2>1 DEF Return, TypeOK, maps
<1>9. CASE UNCHANGED vars BY <1>9 DEF vars, TypeOK
<1> QED BY <1>1, <1>2, <1>3, <1>4, <1>5, <1>6, <1>7, <1>8, <1>9 DEF Next

\* Every map, list and call of Subscriptions keeps its type, and a node of the trie
\* holds one list of ids at most, wherever no pattern has a {name} next to a wildcard:
\* registration and removal replace the list that is there (service_registry.rs).
THEOREM TypeCorrect == Spec => []TypeOK
BY InitType, TypeStep, PTL DEF Spec

-----------------------------------------------------------------------------
(***************************************************************************)
(* The search for a topic.                                                 *)
(***************************************************************************)

LEMMA SearchExact == TypeOK => TrieFindsCovering
<1> SUFFICES ASSUME TypeOK, NEW t \in Topic
             PROVE  LET found == FindExact(local_event_subscriptions, t)
                        kept == UNION {{n} \X DOMAIN local_event_subscriptions[n]
                                         : n \in {m \in Node : Covers(m, t)}}
                    IN  \E place \in Bijection(DOMAIN found, kept) :
                          \A k \in DOMAIN found :
                            found[k] = local_event_subscriptions[place[k][1]][place[k][2]]
  BY DEF TrieFindsCovering
<1> DEFINE trie == local_event_subscriptions
           found == FindExact(trie, t)
           kept == UNION {{n} \X DOMAIN trie[n] : n \in {m \in Node : Covers(m, t)}}
<1>0. t \in Seq(Literal \cup Param)
  <2>1. t \in Seq(Literal) BY ConstantsAssumption
  <2> QED BY <2>1
<1>1. trie \in IdLists BY DEF TypeOK, IdLists
<1>2. DOMAIN trie = Node /\ \A n \in Node : trie[n] \in Seq(Seq(Id)) BY <1>1 DEF IdLists
<1>3. \A n \in Node : DOMAIN trie[n] \subseteq Nat BY <1>2
<1>4. Places(trie, Reach(t, <<>>)) = kept
  <2>1. ASSUME NEW n \in Node, NEW k PROVE <<n, k>> \in Places(trie, Reach(t, <<>>)) <=> <<n, k>> \in kept
    <3>1. <<n, k>> \in Places(trie, Reach(t, <<>>)) <=> Covers(n, t) /\ k \in DOMAIN trie[n]
      BY <1>0, <1>2, <1>3, ReachCovers DEF Places
    <3>2. <<n, k>> \in kept <=> Covers(n, t) /\ k \in DOMAIN trie[n]
      OBVIOUS
    <3> QED BY <3>1, <3>2
  <2>2. \A pl \in Places(trie, Reach(t, <<>>)) : \E n \in Node : \E k \in Nat : pl = <<n, k>>
    BY <1>2 DEF Places
  <2>3. \A pl \in kept : \E n \in Node : \E k \in DOMAIN trie[n] : pl = <<n, k>>
    OBVIOUS
  <2> HIDE DEF kept, trie
  <2>4. Places(trie, Reach(t, <<>>)) \subseteq kept BY <2>1, <2>2
  <2>5. kept \subseteq Places(trie, Reach(t, <<>>)) BY <2>1, <2>3
  <2> QED BY <2>4, <2>5
<1>5. Lists(found, trie, Reach(t, <<>>)) BY <1>1, TopicSearch
<1> HIDE DEF trie, found, kept
<1>6. \E place \in Bijection(DOMAIN found, kept) :
        \A k \in DOMAIN found : found[k] = trie[place[k][1]][place[k][2]]
  BY <1>4, <1>5 DEF Lists
<1> QED BY <1>6 DEF trie, found, kept

\* find_matches (path_registry.rs), under every interleaving of subscribe,
\* unsubscribe and publish: an event is given just the lists kept under the patterns
\* that cover its topic, each of them once, however the patterns overlap.
THEOREM TrieRight == Spec => []TrieFindsCovering
BY TypeCorrect, SearchExact, PTL

-----------------------------------------------------------------------------
(***************************************************************************)
(* Separate patterns: each has a list of its own, and the list has each    *)
(* subscription that is in force once.                                     *)
(***************************************************************************)

Removed(i) == \E a \in Attempt : unsub[<<i, a>>].pc = "done"

\* The subscriptions of a path that have been made and not taken out again.
KeptIds(p) == {i \in Id : sub[i].pc # "none" /\ sub[i].topic = p /\ ~Removed(i)}

\* What a trie holds when it holds, for each pattern in use, the ids of a set once.
Holds(held, ids) ==
  \/ held = <<>> /\ ids = {}
  \/ \E list \in Seq(Id) :
       /\ held = <<list>> /\ list # <<>> /\ Distinct(list)
       /\ \A v : HasItem(list, v) <=> v \in ids

OwnLists ==
  /\ \A p \in patterns : Holds(local_event_subscriptions[NodeOf(p)], KeptIds(p))
  /\ \A n \in Node : (\A p \in patterns : n # NodeOf(p)) => local_event_subscriptions[n] = <<>>

\* The calls and the maps of ids agree.
IdsAgree ==
  /\ \A i \in Id :
       /\ sub[i].pc # "none" => sub[i].topic \in patterns
       /\ subscription_id_to_topic_path[i] =
            IF sub[i].pc # "none" /\ ~Removed(i) THEN sub[i].topic ELSE NoTopic
       /\ i \in subscription_id_to_service_topic_path <=> sub[i].pc = "done"
  /\ \A i \in Id, a \in Attempt :
       /\ unsub[<<i, a>>].pc # "none" => sub[i].pc = "done"
       /\ unsub[<<i, a>>].pc \in {"found", "done"} => unsub[<<i, a>>].topic = sub[i].topic
       /\ unsub[<<i, a>>].pc = "failed" => Removed(i)

\* The metadata of a service are those of its subscriptions.
EventLists ==
  /\ \A s \in Service, p \in Pattern : HasItem(local_events_by_service[s], p) =>
       p[1] = s /\ \E i \in Id : sub[i].pc = "done" /\ sub[i].topic = p /\ ~Removed(i)
  /\ \A i \in Id : sub[i].pc = "done" /\ ~Removed(i) =>
       \/ HasItem(local_events_by_service[sub[i].topic[1]], sub[i].topic)
       \/ \E j \in Id \ {i} : Removed(j) /\ sub[j].topic = sub[i].topic

\* A publication calls nobody twice, and calls before it returns.
CallsOnce ==
  \A u \in Publisher : Distinct(pub[u].todo) /\ (pub[u].pc # "calling" => pub[u].todo = <<>>)

Kept == OwnLists /\ IdsAgree /\ EventLists /\ CallsOnce

KeptInv == Separate => Kept

\* The search for a path comes upon the path's own node, and the node of no other
\* pattern.
LEMMA OwnMet ==
  ASSUME NEW p \in Pattern, Unmixed(p)
  PROVE  Meets(p, NodeOf(p))
<1> DEFINE n == NodeOf(p)
<1>1. p \in Seq(Segment) /\ Len(p) \in Nat /\ Len(p) > 0 /\ DOMAIN p = 1..Len(p)
  BY ConstantsAssumption
<1>2. Len(n) = Len(p) /\ DOMAIN n = 1..Len(p) BY <1>1, NodeOfPath DEF Path
<1>3. \A i \in 1..Len(p) : n[i] = IF p[i] \in Param THEN Template ELSE p[i] BY <1>1 DEF NodeOf
<1> HIDE DEF n
<1>4. CASE IsPattern(p)
  <2>1. \A i \in 1..Len(p) : p[i] = n[i] BY <1>1, <1>3, <1>4 DEF Unmixed
  <2>2. \A i \in 1..(Len(p) - 1) : i \in 1..Len(p) BY <1>1
  <2>3. Len(n) >= Len(p) - 1 BY <1>1, <1>2
  <2> QED BY <1>1, <1>2, <1>4, <2>1, <2>2, <2>3 DEF Meets, n
<1>5. CASE ~IsPattern(p)
  <2>1. \A i \in 1..Len(p) : p[i] \notin {Star, Multi} BY <1>1, <1>5 DEF IsPattern
  <2>2. n[Len(n)] # Multi BY <1>1, <1>2, <1>3, <2>1, SegmentAssumption
  <2>3. \A i \in 1..Len(p) : n[i] = p[i] \/ n[i] \in Param \cup {Star, Template} BY <1>3
  <2>4. Covers(n, p) BY <1>2, <2>2, <2>3 DEF Covers
  <2> QED BY <1>5, <2>4 DEF Meets, n
<1> QED BY <1>4, <1>5

LEMMA SeparateNodes ==
  ASSUME Separate, patterns \subseteq Pattern
  PROVE  /\ \A p \in patterns : Unmixed(p)
         /\ \A p, q \in patterns : Meets(p, NodeOf(q)) => p = q
         /\ \A p, q \in patterns : NodeOf(p) = NodeOf(q) => p = q
<1>1. \A p \in patterns : Meets(p, NodeOf(p)) BY OwnMet DEF Separate
<1> QED BY <1>1 DEF Separate

\* What a search that starts at a pattern's path finds is kept at nodes it meets.
LEMMA SearchMeets ==
  ASSUME NEW trie \in IdLists, NEW p \in Pattern, NEW literals \in Orders,
         NEW v, HasItem(FindMatches(trie, p, literals), v)
  PROVE  \E n \in Node : Meets(p, n) /\ HasItem(trie[n], v)
<1>1. IsTrie(trie, Seq(Id)) BY IdListsTrie
<1>2. p \in Seq(Segment) /\ MultiLast(p) BY PatternParts
<1>3. literals \in Seq(Literal) BY ConstantsAssumption
<1>4. DOMAIN trie = Node BY DEF IdLists
<1>5. PICK n \in Node : /\ HasItem(trie[n], v)
                        /\ IsPattern(p) => Under(p, <<>>, n)
                        /\ ~IsPattern(p) => n \in Reach(p, <<>>)
  BY <1>1, <1>2, <1>3, <1>4, FindMatchesUnder
<1>6. CASE IsPattern(p)
  <2>1. Under(p, <<>>, n) BY <1>5, <1>6
  <2>2. Len(<<>>) = 0 /\ DOMAIN p = 1..Len(p) /\ Len(p) \in Nat BY <1>2
  <2>3. /\ IF p[Len(p)] = Multi THEN Len(n) >= Len(p) - 1 ELSE Len(n) = Len(p)
        /\ \A i \in 1..(IF p[Len(p)] = Multi THEN Len(p) - 1 ELSE Len(p)) :
             p[i] = n[i] \/ (p[i] = Star /\ n[i] # Multi)
    BY <2>1, <2>2 DEF Under
  <2>4. Meets(p, n) BY <1>6, <2>2, <2>3 DEF Meets
  <2> QED BY <1>5, <2>4
<1>7. CASE ~IsPattern(p)
  <2>1. p \in Seq(Literal \cup Param) BY <1>2, <1>7, NotPattern
  <2>2. Covers(n, p) BY <1>5, <1>7, <2>1, ReachCovers
  <2> QED BY <1>5, <1>7, <2>2 DEF Meets
<1> QED BY <1>6, <1>7

LEMMA OwnSearch ==
  ASSUME NEW trie \in IdLists, Separate, patterns \subseteq Pattern,
         \A n \in Node : (\A p \in patterns : n # NodeOf(p)) => trie[n] = <<>>,
         NEW p \in patterns, Len(trie[NodeOf(p)]) <= 1, NEW literals \in Orders
  PROVE  /\ FindMatches(trie, p, literals) = <<>> <=> trie[NodeOf(p)] = <<>>
         /\ trie[NodeOf(p)] # <<>> => FindMatches(trie, p, literals)[1] = trie[NodeOf(p)][1]
<1> DEFINE found == FindMatches(trie, p, literals)
           held == trie[NodeOf(p)]
<1>1. p \in Pattern /\ Unmixed(p) /\ NodeOf(p) \in Node BY PatternParts DEF Separate
<1>2. found \in Seq(Seq(Id)) /\ (held # <<>> => found # <<>>) BY <1>1, PatternSearch
<1>3. held \in Seq(Seq(Id)) BY <1>1 DEF IdLists
<1>4. ASSUME NEW v, HasItem(found, v) PROVE HasItem(held, v)
  <2>1. PICK n \in Node : Meets(p, n) /\ HasItem(trie[n], v) BY <1>1, <1>4, SearchMeets
  <2>2. trie[n] # <<>> BY <2>1 DEF HasItem
  <2>3. PICK q \in patterns : n = NodeOf(q) BY <2>2
  <2>4. q = p BY <2>1, <2>3, SeparateNodes
  <2> QED BY <2>1, <2>3, <2>4
<1> HIDE DEF found, held
<1>5. ASSUME found # <<>> PROVE held # <<>> /\ found[1] = held[1]
  <2>1. HasItem(found, found[1]) BY <1>2, <1>5 DEF HasItem
  <2>2. HasItem(held, found[1]) BY <1>4, <2>1
  <2>3. PICK k \in DOMAIN held : held[k] = found[1] BY <2>2 DEF HasItem
  <2>4. k = 1 BY <1>3, <2>3 DEF held
  <2> QED BY <1>3, <2>3, <2>4
<1> QED BY <1>2, <1>5 DEF found, held

LEMMA HoldsAppend ==
  ASSUME NEW held, NEW ids, Holds(held, ids), NEW i \in Id, i \notin ids
  PROVE  Holds(<<IF held = <<>> THEN <<i>> ELSE Append(held[1], i)>>, ids \cup {i})
<1>1. CASE held = <<>>
  <2>1. ids = {} BY <1>1 DEF Holds
  <2>2. <<i>> \in Seq(Id) /\ <<i>> # <<>> /\ Distinct(<<i>>) BY DEF Distinct
  <2>3. \A v : HasItem(<<i>>, v) <=> v = i BY DEF HasItem
  <2> QED BY <1>1, <2>1, <2>2, <2>3 DEF Holds
<1>2. CASE held # <<>>
  <2>1. PICK list \in Seq(Id) :
          /\ held = <<list>> /\ list # <<>> /\ Distinct(list)
          /\ \A v : HasItem(list, v) <=> v \in ids
    BY <1>2 DEF Holds
  <2>2. <<i>> \in Seq(Id) /\ Distinct(<<i>>) BY DEF Distinct
  <2>3. \A v : HasItem(<<i>>, v) <=> v = i BY DEF HasItem
  <2> DEFINE new == list \o <<i>>
  <2>4. Append(list, i) = new OBVIOUS
  <2>5. new \in Seq(Id) /\ new # <<>> OBVIOUS
  <2>6. \A v : HasItem(new, v) <=> v \in ids \cup {i}
    BY <2>1, <2>2, <2>3, HasItemBoth
  <2>7. \A v : ~(HasItem(list, v) /\ HasItem(<<i>>, v)) BY <2>1, <2>3
  <2>8. Distinct(new) BY <2>1, <2>2, <2>7, DistinctBoth
  <2>9. <<IF held = <<>> THEN <<i>> ELSE Append(held[1], i)>> = <<new>> BY <1>2, <2>1, <2>4
  <2> HIDE DEF new
  <2> QED BY <2>5, <2>6, <2>8, <2>9 DEF Holds
<1> QED BY <1>1, <1>2

LEMMA HoldsWithout ==
  ASSUME NEW held, NEW ids, Holds(held, ids), held # <<>>, NEW i
  PROVE  LET rest == Without(held[1], i)
         IN  Holds(IF rest = <<>> THEN <<>> ELSE <<rest>>, ids \ {i})
<1>1. PICK list \in Seq(Id) :
        /\ held = <<list>> /\ list # <<>> /\ Distinct(list)
        /\ \A v : HasItem(list, v) <=> v \in ids
  BY DEF Holds
<1> DEFINE rest == Without(list, i)
<1>2. /\ rest \in Seq(Id \ {i}) /\ Distinct(rest)
      /\ \A v : HasItem(rest, v) <=> HasItem(list, v) /\ v # i
  BY <1>1, WithoutParts
<1>3. Without(held[1], i) = rest BY <1>1
<1> HIDE DEF rest
<1>4. rest \in Seq(Id) BY <1>2
<1>5. \A v : HasItem(rest, v) <=> v \in ids \ {i} BY <1>1, <1>2
<1>6. CASE rest = <<>>
  <2>1. ids \ {i} = {} BY <1>5, <1>6 DEF HasItem
  <2> QED BY <1>3, <1>6, <2>1 DEF Holds
<1>7. CASE rest # <<>> BY <1>2, <1>3, <1>4, <1>5, <1>7 DEF Holds
<1> QED BY <1>6, <1>7

\* Steps that leave the trie alone, and the set of subscriptions in force.
LEMMA OwnListsSame ==
  ASSUME OwnLists,
         local_event_subscriptions' = local_event_subscriptions, patterns' = patterns,
         \A i \in Id : /\ sub'[i].pc = "none" <=> sub[i].pc = "none"
                       /\ sub'[i].topic = sub[i].topic
                       /\ Removed(i)' <=> Removed(i)
  PROVE  OwnLists'
<1>1. \A p : KeptIds(p)' = KeptIds(p) BY DEF KeptIds
<1> QED BY <1>1 DEF OwnLists

LEMMA Basics ==
  ASSUME TypeOK
  PROVE  /\ patterns \subseteq Pattern /\ local_event_subscriptions \in IdLists
         /\ \A i \in Id : sub[i] \in [pc : {"none", "written", "done"}, topic : Pattern]
         /\ \A i \in Id, a \in Attempt :
              unsub[<<i, a>>] \in [pc : {"none", "found", "done", "failed"}, topic : Pattern]
BY ConstantsAssumption DEF TypeOK, IdLists

\* Pattern by pattern, one list at most.
LEMMA OwnListParts ==
  ASSUME TypeOK, OwnLists, NEW p \in patterns
  PROVE  LET held == local_event_subscriptions[NodeOf(p)]
         IN  Len(held) <= 1 /\ (held = <<>> <=> KeptIds(p) = {})
<1> DEFINE held == local_event_subscriptions[NodeOf(p)]
<1>1. Holds(held, KeptIds(p)) BY DEF OwnLists
<1> HIDE DEF held
<1>2. CASE held = <<>> /\ KeptIds(p) = {} BY <1>2 DEF held
<1>3. ASSUME NEW list \in Seq(Id), held = <<list>>, list # <<>>,
             \A v : HasItem(list, v) <=> v \in KeptIds(p)
      PROVE  Len(held) <= 1 /\ (held = <<>> <=> KeptIds(p) = {})
  <2>1. HasItem(list, list[1]) BY <1>3 DEF HasItem
  <2> QED BY <1>3, <2>1
<1> QED BY <1>1, <1>2, <1>3 DEF Holds, held

LEMMA InitKept == Init => KeptInv
<1> SUFFICES ASSUME Init, Separate PROVE Kept BY DEF KeptInv
<1> USE DEF Init
<1>1. \A p : KeptIds(p) = {} BY DEF KeptIds
<1>2. patterns \subseteq Pattern BY ConstantsAssumption
<1>3. \A p \in patterns : NodeOf(p) \in Node BY <1>2 DEF Node
<1>4. OwnLists BY <1>1, <1>3 DEF OwnLists, Holds
<1>5. IdsAgree BY DEF IdsAgree, Removed
<1>6. EventLists BY DEF EventLists, HasItem
<1>7. CallsOnce BY DEF CallsOnce, Distinct
<1> QED BY <1>4, <1>5, <1>6, <1>7 DEF Kept

LEMMA SubscribeKept ==
  ASSUME TypeOK, Separate, Kept, NEW i \in Id, NEW p \in Pattern, Subscribe(i, p)
  PROVE  Kept'
<1> DEFINE trie == local_event_subscriptions
<1>1. /\ sub[i].pc = "none" /\ p \in patterns /\ patterns' = patterns
      /\ sub' = [sub EXCEPT ![i] = [pc |-> "written", topic |-> p]]
      /\ subscription_id_to_topic_path' = [subscription_id_to_topic_path EXCEPT ![i] = p]
      /\ unsub' = unsub /\ pub' = pub
      /\ local_events_by_service' = local_events_by_service
      /\ subscription_id_to_service_topic_path' = subscription_id_to_service_topic_path
  BY DEF Subscribe
<1>2. \A j \in Id : sub'[j] = IF j = i THEN [pc |-> "written", topic |-> p] ELSE sub[j]
  BY <1>1 DEF TypeOK
<1>3. \A j \in Id : Removed(j)' <=> Removed(j) BY <1>1 DEF Removed
<1>4. ~Removed(i) BY <1>1 DEF Kept, IdsAgree, Removed
<1>5. \A q : KeptIds(q)' = IF q = p THEN KeptIds(q) \cup {i} ELSE KeptIds(q)
  BY <1>1, <1>2, <1>3, <1>4 DEF KeptIds
<1>6. \A q : i \notin KeptIds(q) BY <1>1 DEF KeptIds
<1>7. PICK literals \in Orders : trie' = Register(trie, p, i, literals) BY DEF Subscribe
<1> DEFINE held == trie[NodeOf(p)]
           new == <<IF held = <<>> THEN <<i>> ELSE Append(held[1], i)>>
<1>8. trie' = [trie EXCEPT ![NodeOf(p)] = new]
  <2>1. /\ trie \in IdLists /\ patterns \subseteq Pattern /\ Len(held) <= 1
        /\ \A n \in Node : (\A q \in patterns : n # NodeOf(q)) => trie[n] = <<>>
    BY <1>1, Basics, OwnListParts DEF Kept, OwnLists
  <2>2. /\ FindMatches(trie, p, literals) = <<>> <=> held = <<>>
        /\ held # <<>> => FindMatches(trie, p, literals)[1] = held[1]
    BY <1>1, <2>1, OwnSearch
  <2>3. NodeOf(p) \in Node /\ DOMAIN trie = Node BY <2>1, PatternParts DEF IdLists
  <2>4. CASE held = <<>>
    <3>1. trie' = [trie EXCEPT ![NodeOf(p)] = Append(<<>>, <<i>>)]
      BY <1>7, <2>2, <2>4 DEF Register, SetValue
    <3>2. Append(<<>>, <<i>>) = new BY <2>4
    <3> QED BY <3>1, <3>2
  <2>5. CASE held # <<>>
    <3>1. trie' = Replace(trie, p, Append(held[1], i)) BY <1>7, <2>2, <2>5 DEF Register
    <3>2. Replace(trie, p, Append(held[1], i))
            = [trie EXCEPT ![NodeOf(p)] = Append(<<>>, Append(held[1], i))]
      BY <2>3 DEF Replace, SetValue, RemoveHandlers
    <3>3. Append(<<>>, Append(held[1], i)) = new BY <2>5
    <3> QED BY <3>1, <3>2, <3>3
  <2> QED BY <2>4, <2>5
<1>9. Holds(new, KeptIds(p) \cup {i})
  <2>1. Holds(held, KeptIds(p)) BY <1>1 DEF Kept, OwnLists
  <2> HIDE DEF held
  <2> QED BY <1>6, <2>1, HoldsAppend
<1>10. OwnLists'
  <2> HIDE DEF new
  <2>0. DOMAIN trie = Node /\ NodeOf(p) \in Node /\ patterns \subseteq Pattern
    BY Basics, PatternParts DEF IdLists
  <2>1. ASSUME NEW q \in patterns' PROVE Holds(trie'[NodeOf(q)], KeptIds(q)')
    <3>1. q \in patterns /\ NodeOf(q) \in Node BY <1>1, <2>0, <2>1, PatternParts
    <3>2. CASE q = p
      <4>1. trie'[NodeOf(q)] = new BY <1>8, <2>0, <3>2
      <4>2. KeptIds(q)' = KeptIds(p) \cup {i} BY <1>5, <3>2
      <4> QED BY <1>9, <4>1, <4>2
    <3>3. CASE q # p
      <4>1. NodeOf(q) # NodeOf(p) BY <1>1, <2>0, <3>1, <3>3, SeparateNodes
      <4>2. trie'[NodeOf(q)] = trie[NodeOf(q)] BY <1>8, <2>0, <3>1, <4>1
      <4>3. KeptIds(q)' = KeptIds(q) BY <1>5, <3>3
      <4>4. Holds(trie[NodeOf(q)], KeptIds(q)) BY <3>1 DEF Kept, OwnLists
      <4> QED BY <4>2, <4>3, <4>4
    <3> QED BY <3>2, <3>3
  <2>2. ASSUME NEW n \in Node, \A q \in patterns' : n # NodeOf(q) PROVE trie'[n] = <<>>
    <3>1. n # NodeOf(p) /\ \A q \in patterns : n # NodeOf(q) BY <1>1, <2>2
    <3>2. trie[n] = <<>> BY <2>2, <3>1 DEF Kept, OwnLists
    <3> QED BY <1>8, <2>0, <3>1, <3>2
  <2> QED BY <2>1, <2>2 DEF OwnLists
<1>11. IdsAgree'
  <2>1. ASSUME NEW j \in Id
        PROVE  /\ sub'[j].pc # "none" => sub'[j].topic \in patterns
               /\ subscription_id_to_topic_path'[j] =
                    IF sub'[j].pc # "none" /\ ~Removed(j) THEN sub'[j].topic ELSE NoTopic
               /\ j \in subscription_id_to_service_topic_path <=> sub'[j].pc = "done"
    <3>1. CASE j = i
      <4>1. subscription_id_to_topic_path'[i] = p BY <1>1 DEF TypeOK
      <4>2. i \notin subscription_id_to_service_topic_path BY <1>1 DEF Kept, IdsAgree
      <4> QED BY <1>1, <1>2, <1>4, <3>1, <4>1, <4>2
    <3>2. CASE j # i
      <4>1. subscription_id_to_topic_path'[j] = subscription_id_to_topic_path[j]
        BY <1>1, <3>2 DEF TypeOK
      <4>2. sub'[j] = sub[j] BY <1>2, <3>2
      <4> QED BY <4>1, <4>2 DEF Kept, IdsAgree
    <3> QED BY <3>1, <3>2
  <2>2. ASSUME NEW j \in Id, NEW b \in Attempt
        PROVE  /\ unsub[<<j, b>>].pc # "none" => sub'[j].pc = "done"
               /\ unsub[<<j, b>>].pc \in {"found", "done"} => unsub[<<j, b>>].topic = sub'[j].topic
               /\ unsub[<<j, b>>].pc = "failed" => Removed(j)
    <3>1. unsub[<<i, b>>].pc = "none" BY <1>1 DEF Kept, IdsAgree
    <3>2. CASE j = i BY <3>1, <3>2
    <3>3. CASE j # i BY <1>2, <3>3 DEF Kept, IdsAgree
    <3> QED BY <3>2, <3>3
  <2> QED BY <1>1, <1>3, <2>1, <2>2 DEF IdsAgree
<1>12. EventLists'
  <2>1. \A s \in Service, q \in Pattern : HasItem(local_events_by_service[s], q) =>
          q[1] = s /\ \E j \in Id : sub'[j].pc = "done" /\ sub'[j].topic = q /\ ~Removed(j)
    BY <1>1, <1>2 DEF Kept, EventLists
  <2>2. ASSUME NEW j \in Id, sub'[j].pc = "done", ~Removed(j)
        PROVE  \/ HasItem(local_events_by_service[sub'[j].topic[1]], sub'[j].topic)
               \/ \E k \in Id \ {j} : Removed(k) /\ sub'[k].topic = sub'[j].topic
    BY <1>2, <1>4, <2>2 DEF Kept, EventLists
  <2> QED BY <1>1, <1>3, <2>1, <2>2 DEF EventLists
<1>13. CallsOnce' BY <1>1 DEF Kept, CallsOnce
<1> QED BY <1>10, <1>11, <1>12, <1>13 DEF Kept

LEMMA ListEventKept ==
  ASSUME TypeOK, Separate, Kept, NEW i \in Id, ListEvent(i)
  PROVE  Kept'
<1> DEFINE topic == sub[i].topic
           list == local_events_by_service[topic[1]]
<1>1. /\ sub[i].pc = "written" /\ patterns' = patterns
      /\ sub' = [sub EXCEPT ![i].pc = "done"]
      /\ unsub' = unsub /\ pub' = pub
      /\ local_event_subscriptions' = local_event_subscriptions
      /\ subscription_id_to_topic_path' = subscription_id_to_topic_path
      /\ subscription_id_to_service_topic_path' = subscription_id_to_service_topic_path \cup {i}
      /\ local_events_by_service' =
           [local_events_by_service EXCEPT ![topic[1]] = Append(list, topic)]
  BY DEF ListEvent
<1>2. \A j \in Id : /\ sub'[j].topic = sub[j].topic
                    /\ sub'[j].pc = IF j = i THEN "done" ELSE sub[j].pc
  BY <1>1 DEF TypeOK
<1>3. \A j \in Id : Removed(j)' <=> Removed(j) BY <1>1 DEF Removed
<1>4. topic \in Pattern /\ topic[1] \in Service /\ list \in Seq(Pattern)
  <2>1. topic \in Pattern BY Basics
  <2>2. topic[1] \in Service BY <2>1, PatternParts
  <2> QED BY <2>1, <2>2 DEF TypeOK
<1>5. ~Removed(i) BY <1>1 DEF Kept, IdsAgree, Removed
<1>6. OwnLists' BY <1>1, <1>2, <1>3, OwnListsSame DEF Kept
<1>7. IdsAgree'
  <2>1. ASSUME NEW j \in Id
        PROVE  /\ sub'[j].pc # "none" => sub'[j].topic \in patterns
               /\ subscription_id_to_topic_path[j] =
                    IF sub'[j].pc # "none" /\ ~Removed(j) THEN sub'[j].topic ELSE NoTopic
               /\ j \in subscription_id_to_service_topic_path' <=> sub'[j].pc = "done"
    <3>1. CASE j = i BY <1>1, <1>2, <3>1 DEF Kept, IdsAgree
    <3>2. CASE j # i BY <1>1, <1>2, <3>2 DEF Kept, IdsAgree
    <3> QED BY <3>1, <3>2
  <2>2. \A j \in Id, b \in Attempt :
           /\ unsub[<<j, b>>].pc # "none" => sub'[j].pc = "done"
           /\ unsub[<<j, b>>].pc \in {"found", "done"} => unsub[<<j, b>>].topic = sub'[j].topic
           /\ unsub[<<j, b>>].pc = "failed" => Removed(j)
    BY <1>2 DEF Kept, IdsAgree
  <2> QED BY <1>1, <1>3, <2>1, <2>2 DEF IdsAgree
<1>8. \A s \in Service : \A v : HasItem(local_events_by_service'[s], v) <=>
        HasItem(local_events_by_service[s], v) \/ (s = topic[1] /\ v = topic)
  <2> HIDE DEF topic, list
  <2>1. \A v : HasItem(Append(list, topic), v) <=> HasItem(list, v) \/ v = topic
    BY <1>4, AppendItems
  <2> DEFINE new == Append(list, topic)
  <2>2. \A s \in Service :
          local_events_by_service'[s] = IF s = topic[1] THEN new ELSE local_events_by_service[s]
    BY <1>1, <1>4 DEF TypeOK
  <2>3. list = local_events_by_service[topic[1]] BY DEF list, topic
  <2> QED BY <2>1, <2>2, <2>3
<1>9. EventLists'
  <2>1. ASSUME NEW s \in Service, NEW q \in Pattern, HasItem(local_events_by_service'[s], q)
        PROVE  q[1] = s /\ \E j \in Id : sub'[j].pc = "done" /\ sub'[j].topic = q /\ ~Removed(j)
    <3>1. CASE HasItem(local_events_by_service[s], q) BY <1>2, <3>1 DEF Kept, EventLists
    <3>2. CASE s = topic[1] /\ q = topic BY <1>2, <1>5, <3>2
    <3> QED BY <1>8, <2>1, <3>1, <3>2
  <2>2. ASSUME NEW j \in Id, sub'[j].pc = "done", ~Removed(j)
        PROVE  \/ HasItem(local_events_by_service'[sub'[j].topic[1]], sub'[j].topic)
               \/ \E k \in Id \ {j} : Removed(k) /\ sub'[k].topic = sub'[j].topic
    <3>0. sub[j].topic[1] \in Service BY Basics, PatternParts
    <3>1. CASE j = i BY <1>2, <1>4, <1>8, <3>1
    <3>2. CASE j # i
      <4>1. sub[j].pc = "done" BY <1>2, <2>2, <3>2
      <4>2. \/ HasItem(local_events_by_service[sub[j].topic[1]], sub[j].topic)
            \/ \E k \in Id \ {j} : Removed(k) /\ sub[k].topic = sub[j].topic
        BY <2>2, <4>1 DEF Kept, EventLists
      <4> QED BY <1>2, <1>8, <3>0, <4>2
    <3> QED BY <3>1, <3>2
  <2> QED BY <1>1, <1>3, <2>1, <2>2 DEF EventLists
<1>10. CallsOnce' BY <1>1 DEF Kept, CallsOnce
<1> QED BY <1>6, <1>7, <1>9, <1>10 DEF Kept

LEMMA FindTopicKept ==
  ASSUME TypeOK, Separate, Kept, NEW i \in Id, NEW a \in Attempt, FindTopic(i, a)
  PROVE  Kept'
<1> DEFINE new == IF subscription_id_to_topic_path[i] = NoTopic
                  THEN [unsub[<<i, a>>] EXCEPT !.pc = "failed"]
                  ELSE [pc |-> "found", topic |-> subscription_id_to_topic_path[i]]
<1>1. /\ sub[i].pc = "done" /\ unsub[<<i, a>>].pc = "none" /\ patterns' = patterns
      /\ unsub' = [unsub EXCEPT ![<<i, a>>] = new] /\ sub' = sub /\ pub' = pub
      /\ local_event_subscriptions' = local_event_subscriptions
      /\ subscription_id_to_topic_path' = subscription_id_to_topic_path
      /\ subscription_id_to_service_topic_path' = subscription_id_to_service_topic_path
      /\ local_events_by_service' = local_events_by_service
  BY DEF FindTopic, maps
<1>2. /\ new.pc \in {"found", "failed"}
      /\ new.pc = "failed" => Removed(i)
      /\ new.pc = "found" => new.topic = sub[i].topic
  <2>1. subscription_id_to_topic_path[i] = IF ~Removed(i) THEN sub[i].topic ELSE NoTopic
    BY <1>1 DEF Kept, IdsAgree
  <2>2. sub[i].topic # NoTopic BY Basics, ConstantsAssumption
  <2>3. unsub[<<i, a>>] \in [pc : {"none", "found", "done", "failed"}, topic : Pattern] BY Basics
  <2> QED BY <2>1, <2>2, <2>3
<1> HIDE DEF new
<1>3. \A j \in Id, b \in Attempt :
        unsub'[<<j, b>>] = IF j = i /\ b = a THEN new ELSE unsub[<<j, b>>]
  BY <1>1 DEF TypeOK
<1>4. \A j \in Id : Removed(j)' <=> Removed(j) BY <1>1, <1>2, <1>3 DEF Removed
<1>5. OwnLists' BY <1>1, <1>4, OwnListsSame DEF Kept
<1>6. IdsAgree'
  <2>1. ASSUME NEW j \in Id, NEW b \in Attempt
        PROVE  /\ unsub'[<<j, b>>].pc # "none" => sub[j].pc = "done"
               /\ unsub'[<<j, b>>].pc \in {"found", "done"} => unsub'[<<j, b>>].topic = sub[j].topic
               /\ unsub'[<<j, b>>].pc = "failed" => Removed(j)
    <3>1. CASE j = i /\ b = a
      <4>1. unsub'[<<j, b>>] = new BY <1>3, <3>1
      <4> QED BY <1>1, <1>2, <3>1, <4>1
    <3>2. CASE ~(j = i /\ b = a)
      <4>1. unsub'[<<j, b>>] = unsub[<<j, b>>] BY <1>3, <3>2
      <4> QED BY <4>1 DEF Kept, IdsAgree
    <3> QED BY <3>1, <3>2
  <2>2. \A j \in Id :
           /\ sub[j].pc # "none" => sub[j].topic \in patterns
           /\ subscription_id_to_topic_path[j] =
                IF sub[j].pc # "none" /\ ~Removed(j) THEN sub[j].topic ELSE NoTopic
           /\ j \in subscription_id_to_service_topic_path <=> sub[j].pc = "done"
    BY DEF Kept, IdsAgree
  <2> QED BY <1>1, <1>4, <2>1, <2>2 DEF IdsAgree
<1>7. EventLists' BY <1>1, <1>4 DEF Kept, EventLists
<1>8. CallsOnce' BY <1>1 DEF Kept, CallsOnce
<1> QED BY <1>5, <1>6, <1>7, <1>8 DEF Kept

\* What there is to remove is in the path's own list.
LEMMA RemoveOwn ==
  ASSUME TypeOK, Separate, Kept, NEW i \in Id, NEW a \in Attempt, NEW literals \in Orders,
         unsub[<<i, a>>].pc = "found"
  PROVE  LET path == unsub[<<i, a>>].topic
             held == local_event_subscriptions[NodeOf(path)]
         IN  /\ path = sub[i].topic /\ path \in patterns /\ sub[i].pc = "done"
             /\ path \in Pattern /\ NodeOf(path) \in Node /\ path[1] \in Service
             /\ FindMatches(local_event_subscriptions, path, literals) = <<>> <=> held = <<>>
             /\ held # <<>> =>
                  FindMatches(local_event_subscriptions, path, literals)[1] = held[1]
<1> DEFINE path == unsub[<<i, a>>].topic
           trie == local_event_subscriptions
           held == trie[NodeOf(path)]
<1>1. path = sub[i].topic /\ path \in patterns /\ sub[i].pc = "done" BY DEF Kept, IdsAgree
<1>2. path \in Pattern /\ NodeOf(path) \in Node /\ path[1] \in Service
  BY <1>1, Basics, PatternParts
<1>3. /\ trie \in IdLists /\ patterns \subseteq Pattern /\ Len(held) <= 1
      /\ \A n \in Node : (\A q \in patterns : n # NodeOf(q)) => trie[n] = <<>>
  BY <1>1, Basics, OwnListParts DEF Kept, OwnLists
<1> HIDE DEF path
<1>4. /\ FindMatches(trie, path, literals) = <<>> <=> held = <<>>
      /\ held # <<>> => FindMatches(trie, path, literals)[1] = held[1]
  BY <1>1, <1>3, OwnSearch
<1> QED BY <1>1, <1>2, <1>4 DEF path

LEMMA FailToRemoveKept ==
  ASSUME TypeOK, Separate, Kept, NEW i \in Id, NEW a \in Attempt, FailToRemove(i, a)
  PROVE  Kept' /\ Removed(i)
<1> DEFINE path == unsub[<<i, a>>].topic
           new == [unsub[<<i, a>>] EXCEPT !.pc = "failed"]
<1>1. /\ unsub[<<i, a>>].pc = "found" /\ patterns' = patterns
      /\ unsub' = [unsub EXCEPT ![<<i, a>>] = new] /\ sub' = sub /\ pub' = pub
      /\ local_event_subscriptions' = local_event_subscriptions
      /\ subscription_id_to_topic_path' = subscription_id_to_topic_path
      /\ subscription_id_to_service_topic_path' = subscription_id_to_service_topic_path
      /\ local_events_by_service' = local_events_by_service
  BY DEF FailToRemove, maps
<1>2. PICK literals \in Orders :
        FindMatches(local_event_subscriptions, path, literals) = <<>>
  BY DEF FailToRemove
<1>3. /\ path = sub[i].topic /\ path \in patterns /\ sub[i].pc = "done"
      /\ local_event_subscriptions[NodeOf(path)] = <<>>
  BY <1>1, <1>2, RemoveOwn
<1>4. Removed(i)
  <2>1. KeptIds(path) = {} BY <1>3, OwnListParts DEF Kept
  <2> QED BY <1>3, <2>1 DEF KeptIds
<1>5. new.pc = "failed"
  <2>1. unsub[<<i, a>>] \in [pc : {"none", "found", "done", "failed"}, topic : Pattern] BY Basics
  <2> QED BY <2>1
<1> HIDE DEF new, path
<1>6. \A j \in Id, b \in Attempt :
        unsub'[<<j, b>>] = IF j = i /\ b = a THEN new ELSE unsub[<<j, b>>]
  BY <1>1 DEF TypeOK
<1>7. \A j \in Id : Removed(j)' <=> Removed(j) BY <1>1, <1>5, <1>6 DEF Removed
<1>8. OwnLists' BY <1>1, <1>7, OwnListsSame DEF Kept
<1>9. IdsAgree'
  <2>1. \A j \in Id, b \in Attempt :
           /\ unsub'[<<j, b>>].pc # "none" => sub[j].pc = "done"
           /\ unsub'[<<j, b>>].pc \in {"found", "done"} => unsub'[<<j, b>>].topic = sub[j].topic
           /\ unsub'[<<j, b>>].pc = "failed" => Removed(j)
    BY <1>3, <1>4, <1>5, <1>6 DEF Kept, IdsAgree
  <2>2. \A j \in Id :
           /\ sub[j].pc # "none" => sub[j].topic \in patterns
           /\ subscription_id_to_topic_path[j] =
                IF sub[j].pc # "none" /\ ~Removed(j) THEN sub[j].topic ELSE NoTopic
           /\ j \in subscription_id_to_service_topic_path <=> sub[j].pc = "done"
    BY DEF Kept, IdsAgree
  <2> QED BY <1>1, <1>7, <2>1, <2>2 DEF IdsAgree
<1>10. EventLists' BY <1>1, <1>7 DEF Kept, EventLists
<1>11. CallsOnce' BY <1>1 DEF Kept, CallsOnce
<1> QED BY <1>4, <1>8, <1>9, <1>10, <1>11 DEF Kept

LEMMA RemoveKept ==
  ASSUME TypeOK, Separate, Kept, NEW i \in Id, NEW a \in Attempt, RemoveSubscription(i, a)
  PROVE  Kept' /\ \A j \in Id : Removed(j)' <=> Removed(j) \/ j = i
<1> DEFINE path == unsub[<<i, a>>].topic
           trie == local_event_subscriptions
           held == trie[NodeOf(path)]
           rest == Without(held[1], i)
           hold == IF rest = <<>> THEN <<>> ELSE <<rest>>
           new == [unsub[<<i, a>>] EXCEPT !.pc = "done"]
           left == Without(local_events_by_service[path[1]], path)
<1>1. /\ unsub[<<i, a>>].pc = "found" /\ patterns' = patterns /\ sub' = sub /\ pub' = pub
      /\ subscription_id_to_service_topic_path' = subscription_id_to_service_topic_path
  BY DEF RemoveSubscription
<1>2. PICK literals \in Orders :
        LET matches == FindMatches(trie, path, literals)
            rst == Without(matches[1], i)
        IN  /\ matches # <<>>
            /\ trie' = IF rst = <<>> THEN RemoveHandlers(trie, path) ELSE Replace(trie, path, rst)
  BY DEF RemoveSubscription
<1>3. /\ path = sub[i].topic /\ path \in patterns /\ sub[i].pc = "done"
      /\ path \in Pattern /\ NodeOf(path) \in Node /\ path[1] \in Service
      /\ FindMatches(trie, path, literals) = <<>> <=> held = <<>>
      /\ held # <<>> => FindMatches(trie, path, literals)[1] = held[1]
  BY <1>1, RemoveOwn
<1>4. held # <<>> /\ FindMatches(trie, path, literals)[1] = held[1] BY <1>2, <1>3
<1>5. trie' = IF rest = <<>> THEN RemoveHandlers(trie, path) ELSE Replace(trie, path, rest)
  BY <1>2, <1>4
<1>6. /\ unsub' = [unsub EXCEPT ![<<i, a>>] = new]
      /\ subscription_id_to_topic_path' = [subscription_id_to_topic_path EXCEPT ![i] = NoTopic]
      /\ local_events_by_service' = IF i \in subscription_id_to_service_topic_path
           THEN [local_events_by_service EXCEPT ![path[1]] = left]
           ELSE local_events_by_service
  BY <1>4 DEF RemoveSubscription
<1>7. i \in subscription_id_to_service_topic_path BY <1>3 DEF Kept, IdsAgree
<1>8. new.pc = "done" /\ new.topic = sub[i].topic
  <2>1. unsub[<<i, a>>] \in [pc : {"none", "found", "done", "failed"}, topic : Pattern] BY Basics
  <2> QED BY <1>3, <2>1
<1>9. DOMAIN trie = Node BY Basics DEF IdLists
<1>10. trie' = [trie EXCEPT ![NodeOf(path)] = hold]
  <2> HIDE DEF rest, path
  <2>1. CASE rest = <<>> BY <1>5, <2>1 DEF RemoveHandlers
  <2>2. CASE rest # <<>>
    <3>1. trie' = [trie EXCEPT ![NodeOf(path)] = Append(<<>>, rest)]
      BY <1>3, <1>5, <1>9, <2>2 DEF Replace, SetValue, RemoveHandlers
    <3>2. Append(<<>>, rest) = <<rest>> OBVIOUS
    <3> QED BY <2>2, <3>1, <3>2
  <2> QED BY <2>1, <2>2
<1>11. Holds(hold, KeptIds(path) \ {i})
  <2>1. Holds(held, KeptIds(path)) BY <1>3 DEF Kept, OwnLists
  <2> HIDE DEF held
  <2> QED BY <1>4, <2>1, HoldsWithout
<1>12. /\ \A s \in Service :
            local_events_by_service'[s] = IF s = path[1] THEN left ELSE local_events_by_service[s]
       /\ \A v : HasItem(left, v) <=> HasItem(local_events_by_service[path[1]], v) /\ v # path
  <2>1. local_events_by_service[path[1]] \in Seq(Pattern) BY <1>3 DEF TypeOK
  <2>2. \A v : HasItem(left, v) <=> HasItem(local_events_by_service[path[1]], v) /\ v # path
    <3> DEFINE list == local_events_by_service[path[1]]
    <3>1. list \in Seq(Pattern) /\ left = Without(list, path) BY <2>1
    <3> HIDE DEF list, path, left
    <3>2. \A v : HasItem(left, v) <=> HasItem(list, v) /\ v # path BY <3>1, WithoutParts
    <3> QED BY <3>2 DEF list
  <2> HIDE DEF left, path
  <2> QED BY <1>3, <1>6, <1>7, <2>2 DEF TypeOK
<1> HIDE DEF path, held, rest, hold, new, left
<1>13. \A j \in Id, b \in Attempt :
         unsub'[<<j, b>>] = IF j = i /\ b = a THEN new ELSE unsub[<<j, b>>]
  BY <1>6 DEF TypeOK
<1>14. \A j \in Id : Removed(j)' <=> Removed(j) \/ j = i
  BY <1>1, <1>8, <1>13 DEF Removed
<1>15. \A q : KeptIds(q)' = IF q = path THEN KeptIds(q) \ {i} ELSE KeptIds(q)
  BY <1>1, <1>3, <1>14 DEF KeptIds
<1>16. OwnLists'
  <2>0. patterns \subseteq Pattern BY Basics
  <2>1. ASSUME NEW q \in patterns' PROVE Holds(trie'[NodeOf(q)], KeptIds(q)')
    <3>1. q \in patterns /\ NodeOf(q) \in Node BY <1>1, <2>0, <2>1, PatternParts
    <3>2. CASE q = path
      <4>1. trie'[NodeOf(q)] = hold BY <1>3, <1>9, <1>10, <3>2
      <4>2. KeptIds(q)' = KeptIds(path) \ {i} BY <1>15, <3>2
      <4> QED BY <1>11, <4>1, <4>2
    <3>3. CASE q # path
      <4>1. NodeOf(q) # NodeOf(path) BY <1>3, <2>0, <3>1, <3>3, SeparateNodes
      <4>2. trie'[NodeOf(q)] = trie[NodeOf(q)] BY <1>9, <1>10, <3>1, <4>1
      <4>3. KeptIds(q)' = KeptIds(q) BY <1>15, <3>3
      <4>4. Holds(trie[NodeOf(q)], KeptIds(q)) BY <3>1 DEF Kept, OwnLists
      <4> QED BY <4>2, <4>3, <4>4
    <3> QED BY <3>2, <3>3
  <2>2. ASSUME NEW n \in Node, \A q \in patterns' : n # NodeOf(q) PROVE trie'[n] = <<>>
    <3>1. n # NodeOf(path) /\ \A q \in patterns : n # NodeOf(q) BY <1>1, <1>3, <2>2
    <3>2. trie[n] = <<>> BY <2>2, <3>1 DEF Kept, OwnLists
    <3> QED BY <1>9, <1>10, <3>1, <3>2
  <2> QED BY <2>1, <2>2 DEF OwnLists
<1>17. IdsAgree'
  <2>1. ASSUME NEW j \in Id, NEW b \in Attempt
        PROVE  /\ unsub'[<<j, b>>].pc # "none" => sub[j].pc = "done"
               /\ unsub'[<<j, b>>].pc \in {"found", "done"} => unsub'[<<j, b>>].topic = sub[j].topic
               /\ unsub'[<<j, b>>].pc = "failed" => Removed(j)'
    <3>1. CASE j = i /\ b = a
      <4>1. unsub'[<<j, b>>] = new BY <1>13, <3>1
      <4> QED BY <1>3, <1>8, <3>1, <4>1
    <3>2. CASE ~(j = i /\ b = a)
      <4>1. unsub'[<<j, b>>] = unsub[<<j, b>>] BY <1>13, <3>2
      <4> QED BY <1>14, <4>1 DEF Kept, IdsAgree
    <3> QED BY <3>1, <3>2
  <2>2. ASSUME NEW j \in Id
        PROVE  /\ sub[j].pc # "none" => sub[j].topic \in patterns
               /\ subscription_id_to_topic_path'[j] =
                    IF sub[j].pc # "none" /\ ~Removed(j)' THEN sub[j].topic ELSE NoTopic
               /\ j \in subscription_id_to_service_topic_path <=> sub[j].pc = "done"
    <3>1. CASE j = i
      <4>1. subscription_id_to_topic_path'[j] = NoTopic BY <1>6, <3>1 DEF TypeOK
      <4> QED BY <1>14, <3>1, <4>1 DEF Kept, IdsAgree
    <3>2. CASE j # i
      <4>1. subscription_id_to_topic_path'[j] = subscription_id_to_topic_path[j]
        BY <1>6, <3>2 DEF TypeOK
      <4>2. Removed(j)' <=> Removed(j) BY <1>14, <3>2
      <4> QED BY <4>1, <4>2 DEF Kept, IdsAgree
    <3> QED BY <3>1, <3>2
  <2> QED BY <1>1, <2>1, <2>2 DEF IdsAgree
<1>18. EventLists'
  <2>1. ASSUME NEW s \in Service, NEW q \in Pattern, HasItem(local_events_by_service'[s], q)
        PROVE  q[1] = s /\ \E j \in Id : sub[j].pc = "done" /\ sub[j].topic = q /\ ~Removed(j)'
    <3>1. HasItem(local_events_by_service[s], q) /\ (s = path[1] => q # path)
      BY <1>12, <2>1
    <3>2. q[1] = s BY <3>1 DEF Kept, EventLists
    <3>3. PICK j \in Id : sub[j].pc = "done" /\ sub[j].topic = q /\ ~Removed(j)
      BY <3>1 DEF Kept, EventLists
    <3>4. j # i BY <1>3, <3>1, <3>2, <3>3
    <3> QED BY <1>14, <3>2, <3>3, <3>4
  <2>2. ASSUME NEW j \in Id, sub[j].pc = "done", ~Removed(j)'
        PROVE  \/ HasItem(local_events_by_service'[sub[j].topic[1]], sub[j].topic)
               \/ \E k \in Id \ {j} : Removed(k)' /\ sub[k].topic = sub[j].topic
    <3>1. j # i /\ ~Removed(j) BY <1>14, <2>2
    <3>2. sub[j].topic \in Pattern /\ sub[j].topic[1] \in Service BY Basics, PatternParts
    <3>3. CASE sub[j].topic = path BY <1>3, <1>14, <3>1, <3>3
    <3>4. CASE sub[j].topic # path
      <4>1. \/ HasItem(local_events_by_service[sub[j].topic[1]], sub[j].topic)
            \/ \E k \in Id \ {j} : Removed(k) /\ sub[k].topic = sub[j].topic
        BY <2>2, <3>1 DEF Kept, EventLists
      <4> QED BY <1>12, <1>14, <3>2, <3>4, <4>1
    <3> QED BY <3>3, <3>4
  <2> QED BY <1>1, <2>1, <2>2 DEF EventLists
<1>19. CallsOnce' BY <1>1 DEF Kept, CallsOnce
<1> QED BY <1>14, <1>16, <1>17, <1>18, <1>19 DEF Kept

-----------------------------------------------------------------------------
\* A topic's events fall under a pattern just as they come to the pattern's node.
LEMMA CoversNode ==
  ASSUME NEW p \in Pattern, NEW t \in Topic
  PROVE  Covers(NodeOf(p), t) <=> Covers(p, t)
<1> DEFINE n == NodeOf(p)
<1>1. p \in Seq(Segment) /\ Len(p) \in Nat /\ Len(p) > 0 /\ DOMAIN p = 1..Len(p)
  BY ConstantsAssumption
<1>2. Len(n) = Len(p) /\ DOMAIN n = 1..Len(p) BY <1>1, NodeOfPath DEF Path
<1>3. \A i \in 1..Len(p) : n[i] = IF p[i] \in Param THEN Template ELSE p[i] BY <1>1 DEF NodeOf
<1> HIDE DEF n
<1>4. \A i \in 1..Len(p) :
        (n[i] = t[i] \/ n[i] \in Param \cup {Star, Template})
          <=> (p[i] = t[i] \/ p[i] \in Param \cup {Star, Template})
  BY <1>3
<1>5. n[Len(n)] = Multi <=> p[Len(p)] = Multi
  <2>1. Len(p) \in 1..Len(p) BY <1>1
  <2>2. p[Len(p)] \in Segment BY <1>1, <2>1
  <2> QED BY <1>2, <1>3, <2>1, <2>2, SegmentAssumption
<1>6. \A i \in 1..(Len(p) - 1) : i \in 1..Len(p) BY <1>1
<1>7. CASE p[Len(p)] = Multi
  <2>1. Covers(n, t) <=> /\ Len(t) >= Len(p)
                         /\ \A i \in 1..(Len(p) - 1) : n[i] = t[i] \/ n[i] \in Param \cup {Star, Template}
    BY <1>2, <1>5, <1>7 DEF Covers
  <2>2. Covers(p, t) <=> /\ Len(t) >= Len(p)
                         /\ \A i \in 1..(Len(p) - 1) : p[i] = t[i] \/ p[i] \in Param \cup {Star, Template}
    BY <1>7 DEF Covers
  <2> QED BY <1>4, <1>6, <2>1, <2>2 DEF n
<1>8. CASE p[Len(p)] # Multi
  <2>1. Covers(n, t) <=> /\ Len(t) = Len(p)
                         /\ \A i \in 1..Len(p) : n[i] = t[i] \/ n[i] \in Param \cup {Star, Template}
    BY <1>2, <1>5, <1>8 DEF Covers
  <2>2. Covers(p, t) <=> /\ Len(t) = Len(p)
                         /\ \A i \in 1..Len(p) : p[i] = t[i] \/ p[i] \in Param \cup {Star, Template}
    BY <1>1, <1>8 DEF Covers
  <2> QED BY <1>4, <2>1, <2>2 DEF n
<1> QED BY <1>7, <1>8

\* An event finds the subscriptions in force under a pattern that covers its topic,
\* each of them once.
LEMMA SubscribersParts ==
  ASSUME TypeOK, Separate, Kept, NEW t \in Topic
  PROVE  /\ Subscribers(t) \in Seq(Id) /\ Distinct(Subscribers(t))
         /\ \A i \in Id : HasItem(Subscribers(t), i) <=>
              sub[i].pc # "none" /\ ~Removed(i) /\ Covers(sub[i].topic, t)
<1> DEFINE trie == local_event_subscriptions
           found == FindExact(trie, t)
           R == Reach(t, <<>>)
<1>1. /\ patterns \subseteq Pattern /\ trie \in IdLists /\ DOMAIN trie = Node
      /\ \A n \in DOMAIN trie : trie[n] \in Seq(Seq(Id))
  BY Basics DEF IdLists
<1>2. found \in Seq(Seq(Id)) /\ Lists(found, trie, R) BY <1>1, TopicSearch
<1>3. \A n \in Node : n \in R <=> Covers(n, t)
  <2>1. t \in Seq(Literal \cup Param)
    <3>1. t \in Seq(Literal) BY ConstantsAssumption
    <3> QED BY <3>1
  <2> QED BY <2>1, ReachCovers
<1>4. ASSUME NEW n \in Node, NEW v, HasItem(trie[n], v)
      PROVE  \E p \in patterns : /\ n = NodeOf(p) /\ trie[n] = <<v>> /\ Distinct(v)
                                 /\ \A i : HasItem(v, i) <=> i \in KeptIds(p)
  <2>1. trie[n] # <<>> BY <1>4 DEF HasItem
  <2>2. PICK p \in patterns : n = NodeOf(p) BY <2>1 DEF Kept, OwnLists
  <2>3. Holds(trie[n], KeptIds(p)) BY <2>2 DEF Kept, OwnLists
  <2>4. PICK list \in Seq(Id) : /\ trie[n] = <<list>> /\ Distinct(list)
                                /\ \A i : HasItem(list, i) <=> i \in KeptIds(p)
    BY <2>1, <2>3 DEF Holds
  <2>5. v = list BY <1>4, <2>4 DEF HasItem
  <2> QED BY <2>2, <2>4, <2>5
<1> DEFINE N == Len(found)
<1>5. N \in Nat /\ DOMAIN found = 1..N /\ \A k \in 1..N : found[k] \in Seq(Id) BY <1>2
<1>6. PICK b \in Bijection(DOMAIN found, Places(trie, R)) :
        \A k \in DOMAIN found : found[k] = trie[b[k][1]][b[k][2]]
  BY <1>2 DEF Lists
<1>7. /\ \A k \in 1..N : b[k] \in Places(trie, R)
      /\ \A j, k \in 1..N : b[j] = b[k] => j = k
  BY <1>5, <1>6 DEF Bijection, Injection, IsInjective
<1> HIDE DEF found, trie, N
<1>8. ASSUME NEW k \in 1..N
      PROVE  \E p \in patterns : /\ Covers(NodeOf(p), t) /\ b[k] = <<NodeOf(p), 1>>
                                 /\ Distinct(found[k])
                                 /\ \A i : HasItem(found[k], i) <=> i \in KeptIds(p)
  <2> DEFINE n == b[k][1]
  <2>1. b[k] = <<n, b[k][2]>> /\ n \in Node /\ n \in R /\ b[k][2] \in DOMAIN trie[n]
    BY <1>1, <1>7 DEF Places
  <2>2. found[k] = trie[n][b[k][2]] BY <1>5, <1>6
  <2> HIDE DEF n
  <2>3. HasItem(trie[n], found[k]) BY <2>1, <2>2 DEF HasItem
  <2>4. PICK p \in patterns : /\ n = NodeOf(p) /\ trie[n] = <<found[k]>> /\ Distinct(found[k])
                              /\ \A i : HasItem(found[k], i) <=> i \in KeptIds(p)
    BY <1>4, <2>1, <2>3
  <2>5. b[k][2] = 1 BY <2>1, <2>4
  <2>6. Covers(NodeOf(p), t) BY <1>3, <2>1, <2>4
  <2> QED BY <2>1, <2>4, <2>5, <2>6
<1>9. Apart(found, N)
  <2>1. \A k \in 1..N : Distinct(found[k]) BY <1>8
  <2>2. ASSUME NEW j \in 1..N, NEW k \in 1..N, NEW v, HasItem(found[j], v), HasItem(found[k], v)
        PROVE  j = k
    <3>1. PICK p \in patterns : /\ b[j] = <<NodeOf(p), 1>>
                                /\ \A i : HasItem(found[j], i) <=> i \in KeptIds(p)
      BY <1>8
    <3>2. PICK q \in patterns : /\ b[k] = <<NodeOf(q), 1>>
                                /\ \A i : HasItem(found[k], i) <=> i \in KeptIds(q)
      BY <1>8
    <3>3. v \in KeptIds(p) /\ v \in KeptIds(q) BY <2>2, <3>1, <3>2
    <3>4. p = q BY <3>3 DEF KeptIds
    <3> QED BY <1>7, <3>1, <3>2, <3>4
  <2> QED BY <2>1, <2>2 DEF Apart
<1>10. /\ Subscribers(t) \in Seq(Id) /\ Distinct(Subscribers(t))
       /\ \A v : HasItem(Subscribers(t), v) <=> \E k \in 1..N : HasItem(found[k], v)
  <2>1. Subscribers(t) = Joined(found, N) BY DEF Subscribers, Flatten, found, trie, N
  <2> QED BY <1>5, <1>9, <2>1, JoinedParts
<1>11. ASSUME NEW i \in Id, NEW k \in 1..N, HasItem(found[k], i)
       PROVE  sub[i].pc # "none" /\ ~Removed(i) /\ Covers(sub[i].topic, t)
  <2>1. PICK p \in patterns : Covers(NodeOf(p), t) /\ i \in KeptIds(p) BY <1>8, <1>11
  <2>2. sub[i].topic = p /\ sub[i].pc # "none" /\ ~Removed(i) BY <2>1 DEF KeptIds
  <2>3. Covers(p, t) BY <1>1, <2>1, CoversNode
  <2> QED BY <2>2, <2>3
<1>12. ASSUME NEW i \in Id, sub[i].pc # "none", ~Removed(i), Covers(sub[i].topic, t)
       PROVE  \E k \in 1..N : HasItem(found[k], i)
  <2> DEFINE p == sub[i].topic
             n == NodeOf(p)
  <2>1. p \in patterns /\ p \in Pattern /\ n \in Node
    BY <1>1, <1>12, PatternParts DEF Kept, IdsAgree
  <2>2. i \in KeptIds(p) BY <1>12 DEF KeptIds
  <2>3. Covers(n, t) BY <1>12, <2>1, CoversNode
  <2>4. Holds(trie[n], KeptIds(p)) BY <2>1 DEF Kept, OwnLists, trie
  <2> HIDE DEF p, n
  <2>5. PICK list \in Seq(Id) : trie[n] = <<list>> /\ HasItem(list, i) BY <2>2, <2>4 DEF Holds
  <2>6. HasItem(At(trie, n), list) BY <1>1, <2>1, <2>5 DEF At, HasItem
  <2>7. n \in R BY <1>3, <2>1, <2>3
  <2>8. HasItem(found, list) BY <1>1, <1>2, <2>6, <2>7, ListsItems
  <2> QED BY <1>5, <2>5, <2>8 DEF HasItem
<1> QED BY <1>10, <1>11, <1>12

LEMMA PublishKept ==
  ASSUME TypeOK, Separate, Kept, NEW u \in Publisher, NEW t \in Topic, Publish(u, t)
  PROVE  Kept'
<1>1. /\ UNCHANGED maps /\ sub' = sub /\ unsub' = unsub /\ patterns' = patterns
      /\ pub' = [pub EXCEPT ![u] = [pc |-> "calling", todo |-> Subscribers(t)]]
  BY DEF Publish
<1>2. \A j \in Id : Removed(j)' <=> Removed(j) BY <1>1 DEF Removed
<1>3. OwnLists' BY <1>1, <1>2, OwnListsSame DEF Kept, maps
<1>4. IdsAgree' BY <1>1, <1>2 DEF Kept, IdsAgree, maps
<1>5. EventLists' BY <1>1, <1>2 DEF Kept, EventLists, maps
<1>6. CallsOnce'
  <2> DEFINE todo == Subscribers(t)
  <2>1. Distinct(todo) BY SubscribersParts
  <2> HIDE DEF todo
  <2>2. \A w \in Publisher :
          pub'[w] = IF w = u THEN [pc |-> "calling", todo |-> todo] ELSE pub[w]
    BY <1>1 DEF TypeOK, todo
  <2>3. \A w \in Publisher :
          Distinct(pub'[w].todo) /\ (pub'[w].pc # "calling" => pub'[w].todo = <<>>)
    BY <2>1, <2>2 DEF Kept, CallsOnce
  <2> QED BY <2>3 DEF CallsOnce
<1> QED BY <1>3, <1>4, <1>5, <1>6 DEF Kept

\* The first of a list without duplicates is gone from the rest.
LEMMA TailParts ==
  ASSUME NEW V, NEW list \in Seq(V), list # <<>>, Distinct(list)
  PROVE  /\ Head(list) \in V /\ Tail(list) \in Seq(V) /\ Distinct(Tail(list))
         /\ \A v : HasItem(Tail(list), v) <=> HasItem(list, v) /\ v # Head(list)
<1>1. Len(list) \in Nat /\ Len(list) > 0 /\ DOMAIN list = 1..Len(list) OBVIOUS
<1>2. /\ Head(list) = list[1] /\ Tail(list) \in Seq(V) /\ Len(Tail(list)) = Len(list) - 1
      /\ \A k \in 1..(Len(list) - 1) : Tail(list)[k] = list[k + 1]
      /\ Head(list) \in V
  OBVIOUS
<1>3. DOMAIN Tail(list) = 1..(Len(list) - 1) BY <1>2
<1>4. \A k \in 1..(Len(list) - 1) : k + 1 \in 1..Len(list) BY <1>1
<1>5. Distinct(Tail(list))
  <2> SUFFICES ASSUME NEW j \in 1..(Len(list) - 1), NEW k \in 1..(Len(list) - 1),
                      Tail(list)[j] = Tail(list)[k]
               PROVE  j = k
    BY <1>3 DEF Distinct
  <2>1. list[j + 1] = list[k + 1] BY <1>2
  <2>2. j + 1 = k + 1 BY <1>1, <1>4, <2>1 DEF Distinct
  <2> QED BY <1>1, <2>2
<1>6. ASSUME NEW v, HasItem(Tail(list), v) PROVE HasItem(list, v) /\ v # Head(list)
  <2>1. PICK k \in 1..(Len(list) - 1) : Tail(list)[k] = v BY <1>3, <1>6 DEF HasItem
  <2>2. k + 1 \in DOMAIN list /\ list[k + 1] = v BY <1>1, <1>2, <1>4, <2>1
  <2>3. k + 1 # 1 /\ 1 \in DOMAIN list BY <1>1
  <2>4. list[1] # v BY <2>2, <2>3 DEF Distinct
  <2> QED BY <1>2, <2>2, <2>4 DEF HasItem
<1>7. ASSUME NEW v, HasItem(list, v), v # Head(list) PROVE HasItem(Tail(list), v)
  <2>1. PICK k \in 1..Len(list) : list[k] = v BY <1>1, <1>7 DEF HasItem
  <2>2. k # 1 BY <1>2, <1>7, <2>1
  <2> DEFINE j == k - 1
  <2>3. j \in 1..(Len(list) - 1) /\ j + 1 = k BY <1>1, <2>1, <2>2
  <2> HIDE DEF j
  <2>4. Tail(list)[j] = v BY <1>2, <2>1, <2>3
  <2> QED BY <1>3, <2>3, <2>4 DEF HasItem
<1> QED BY <1>2, <1>5, <1>6, <1>7

LEMMA CallBackKept ==
  ASSUME TypeOK, Kept, NEW u \in Publisher, CallBack(u)
  PROVE  Kept'
<1>1. /\ UNCHANGED maps /\ sub' = sub /\ unsub' = unsub /\ patterns' = patterns
      /\ pub[u].todo # <<>> /\ pub' = [pub EXCEPT ![u].todo = Tail(pub[u].todo)]
  BY DEF CallBack
<1>2. \A j \in Id : Removed(j)' <=> Removed(j) BY <1>1 DEF Removed
<1>3. OwnLists' BY <1>1, <1>2, OwnListsSame DEF Kept, maps
<1>4. IdsAgree' BY <1>1, <1>2 DEF Kept, IdsAgree, maps
<1>5. EventLists' BY <1>1, <1>2 DEF Kept, EventLists, maps
<1>6. CallsOnce'
  <2>1. pub[u].todo \in Seq(Id) BY DEF TypeOK
  <2>2. Distinct(Tail(pub[u].todo)) BY <1>1, <2>1, TailParts DEF Kept, CallsOnce
  <2>3. pub[u].pc = "calling" BY <1>1 DEF Kept, CallsOnce
  <2>4. \A w \in Publisher : /\ pub'[w].pc = pub[w].pc
                             /\ pub'[w].todo = IF w = u THEN Tail(pub[u].todo) ELSE pub[w].todo
    BY <1>1 DEF TypeOK
  <2>5. \A w \in Publisher :
          Distinct(pub'[w].todo) /\ (pub'[w].pc # "calling" => pub'[w].todo = <<>>)
    BY <2>2, <2>3, <2>4 DEF Kept, CallsOnce
  <2> QED BY <2>5 DEF CallsOnce
<1> QED BY <1>3, <1>4, <1>5, <1>6 DEF Kept

LEMMA ReturnKept ==
  ASSUME TypeOK, Kept, NEW u \in Publisher, Return(u)
  PROVE  Kept'
<1>1. /\ UNCHANGED maps /\ sub' = sub /\ unsub' = unsub /\ patterns' = patterns
      /\ pub[u].todo = <<>> /\ pub' = [pub EXCEPT ![u].pc = "done"]
  BY DEF Return
<1>2. \A j \in Id : Removed(j)' <=> Removed(j) BY <1>1 DEF Removed
<1>3. OwnLists' BY <1>1, <1>2, OwnListsSame DEF Kept, maps
<1>4. IdsAgree' BY <1>1, <1>2 DEF Kept, IdsAgree, maps
<1>5. EventLists' BY <1>1, <1>2 DEF Kept, EventLists, maps
<1>6. CallsOnce'
  <2>1. \A w \in Publisher : /\ pub'[w].todo = pub[w].todo
                             /\ w # u => pub'[w].pc = pub[w].pc
    BY <1>1 DEF TypeOK
  <2>2. \A w \in Publisher :
          Distinct(pub'[w].todo) /\ (pub'[w].pc # "calling" => pub'[w].todo = <<>>)
    BY <1>1, <2>1 DEF Kept, CallsOnce
  <2> QED BY <2>2 DEF CallsOnce
<1> QED BY <1>3, <1>4, <1>5, <1>6 DEF Kept

LEMMA KeptStep == TypeOK /\ KeptInv /\ [Next]_vars => KeptInv'
<1> SUFFICES ASSUME TypeOK, KeptInv, [Next]_vars, Separate' PROVE Kept' BY DEF KeptInv
<1>1. patterns' = patterns
  BY DEF Next, Subscribe, ListEvent, FindTopic, RemoveSubscription, FailToRemove, CallBack,
         Return, Publish, vars
<1>2. Separate BY <1>1 DEF Separate
<1>3. Kept BY <1>2 DEF KeptInv
<1>4. CASE UNCHANGED vars
  <2>1. \A j \in Id : Removed(j)' <=> Removed(j) BY <1>4 DEF Removed, vars
  <2>2. OwnLists' BY <1>3, <1>4, <2>1, OwnListsSame DEF Kept, vars
  <2>3. IdsAgree' BY <1>3, <1>4, <2>1 DEF Kept, IdsAgree, vars
  <2>4. EventLists' BY <1>3, <1>4, <2>1 DEF Kept, EventLists, vars
  <2>5. CallsOnce' BY <1>3, <1>4 DEF Kept, CallsOnce, vars
  <2> QED BY <2>2, <2>3, <2>4, <2>5 DEF Kept
<1> QED BY <1>2, <1>3, <1>4, SubscribeKept, ListEventKept, FindTopicKept, RemoveKept,
           FailToRemoveKept, PublishKept, CallBackKept, ReturnKept DEF Next

LEMMA KeptAlways == Spec => [](TypeOK /\ KeptInv)
BY InitType, TypeStep, InitKept, KeptStep, PTL DEF Spec

-----------------------------------------------------------------------------
(***************************************************************************)
(* What follows for events.                                                *)
(***************************************************************************)

LEMMA GoneRemoved ==
  ASSUME TypeOK, Kept, NEW i \in Id
  PROVE  /\ Gone(i) <=> Removed(i)
         /\ InForce(i) <=> sub[i].pc = "done" /\ ~Removed(i)
<1>1. Gone(i) <=> Removed(i) BY DEF Kept, IdsAgree, Gone, Removed
<1>2. \A a \in Attempt : unsub[<<i, a>>].pc \in {"none", "found", "done", "failed"} BY Basics
<1>3. (\A a \in Attempt : unsub[<<i, a>>].pc \in {"none", "found"}) <=> ~Gone(i)
  BY <1>2 DEF Gone
<1> QED BY <1>1, <1>3 DEF InForce

LEMMA CountParts ==
  ASSUME NEW V, NEW list \in Seq(V), NEW v
  PROVE  /\ Count(v, list) > 0 <=> HasItem(list, v)
         /\ Count(v, list) = 0 <=> ~HasItem(list, v)
         /\ Distinct(list) /\ HasItem(list, v) => Count(v, list) = 1
<1> DEFINE S == {k \in DOMAIN list : list[k] = v}
<1>1. IsFiniteSet(S) /\ Cardinality(S) \in Nat
  <2>1. DOMAIN list = 1..Len(list) /\ Len(list) \in Nat OBVIOUS
  <2>2. IsFiniteSet(1..Len(list)) BY <2>1, FS_Interval
  <2>3. S \subseteq 1..Len(list) BY <2>1
  <2> QED BY <2>2, <2>3, FS_Subset, FS_CardinalityType
<1>2. Cardinality(S) = 0 <=> S = {} BY <1>1, FS_EmptySet
<1>3. S = {} <=> ~HasItem(list, v) BY DEF HasItem
<1>4. ASSUME Distinct(list), HasItem(list, v) PROVE Cardinality(S) = 1
  <2>1. PICK k \in DOMAIN list : list[k] = v BY <1>4 DEF HasItem
  <2>2. S = {k} BY <1>4, <2>1 DEF Distinct
  <2> QED BY <2>2, FS_Singleton
<1> HIDE DEF S
<1>5. Count(v, list) = Cardinality(S) BY DEF Count, S
<1> QED BY <1>1, <1>2, <1>3, <1>4, <1>5

LEMMA ExactFollows == TypeOK /\ KeptInv => SubscribersExact
<1> SUFFICES ASSUME TypeOK, Kept, Separate, NEW t \in Topic, NEW i \in Id
             PROVE  /\ InForce(i) /\ Covers(sub[i].topic, t) => Count(i, Subscribers(t)) = 1
                    /\ Gone(i) => Count(i, Subscribers(t)) = 0
  BY DEF SubscribersExact, KeptInv
<1> DEFINE found == Subscribers(t)
<1>1. /\ found \in Seq(Id) /\ Distinct(found)
      /\ HasItem(found, i) <=> sub[i].pc # "none" /\ ~Removed(i) /\ Covers(sub[i].topic, t)
  BY SubscribersParts
<1> HIDE DEF found
<1>2. /\ Count(i, found) = 0 <=> ~HasItem(found, i)
      /\ HasItem(found, i) => Count(i, found) = 1
  BY <1>1, CountParts
<1> QED BY <1>1, <1>2, GoneRemoved DEF found

\* get_local_event_subscribers (service_registry.rs) under every interleaving of calls
\* of subscribe and unsubscribe for separate patterns: between the return of subscribe
\* and the effect of unsubscribe an event of a covered topic finds the subscription
\* once, and once unsubscribe has returned no event finds it.
THEOREM EventsReachSubscribers == Spec => []SubscribersExact
BY KeptAlways, ExactFollows, PTL

\* The trie of metadata has one node for each service and one list there.
LEMMA MetadataItems ==
  ASSUME TypeOK, NEW s \in Service
  PROVE  /\ EventsMetadata(<<s>>, <<>>) \in Seq(Pattern)
         /\ \A v : HasItem(EventsMetadata(<<s>>, <<>>), v) <=> HasItem(local_events_by_service[s], v)
<1> DEFINE Nodes == {<<x>> : x \in Service}
           trie == [node \in Nodes |-> <<local_events_by_service[node[1]]>>]
           path == <<s>>
           found == FindMatches(trie, path, <<>>)
<1>1. /\ Service \subseteq Literal
      /\ \A x \in Service : local_events_by_service[x] \in Seq(Pattern)
  BY ConstantsAssumption DEF TypeOK, Service
<1>2. \A n \in Nodes : trie[n] \in Seq(Seq(Pattern))
  BY <1>1
<1>3. path \in Seq(Literal \cup Param) /\ path \in Nodes /\ Len(path) = 1 /\ path[1] = s
  BY <1>1
<1>4. ~IsPattern(path)
  <2>1. s \notin {Star, Multi} BY <1>1, SegmentAssumption
  <2>2. DOMAIN path = {1} BY <1>3
  <2> QED BY <1>3, <2>1, <2>2 DEF IsPattern
<1>5. found = FindExact(trie, path) BY <1>4 DEF FindMatches
<1>6. trie[path] = <<local_events_by_service[s]>> BY <1>3
<1>7. \A n \in Nodes : n \in Path /\ Len(n) = 1 /\ n[1] \in Service /\ n = <<n[1]>>
  <2> SUFFICES ASSUME NEW x \in Service
               PROVE  <<x>> \in Path /\ Len(<<x>>) = 1 /\ <<x>>[1] = x
    OBVIOUS
  <2>1. x \in Key BY <1>1 DEF Key, Segment
  <2> QED BY <2>1 DEF Path
<1>8. DOMAIN trie = Nodes OBVIOUS
<1> HIDE DEF trie, path, found, Nodes
<1>9. found \in Seq(Seq(Pattern)) /\ Lists(found, trie, Reach(path, <<>>))
  BY <1>2, <1>3, <1>5, <1>8, ExactLists
<1>10. \A n \in Nodes : n \in Reach(path, <<>>) <=> n = path
  <2> SUFFICES ASSUME NEW n \in Nodes PROVE n \in Reach(path, <<>>) <=> n = path OBVIOUS
  <2>1. n \in Path /\ Len(n) = 1 /\ n[1] \in Literal /\ Len(<<>>) = 0 BY <1>1, <1>7
  <2>2. n[1] \notin {Star, Multi, Template} BY <2>1, SegmentAssumption
  <2>3. n \in Reach(path, <<>>) <=> n[1] = s
    <3> DEFINE root == <<>>
    <3>1. Len(root) = 0 OBVIOUS
    <3> HIDE DEF root
    <3>2. n \in Reach(path, root) <=>
            /\ 0 <= 1 /\ 1 <= 1
            /\ \A i \in 1..0 : n[i] = root[i]
            /\ \A i \in (0 + 1)..(1 - 1) : n[i] \in {path[i], Star, Template}
            /\ IF 1 = 0 THEN 1 = 1
               ELSE n[1] = Multi \/ (1 = 1 /\ n[1] \in {path[1], Star, Template})
      <4>1. n \in Path /\ Len(n) = 1 /\ Len(path) = 1 BY <1>3, <2>1
      <4> HIDE DEF Path
      <4> QED BY <3>1, <4>1, Zenon DEF Reach
    <3>3. 1..0 = {} /\ (0 + 1)..(1 - 1) = {} OBVIOUS
    <3>4. n \in Reach(path, root) <=> n[1] = Multi \/ n[1] \in {s, Star, Template}
      BY <1>3, <3>2, <3>3
    <3> QED BY <2>2, <3>4 DEF root
  <2>4. n[1] = s <=> n = path BY <1>7 DEF path
  <2> QED BY <2>3, <2>4
<1>11. \A v : HasItem(found, v) <=> v = local_events_by_service[s]
  <2>1. \A v : HasItem(found, v) <=> \E n \in Reach(path, <<>>) : HasItem(At(trie, n), v)
    BY <1>2, <1>8, <1>9, ListsItems
  <2>2. \A n, v : HasItem(At(trie, n), v) => n \in Nodes BY <1>8 DEF At, HasItem
  <2>3. \A v : HasItem(At(trie, path), v) <=> v = local_events_by_service[s]
    BY <1>3, <1>6, <1>8 DEF At, HasItem
  <2> QED BY <1>3, <1>10, <2>1, <2>2, <2>3
<1>12. DOMAIN found = 1..Len(found) /\ Len(found) \in Nat BY <1>9
<1> DEFINE order == [i \in DOMAIN found |-> i]
<1>13. /\ order \in Seq(DOMAIN found) /\ DOMAIN order = DOMAIN found
       /\ \A i \in DOMAIN order : order[i] = i
  BY <1>12
<1>14. \A i \in DOMAIN found : found[i] \in Seq(Pattern) BY <1>9
<1> HIDE DEF order
<1>15. /\ Concat(found, order) \in Seq(Pattern)
       /\ \A v : HasItem(Concat(found, order), v)
                   <=> \E i \in DOMAIN order : HasItem(found[order[i]], v)
  BY <1>13, <1>14, ConcatParts
<1>16. \A v : (\E i \in DOMAIN order : HasItem(found[order[i]], v))
                <=> HasItem(local_events_by_service[s], v)
  <2>1. \A i \in DOMAIN found : found[i] = local_events_by_service[s] BY <1>11 DEF HasItem
  <2>2. PICK i \in DOMAIN found : found[i] = local_events_by_service[s] BY <1>11 DEF HasItem
  <2> QED BY <1>13, <2>1, <2>2
<1>17. EventsMetadata(<<s>>, <<>>) = Concat(found, order)
  BY DEF EventsMetadata, found, trie, path, order, Nodes
<1> QED BY <1>15, <1>16, <1>17

LEMMA ListedFollows == TypeOK /\ KeptInv => EventsListed
<1> SUFFICES ASSUME TypeOK, Kept, Separate PROVE EventsListed BY DEF EventsListed, KeptInv
<1> DEFINE listed(s) == EventsMetadata(<<s>>, <<>>)
<1>1. \A s \in Service : \A v : Count(v, listed(s)) > 0 <=> HasItem(local_events_by_service[s], v)
  BY MetadataItems, CountParts
<1> HIDE DEF listed
<1>2. ASSUME NEW i \in Id, InForce(i)
      PROVE  \/ Count(sub[i].topic, listed(sub[i].topic[1])) > 0
             \/ \E j \in Id \ {i} : Gone(j) /\ sub[j].topic = sub[i].topic
  <2>1. sub[i].topic[1] \in Service BY Basics, PatternParts
  <2>2. sub[i].pc = "done" /\ ~Removed(i) BY <1>2, GoneRemoved
  <2> QED BY <1>1, <2>1, <2>2, GoneRemoved DEF Kept, EventLists
<1>3. ASSUME NEW s \in Service, NEW p \in Pattern, Count(p, listed(s)) > 0
      PROVE  \E i \in Id : sub[i].topic = p /\ sub[i].pc = "done" /\ ~Gone(i)
  BY <1>1, <1>3, GoneRemoved DEF Kept, EventLists
<1> QED BY <1>2, <1>3 DEF EventsListed, listed

\* get_events_metadata (service_registry.rs), for separate patterns: the metadata of
\* every subscription in force are there unless another one of the same path was
\* cancelled, and none is there that stands for no subscription.
THEOREM MetadataFollow == Spec => []EventsListed
BY KeptAlways, ListedFollows, PTL

-----------------------------------------------------------------------------
(***************************************************************************)
(* Subscriptions of separate patterns keep the promise of PubSub.          *)
(***************************************************************************)

Due == [u \in Publisher |-> {pub[u].todo[k] : k \in DOMAIN pub[u].todo}]

LEMMA DueItems ==
  ASSUME TypeOK, NEW u \in Publisher
  PROVE  \A v : v \in Due[u] <=> HasItem(pub[u].todo, v)
BY DEF Due, HasItem

LEMMA InitPromise == Init => Promise!Init
<1> SUFFICES ASSUME Init PROVE Promise!Init OBVIOUS
<1>1. Live = {} BY DEF Init, Live
<1>2. Due = [u \in Publisher |-> {}] BY DEF Init, Due
<1> QED BY <1>1, <1>2 DEF Promise!Init, Init, Due

\* The subscriptions in force.
NotRemoved == {<<i, sub[i].topic>> : i \in {j \in Id : sub[j].pc # "none" /\ ~Removed(j)}}

LEMMA LiveItems ==
  ASSUME TypeOK, Kept
  PROVE  Live = NotRemoved
<1>1. {j \in Id : sub[j].pc # "none" /\ ~Gone(j)} = {j \in Id : sub[j].pc # "none" /\ ~Removed(j)}
  BY GoneRemoved
<1> QED BY <1>1 DEF Live, NotRemoved

LEMMA LiveItemsNext == TypeOK' /\ Kept' => Live' = NotRemoved'
<1>1. TypeOK /\ Kept => Live = NotRemoved BY LiveItems
<1>2. (TypeOK /\ Kept => Live = NotRemoved)' BY <1>1, PTL
<1> QED BY <1>2

\* Steps that change neither the subscriptions in force nor what is to be called.
LEMMA PromiseSame ==
  ASSUME TypeOK, Kept, TypeOK', Kept', pub' = pub, calls' = calls,
         \A j \in Id : /\ sub'[j].pc = "none" <=> sub[j].pc = "none"
                       /\ sub'[j].topic = sub[j].topic
                       /\ Removed(j)' <=> Removed(j)
  PROVE  UNCHANGED Promise!vars
<1>1. Live' = {<<i, sub'[i].topic>> : i \in {j \in Id : sub'[j].pc # "none" /\ ~Removed(j)'}}
  BY LiveItems, LiveItemsNext DEF NotRemoved
<1>2. {j \in Id : sub'[j].pc # "none" /\ ~Removed(j)'} = {j \in Id : sub[j].pc # "none" /\ ~Removed(j)}
  OBVIOUS
<1>3. Live' = Live BY <1>1, <1>2, LiveItems DEF NotRemoved
<1>4. Due' = Due BY DEF Due
<1> QED BY <1>3, <1>4 DEF Promise!vars, Due

LEMMA SubscribePromise ==
  ASSUME TypeOK, Kept, TypeOK', Kept', NEW i \in Id, NEW p \in Pattern, Subscribe(i, p)
  PROVE  Promise!Subscribe(i, p)
<1>1. /\ sub[i].pc = "none" /\ sub' = [sub EXCEPT ![i] = [pc |-> "written", topic |-> p]]
      /\ unsub' = unsub /\ pub' = pub /\ calls' = calls
  BY DEF Subscribe
<1>2. \A j \in Id : sub'[j] = IF j = i THEN [pc |-> "written", topic |-> p] ELSE sub[j]
  BY <1>1 DEF TypeOK
<1>3. \A j \in Id : Removed(j)' <=> Removed(j) BY <1>1 DEF Removed
<1>4. ~Removed(i) BY <1>1 DEF Kept, IdsAgree, Removed
<1>5. /\ Live = {<<j, sub[j].topic>> : j \in {k \in Id : sub[k].pc # "none" /\ ~Removed(k)}}
      /\ Live' = {<<j, sub'[j].topic>> : j \in {k \in Id : sub'[k].pc # "none" /\ ~Removed(k)'}}
  BY LiveItems, LiveItemsNext DEF NotRemoved
<1>6. \A s \in Live : s[1] # i BY <1>1, <1>5
<1>7. Live' = Live \cup {<<i, p>>}
  <2>1. \A s \in Live' : s \in Live \cup {<<i, p>>} BY <1>2, <1>3, <1>5
  <2>2. \A s \in Live : s \in Live' BY <1>1, <1>2, <1>3, <1>5
  <2>3. <<i, p>> \in Live' BY <1>2, <1>3, <1>4, <1>5
  <2> QED BY <2>1, <2>2, <2>3
<1>8. Due' = Due BY <1>1 DEF Due
<1> QED BY <1>1, <1>6, <1>7, <1>8 DEF Promise!Subscribe, Due

LEMMA RemovePromise ==
  ASSUME TypeOK, Kept, TypeOK', Kept', NEW i \in Id, NEW a \in Attempt, RemoveSubscription(i, a),
         \A j \in Id : Removed(j)' <=> Removed(j) \/ j = i
  PROVE  Promise!Unsubscribe(i)
<1>1. sub' = sub /\ pub' = pub /\ calls' = calls BY DEF RemoveSubscription
<1>2. /\ Live = {<<j, sub[j].topic>> : j \in {k \in Id : sub[k].pc # "none" /\ ~Removed(k)}}
      /\ Live' = {<<j, sub'[j].topic>> : j \in {k \in Id : sub'[k].pc # "none" /\ ~Removed(k)'}}
  BY LiveItems, LiveItemsNext DEF NotRemoved
<1>3. Live' = {s \in Live : s[1] # i}
  <2>1. \A s \in Live' : s \in Live /\ s[1] # i BY <1>1, <1>2
  <2>2. \A s \in Live : s[1] # i => s \in Live' BY <1>1, <1>2
  <2> QED BY <2>1, <2>2
<1>4. Due' = Due BY <1>1 DEF Due
<1> QED BY <1>1, <1>3, <1>4 DEF Promise!Unsubscribe, Due

LEMMA PublishPromise ==
  ASSUME TypeOK, Separate, Kept, TypeOK', Kept', NEW u \in Publisher, NEW t \in Topic,
         Publish(u, t)
  PROVE  Promise!Publish(u, t)
<1> DEFINE todo == Subscribers(t)
           covered == {s[1] : s \in {r \in Live : Covers(r[2], t)}}
<1>1. /\ pub[u].pc = "none" /\ sub' = sub /\ unsub' = unsub /\ calls' = calls
      /\ pub' = [pub EXCEPT ![u] = [pc |-> "calling", todo |-> todo]]
  BY DEF Publish
<1>2. /\ todo \in Seq(Id)
      /\ \A i \in Id : HasItem(todo, i) <=>
            sub[i].pc # "none" /\ ~Removed(i) /\ Covers(sub[i].topic, t)
  BY SubscribersParts
<1> HIDE DEF todo
<1>3. pub[u].todo = <<>> BY <1>1 DEF Kept, CallsOnce
<1>4. Due[u] = {} BY <1>3 DEF Due
<1>5. \A w \in Publisher : pub'[w] = IF w = u THEN [pc |-> "calling", todo |-> todo] ELSE pub[w]
  BY <1>1 DEF TypeOK
<1>6. Live = {<<j, sub[j].topic>> : j \in {k \in Id : sub[k].pc # "none" /\ ~Removed(k)}}
  BY LiveItems, LiveItemsNext DEF NotRemoved
<1>7. \A i : i \in covered <=>
        i \in Id /\ sub[i].pc # "none" /\ ~Removed(i) /\ Covers(sub[i].topic, t)
  <2>1. ASSUME NEW i \in covered
        PROVE  i \in Id /\ sub[i].pc # "none" /\ ~Removed(i) /\ Covers(sub[i].topic, t)
    <3>1. PICK s \in Live : Covers(s[2], t) /\ i = s[1] OBVIOUS
    <3> HIDE DEF covered
    <3>2. PICK j \in Id : s = <<j, sub[j].topic>> /\ sub[j].pc # "none" /\ ~Removed(j)
      BY <1>6
    <3>3. s[1] = j /\ s[2] = sub[j].topic BY <3>2
    <3> QED BY <3>1, <3>2, <3>3
  <2>2. ASSUME NEW i \in Id, sub[i].pc # "none", ~Removed(i), Covers(sub[i].topic, t)
        PROVE  i \in covered
    <3> DEFINE s == <<i, sub[i].topic>>
    <3>1. s \in Live BY <1>6, <2>2
    <3>2. s[1] = i /\ s[2] = sub[i].topic OBVIOUS
    <3> HIDE DEF s
    <3> QED BY <2>2, <3>1, <3>2
  <2> HIDE DEF covered
  <2> QED BY <2>1, <2>2
<1> HIDE DEF covered
<1>8. \A i : HasItem(todo, i) => i \in Id BY <1>2 DEF HasItem
<1>9. {todo[k] : k \in DOMAIN todo} = covered
  <2>1. \A i : i \in {todo[k] : k \in DOMAIN todo} <=> HasItem(todo, i) BY DEF HasItem
  <2> QED BY <1>2, <1>7, <1>8, <2>1
<1>10. Due' = [Due EXCEPT ![u] = covered]
  <2>1. Due' = [w \in Publisher |-> {pub'[w].todo[k] : k \in DOMAIN pub'[w].todo}] BY DEF Due
  <2>2. \A w \in Publisher : {pub'[w].todo[k] : k \in DOMAIN pub'[w].todo}
                               = IF w = u THEN covered ELSE Due[w]
    <3>1. ASSUME NEW w \in Publisher, w = u
          PROVE  {pub'[w].todo[k] : k \in DOMAIN pub'[w].todo} = covered
      <4>1. pub'[w].todo = todo BY <1>5, <3>1
      <4> QED BY <1>9, <4>1
    <3>2. ASSUME NEW w \in Publisher, w # u
          PROVE  {pub'[w].todo[k] : k \in DOMAIN pub'[w].todo} = Due[w]
      BY <1>5, <3>2 DEF Due
    <3> QED BY <3>1, <3>2
  <2> QED BY <2>1, <2>2 DEF Due
<1>11. Live' = Live
  <2>1. \A j \in Id : Removed(j)' <=> Removed(j) BY <1>1 DEF Removed
  <2>2. Live' = {<<i, sub'[i].topic>> : i \in {j \in Id : sub'[j].pc # "none" /\ ~Removed(j)'}}
    BY LiveItems, LiveItemsNext DEF NotRemoved
  <2>3. {j \in Id : sub'[j].pc # "none" /\ ~Removed(j)'} = {j \in Id : sub[j].pc # "none" /\ ~Removed(j)}
    BY <1>1, <2>1
  <2> QED BY <1>1, <1>6, <2>2, <2>3
<1> QED BY <1>1, <1>4, <1>10, <1>11 DEF Promise!Publish, Due, covered

LEMMA CallBackPromise ==
  ASSUME TypeOK, Kept, TypeOK', Kept', NEW u \in Publisher, CallBack(u)
  PROVE  \E i \in Id : Promise!Deliver(u, i)
<1> DEFINE todo == pub[u].todo
           i == Head(todo)
<1>1. /\ todo # <<>> /\ sub' = sub /\ unsub' = unsub
      /\ pub' = [pub EXCEPT ![u].todo = Tail(todo)]
      /\ calls' = [calls EXCEPT ![i] = calls[i] + 1]
  BY DEF CallBack
<1>2. todo \in Seq(Id) /\ Distinct(todo) BY DEF TypeOK, Kept, CallsOnce
<1>3. /\ i \in Id
      /\ \A v : HasItem(Tail(todo), v) <=> HasItem(todo, v) /\ v # i
  BY <1>1, <1>2, TailParts
<1>4. HasItem(todo, i) BY <1>1, <1>2 DEF HasItem
<1> HIDE DEF i
<1>5. i \in Due[u] BY <1>4, DueItems
<1>6. \A w \in Publisher : pub'[w].todo = IF w = u THEN Tail(todo) ELSE pub[w].todo
  BY <1>1 DEF TypeOK
<1>7. Due' = [Due EXCEPT ![u] = Due[u] \ {i}]
  <2>1. Due' = [w \in Publisher |-> {pub'[w].todo[k] : k \in DOMAIN pub'[w].todo}] BY DEF Due
  <2>2. {Tail(todo)[k] : k \in DOMAIN Tail(todo)} = Due[u] \ {i}
    <3>1. \A v : v \in {Tail(todo)[k] : k \in DOMAIN Tail(todo)} <=> HasItem(Tail(todo), v)
      BY DEF HasItem
    <3> QED BY <1>3, <3>1, DueItems
  <2>3. \A w \in Publisher : {pub'[w].todo[k] : k \in DOMAIN pub'[w].todo}
                               = IF w = u THEN Due[u] \ {i} ELSE Due[w]
    <3> HIDE DEF todo
    <3>1. ASSUME NEW w \in Publisher, w = u
          PROVE  {pub'[w].todo[k] : k \in DOMAIN pub'[w].todo} = Due[u] \ {i}
      <4>1. pub'[w].todo = Tail(todo) BY <1>6, <3>1
      <4> QED BY <2>2, <4>1
    <3>2. ASSUME NEW w \in Publisher, w # u
          PROVE  {pub'[w].todo[k] : k \in DOMAIN pub'[w].todo} = Due[w]
      BY <1>6, <3>2 DEF Due
    <3> QED BY <3>1, <3>2
  <2> QED BY <2>1, <2>3 DEF Due
<1>8. Live' = Live
  <2>1. \A j \in Id : Removed(j)' <=> Removed(j) BY <1>1 DEF Removed
  <2>2. /\ Live' = {<<j, sub'[j].topic>> : j \in {k \in Id : sub'[k].pc # "none" /\ ~Removed(k)'}}
        /\ Live = {<<j, sub[j].topic>> : j \in {k \in Id : sub[k].pc # "none" /\ ~Removed(k)}}
    BY LiveItems, LiveItemsNext DEF NotRemoved
  <2>3. {j \in Id : sub'[j].pc # "none" /\ ~Removed(j)'} = {j \in Id : sub[j].pc # "none" /\ ~Removed(j)}
    BY <1>1, <2>1
  <2> QED BY <1>1, <2>2, <2>3
<1> QED BY <1>1, <1>3, <1>5, <1>7, <1>8 DEF Promise!Deliver, Due

LEMMA PromiseStep ==
  TypeOK /\ TypeOK' /\ KeptInv /\ KeptInv' /\ [Next]_vars => [Separate => Promise!Next]_(Promise!vars)
<1> SUFFICES ASSUME TypeOK, TypeOK', KeptInv, KeptInv', [Next]_vars, Separate
             PROVE  Promise!Next \/ UNCHANGED Promise!vars
  OBVIOUS
<1>1. patterns' = patterns
  BY DEF Next, Subscribe, ListEvent, FindTopic, RemoveSubscription, FailToRemove, CallBack,
         Return, Publish, vars
<1>2. Kept /\ Kept'
  <2>1. Separate' BY <1>1 DEF Separate
  <2> QED BY <2>1 DEF KeptInv
<1>3. ASSUME NEW i \in Id, NEW p \in Pattern, Subscribe(i, p) PROVE Promise!Next
  BY <1>2, <1>3, SubscribePromise DEF Promise!Next
<1>4. ASSUME NEW i \in Id, ListEvent(i) PROVE UNCHANGED Promise!vars
  <2>1. /\ sub[i].pc = "written" /\ sub' = [sub EXCEPT ![i].pc = "done"]
        /\ unsub' = unsub /\ pub' = pub /\ calls' = calls
    BY <1>4 DEF ListEvent
  <2>2. \A j \in Id : /\ sub'[j].topic = sub[j].topic
                      /\ sub'[j].pc = IF j = i THEN "done" ELSE sub[j].pc
    BY <2>1 DEF TypeOK
  <2>3. \A j \in Id : Removed(j)' <=> Removed(j) BY <2>1 DEF Removed
  <2> QED BY <1>2, <2>1, <2>2, <2>3, PromiseSame
<1>5. ASSUME NEW i \in Id, NEW a \in Attempt, FindTopic(i, a) PROVE UNCHANGED Promise!vars
  <2>1. /\ unsub[<<i, a>>].pc = "none" /\ sub' = sub /\ pub' = pub /\ calls' = calls
    BY <1>5 DEF FindTopic
  <2> DEFINE new == IF subscription_id_to_topic_path[i] = NoTopic
                    THEN [unsub[<<i, a>>] EXCEPT !.pc = "failed"]
                    ELSE [pc |-> "found", topic |-> subscription_id_to_topic_path[i]]
  <2>2. unsub' = [unsub EXCEPT ![<<i, a>>] = new] BY <1>5 DEF FindTopic
  <2>3. new.pc # "done"
    <3>1. unsub[<<i, a>>] \in [pc : {"none", "found", "done", "failed"}, topic : Pattern] BY Basics
    <3> QED BY <3>1
  <2> HIDE DEF new
  <2>4. \A j \in Id, b \in Attempt :
          unsub'[<<j, b>>] = IF j = i /\ b = a THEN new ELSE unsub[<<j, b>>]
    BY <2>2 DEF TypeOK
  <2>5. \A j \in Id : Removed(j)' <=> Removed(j) BY <2>1, <2>3, <2>4 DEF Removed
  <2> QED BY <1>2, <2>1, <2>5, PromiseSame
<1>6. ASSUME NEW i \in Id, NEW a \in Attempt, RemoveSubscription(i, a) PROVE Promise!Next
  <2>1. \A j \in Id : Removed(j)' <=> Removed(j) \/ j = i BY <1>2, <1>6, RemoveKept
  <2>2. Promise!Unsubscribe(i) BY <1>2, <1>6, <2>1, RemovePromise
  <2> QED BY <2>2 DEF Promise!Next
<1>7. ASSUME NEW i \in Id, NEW a \in Attempt, FailToRemove(i, a) PROVE UNCHANGED Promise!vars
  <2>1. /\ unsub[<<i, a>>].pc = "found" /\ sub' = sub /\ pub' = pub /\ calls' = calls
        /\ unsub' = [unsub EXCEPT ![<<i, a>>].pc = "failed"]
    BY <1>7 DEF FailToRemove
  <2>2. \A j \in Id, b \in Attempt :
          unsub'[<<j, b>>].pc = IF j = i /\ b = a THEN "failed" ELSE unsub[<<j, b>>].pc
    <3> DEFINE new == [unsub[<<i, a>>] EXCEPT !.pc = "failed"]
    <3>1. unsub' = [unsub EXCEPT ![<<i, a>>] = new] BY <2>1
    <3>2. new.pc = "failed"
      <4>1. unsub[<<i, a>>] \in [pc : {"none", "found", "done", "failed"}, topic : Pattern]
        BY Basics
      <4> QED BY <4>1
    <3> HIDE DEF new
    <3>3. \A j \in Id, b \in Attempt :
            unsub'[<<j, b>>] = IF j = i /\ b = a THEN new ELSE unsub[<<j, b>>]
      BY <3>1 DEF TypeOK
    <3> QED BY <3>2, <3>3
  <2>3. \A j \in Id : Removed(j)' <=> Removed(j) BY <2>1, <2>2 DEF Removed
  <2> QED BY <1>2, <2>1, <2>3, PromiseSame
<1>8. ASSUME NEW u \in Publisher, NEW t \in Topic, Publish(u, t) PROVE Promise!Next
  BY <1>2, <1>8, PublishPromise DEF Promise!Next
<1>9. ASSUME NEW u \in Publisher, CallBack(u) PROVE Promise!Next
  BY <1>2, <1>9, CallBackPromise DEF Promise!Next
<1>10. ASSUME NEW u \in Publisher, Return(u) PROVE UNCHANGED Promise!vars
  <2>1. sub' = sub /\ unsub' = unsub /\ calls' = calls /\ pub' = [pub EXCEPT ![u].pc = "done"]
    BY <1>10 DEF Return
  <2>2. \A w \in Publisher : pub'[w].todo = pub[w].todo BY <2>1 DEF TypeOK
  <2>3. Due' = Due BY <2>2 DEF Due
  <2>4. Live' = Live BY <2>1 DEF Live, Gone
  <2> QED BY <2>1, <2>3, <2>4 DEF Promise!vars, Due
<1>11. CASE UNCHANGED vars
  <2>1. Live' = Live BY <1>11 DEF vars, Live, Gone
  <2>2. Due' = Due BY <1>11 DEF vars, Due
  <2> QED BY <1>11, <2>1, <2>2 DEF vars, Promise!vars, Due
<1> QED BY <1>3, <1>4, <1>5, <1>6, <1>7, <1>8, <1>9, <1>10, <1>11 DEF Next

\* subscribe, unsubscribe and publish (service_registry.rs, node.rs) implement PubSub
\* for separate patterns: a publication calls every subscription that covers its topic
\* and is in force at that moment, each once, and no other, whatever happens to the
\* four maps in between.
THEOREM KeepsPromise == Spec => ImplementsPubSub
<1>1. Init => (Separate => Promise!Init) BY InitPromise
<1> QED BY <1>1, KeptAlways, PromiseStep, PTL DEF Spec, ImplementsPubSub

=============================================================================
