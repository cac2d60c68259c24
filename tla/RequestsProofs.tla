--------------------------- MODULE RequestsProofs ---------------------------
(***************************************************************************)
(* Proofs about Requests, for any handlers, requests and situations, and   *)
(* about PathBuilding, for any strings: both look at the same paths, and   *)
(* what is told of them is used for both.                                  *)
(***************************************************************************)
EXTENDS Requests, PathBuilding, PathTrieProofs

-----------------------------------------------------------------------------
(***************************************************************************)
(* Parsing.                                                                *)
(***************************************************************************)

\* Lists of one item each make up the list of these items.
LEMMA JoinedSingles ==
  ASSUME NEW V, NEW list \in Seq(V), NEW f, \A i \in 1..Len(list) : f[i] = <<list[i]>>
  PROVE  Joined(f, Len(list)) = list
<1> DEFINE n == Len(list)
<1>1. n \in Nat /\ DOMAIN list = 1..n OBVIOUS
<1>2. \A i \in 1..n : f[i] = <<list[i]>> OBVIOUS
<1>3. \A i \in 1..n : list[i] \in V BY <1>1
<1> HIDE DEF n
<1>4. \A i \in 1..n : f[i] \in Seq(V)
  <2> SUFFICES ASSUME NEW i \in 1..n PROVE f[i] \in Seq(V) OBVIOUS
  <2>1. f[i] = <<list[i]>> /\ list[i] \in V BY <1>2, <1>3
  <2>2. <<list[i]>> \in Seq(V) BY <2>1
  <2> QED BY <2>1, <2>2
<1>5. PICK upTo : Builds(upTo, f, n) BY <1>1, <1>4, JoinedBuilds
<1>6. /\ Joined(f, n) = upTo[n] /\ upTo[0] = <<>>
      /\ \A k \in 1..n : upTo[k] = upTo[k - 1] \o f[k]
  BY <1>5 DEF Builds
<1> DEFINE Right(k) == /\ upTo[k] \in Seq(V) /\ Len(upTo[k]) = k
                       /\ \A i \in 1..k : upTo[k][i] = list[i]
           T == {k \in 0..n : ~Right(k)}
<1>7. Right(0) BY <1>6
<1>8. ASSUME NEW k \in 1..n, Right(k - 1) PROVE Right(k)
  <2> DEFINE a == upTo[k - 1]
             b == <<list[k]>>
  <2>1. upTo[k] = a \o b BY <1>2, <1>6
  <2>2. /\ a \in Seq(V) /\ Len(a) = k - 1 /\ \A i \in 1..(k - 1) : a[i] = list[i]
        /\ b \in Seq(V) /\ Len(b) = 1 /\ b[1] = list[k]
    BY <1>2, <1>3, <1>8
  <2> HIDE DEF a, b
  <2>3. /\ a \o b \in Seq(V) /\ Len(a \o b) = Len(a) + Len(b)
        /\ \A i \in 1..(Len(a) + Len(b)) : (a \o b)[i] = IF i <= Len(a) THEN a[i] ELSE b[i - Len(a)]
    BY <2>2, ConcatProperties
  <2> QED BY <1>1, <2>1, <2>2, <2>3
<1> HIDE DEF Right
<1>9. T = {}
  <2>1. SUFFICES ASSUME T # {} PROVE FALSE OBVIOUS
  <2>2. PICK k \in T : \A j \in T : k <= j
    <3>1. T \subseteq Nat OBVIOUS
    <3> HIDE DEF T
    <3> QED BY <2>1, <3>1, LeastNumber
  <2>3. k \in 0..n /\ ~Right(k) BY <2>2
  <2>4. k # 0 BY <1>7, <2>3
  <2>5. k - 1 \in 0..n /\ ~(k <= k - 1) BY <1>1, <2>3, <2>4
  <2>6. Right(k - 1) BY <2>2, <2>5
  <2> QED BY <1>1, <1>8, <2>3, <2>4, <2>6
<1>10. Right(n) BY <1>1, <1>9
<1>11. /\ upTo[n] \in Seq(V) /\ Len(upTo[n]) = n /\ \A i \in 1..n : upTo[n][i] = list[i]
  BY <1>10 DEF Right
<1>12. Joined(f, n) \in Seq(V) /\ Len(Joined(f, n)) = Len(list)
       /\ \A i \in 1..Len(list) : Joined(f, n)[i] = list[i]
  BY <1>6, <1>11 DEF n
<1> HIDE DEF Right, T
<1>13. Joined(f, n) = list BY <1>12, SeqEqual
<1> QED BY <1>13 DEF n

\* Without an x in it a list stays as it is.
LEMMA WithoutNone ==
  ASSUME NEW V, NEW list \in Seq(V), NEW x, x \notin V
  PROVE  Without(list, x) = list
<1> DEFINE f == [i \in DOMAIN list |-> IF list[i] = x THEN <<>> ELSE <<list[i]>>]
<1>1. DOMAIN list = 1..Len(list) OBVIOUS
<1>2. \A i \in 1..Len(list) : list[i] \in V /\ f[i] = <<list[i]>> BY <1>1
<1>3. Without(list, x) = Joined(f, Len(list)) BY DEF Without
<1> HIDE DEF f
<1>4. Joined(f, Len(list)) = list BY <1>2, JoinedSingles
<1> QED BY <1>3, <1>4

\* What comes first is first in the end, if it is not left out.
LEMMA WithoutFirst ==
  ASSUME NEW V, NEW list \in Seq(V), list # <<>>, NEW x, list[1] # x
  PROVE  Without(list, x) # <<>> /\ Without(list, x)[1] = list[1]
<1> DEFINE n == Len(list)
           f == [i \in DOMAIN list |-> IF list[i] = x THEN <<>> ELSE <<list[i]>>]
<1>1. n \in Nat /\ n > 0 /\ DOMAIN list = 1..n /\ list[1] \in V OBVIOUS
<1>2. \A i \in 1..n : f[i] \in Seq(V)
  <2> SUFFICES ASSUME NEW i \in 1..n PROVE f[i] \in Seq(V) OBVIOUS
  <2>1. list[i] \in V OBVIOUS
  <2>2. f[i] = IF list[i] = x THEN <<>> ELSE <<list[i]>> OBVIOUS
  <2> HIDE DEF f, n
  <2> QED BY <2>1, <2>2
<1>3. f[1] = <<list[1]>> BY <1>1
<1>4. Without(list, x) = Joined(f, n) BY DEF Without
<1> HIDE DEF f, n
<1>5. PICK upTo : Builds(upTo, f, n) BY <1>1, <1>2, JoinedBuilds
<1>6. /\ Joined(f, n) = upTo[n] /\ upTo[0] = <<>>
      /\ \A k \in 1..n : upTo[k] = upTo[k - 1] \o f[k]
  BY <1>5 DEF Builds
<1> DEFINE Right(k) == upTo[k] \in Seq(V) /\ Len(upTo[k]) > 0 /\ upTo[k][1] = list[1]
           T == {k \in 1..n : ~Right(k)}
<1>7. Right(1)
  <2>1. upTo[1] = <<>> \o <<list[1]>>
    <3>1. 1 \in 1..n /\ 1 - 1 = 0 BY <1>1
    <3>2. upTo[1] = upTo[1 - 1] \o f[1] BY <1>6, <3>1
    <3> QED BY <1>3, <1>6, <3>1, <3>2
  <2>2. <<>> \o <<list[1]>> = <<list[1]>> OBVIOUS
  <2> QED BY <1>1, <2>1, <2>2
<1>8. ASSUME NEW k \in 2..n, Right(k - 1) PROVE Right(k)
  <2> DEFINE a == upTo[k - 1]
             b == f[k]
  <2>0. k \in 1..n OBVIOUS
  <2>1. upTo[k] = a \o b BY <1>6, <2>0
  <2>2. a \in Seq(V) /\ Len(a) > 0 /\ a[1] = list[1] /\ b \in Seq(V) BY <1>2, <1>8, <2>0
  <2> HIDE DEF a, b
  <2>3. /\ a \o b \in Seq(V) /\ Len(a \o b) = Len(a) + Len(b)
        /\ \A i \in 1..(Len(a) + Len(b)) : (a \o b)[i] = IF i <= Len(a) THEN a[i] ELSE b[i - Len(a)]
    BY <2>2, ConcatProperties
  <2>4. Len(a) \in Nat /\ Len(b) \in Nat BY <2>2
  <2>5. (a \o b)[1] = a[1] BY <2>2, <2>3, <2>4
  <2> QED BY <2>1, <2>2, <2>3, <2>4, <2>5
<1> HIDE DEF Right
<1>9. T = {}
  <2>1. SUFFICES ASSUME T # {} PROVE FALSE OBVIOUS
  <2>2. PICK k \in T : \A j \in T : k <= j
    <3>1. T \subseteq Nat OBVIOUS
    <3> HIDE DEF T
    <3> QED BY <2>1, <3>1, LeastNumber
  <2>3. k \in 1..n /\ ~Right(k) BY <2>2
  <2>4. k # 1 BY <1>7, <2>3
  <2>5. k - 1 \in 1..n /\ k \in 2..n /\ ~(k <= k - 1) BY <1>1, <2>3, <2>4
  <2>6. Right(k - 1) BY <2>2, <2>5
  <2> QED BY <1>8, <2>3, <2>5, <2>6
<1>10. Right(n) BY <1>1, <1>9
<1> QED BY <1>4, <1>6, <1>10 DEF Right

-----------------------------------------------------------------------------
(***************************************************************************)
(* The paths of handlers, and the tries that keep them.                    *)
(***************************************************************************)

LEMMA PathParts ==
  ASSUME NEW h \in Handler
  PROVE  /\ PathOf(h) \in Seq(Segment) /\ PathOf(h) # <<>> /\ PathOf(h)[1] = ServiceOf[h]
         /\ ServiceOf[h] \in Literal
         /\ MultiLast(PathOf(h))
         /\ RegistrationPath[h].cached_action_path
              = IF Len(PathOf(h)) <= 1 THEN <<>> ELSE PathOf(h)
         /\ NodeOf(PathOf(h)) \in Node /\ NodeOf(PathOf(h)) \in Path
         /\ Len(NodeOf(PathOf(h))) = Len(PathOf(h))
<1> DEFINE V == Segment \cup {Empty}
           name == ActionName[h]
           text == <<ServiceOf[h]>> \o name
<1>1. PathOf(h) = Parse(text) /\ RegistrationPath[h].cached_action_path
              = IF Len(Parse(text)) <= 1 THEN <<>> ELSE Parse(text)
  BY DEF PathOf, RegistrationPath, NewPath
<1>2. ServiceOf[h] \in Literal /\ name \in Seq(V) /\ IsValid(text)
  BY RequestsAssumption DEF String
<1>3. ServiceOf[h] \in V /\ ServiceOf[h] # Empty
  BY <1>2, TopicPathAssumption DEF Segment
<1>4. text \in Seq(V) /\ text # <<>> /\ text[1] = ServiceOf[h]
  <2> DEFINE a == <<ServiceOf[h]>>
  <2>1. a \in Seq(V) /\ Len(a) = 1 /\ a[1] = ServiceOf[h] BY <1>3
  <2> HIDE DEF a, V, name
  <2>2. /\ a \o name \in Seq(V) /\ Len(a \o name) = Len(a) + Len(name)
        /\ \A i \in 1..(Len(a) + Len(name)) : (a \o name)[i] = IF i <= Len(a) THEN a[i] ELSE name[i - Len(a)]
    BY <1>2, <2>1, ConcatProperties
  <2>3. Len(name) \in Nat BY <1>2
  <2>4. (a \o name)[1] = a[1] /\ Len(a \o name) > 0 BY <2>1, <2>2, <2>3
  <2>5. a \o name \in Seq(V) /\ a \o name # <<>> BY <2>2, <2>4
  <2> QED BY <2>1, <2>4, <2>5 DEF a
<1>5. V \ {Empty} = Segment BY TopicPathAssumption
<1> HIDE DEF text, V
<1>6. Parse(text) \in Seq(Segment) /\ Parse(text) # <<>> /\ Parse(text)[1] = ServiceOf[h]
  <2>1. Without(text, Empty) \in Seq(V \ {Empty}) BY <1>4, WithoutParts
  <2>2. Without(text, Empty) # <<>> /\ Without(text, Empty)[1] = text[1]
    BY <1>3, <1>4, WithoutFirst
  <2> QED BY <1>4, <1>5, <2>1, <2>2 DEF Parse
<1>7. MultiLast(Parse(text)) BY <1>2 DEF IsValid, MultiLast
<1>8. NodeOf(PathOf(h)) \in Node BY DEF Node
<1> QED BY <1>1, <1>2, <1>6, <1>7, <1>8, NodeOfPath

LEMMA NodesFinite == IsFiniteSet(Node) /\ Node \subseteq Path
<1> DEFINE f == [h \in Handler |-> NodeOf(PathOf(h))]
<1>1. f \in Surjection(Handler, Node) BY DEF Surjection, Node
<1>2. IsFiniteSet(Node) BY <1>1, RequestsAssumption, FS_Surjection
<1> QED BY <1>2, PathParts DEF Node

LEMMA LocalTrie == TypeOK => IsTrie(local_action_handlers, Local)
BY NodesFinite DEF TypeOK, IsTrie

LEMMA RemoteTrie == TypeOK => IsTrie(remote_action_handlers, Seq(Remote))
BY NodesFinite DEF TypeOK, IsTrie

\* What is registered is an item of its node's list, or of one of them.
LEMMA RegisteredItems ==
  ASSUME TypeOK, NEW h \in Handler
  PROVE  IsRegistered(h) <=>
           IF h \in Local THEN HasItem(local_action_handlers[NodeOf(PathOf(h))], h)
           ELSE \E list : /\ HasItem(remote_action_handlers[NodeOf(PathOf(h))], list)
                          /\ HasItem(list, h)
<1> DEFINE node == NodeOf(PathOf(h))
           lists == remote_action_handlers[node]
<1>1. node \in Node BY PathParts
<1>2. h \in Local => (IsRegistered(h) <=> HasItem(local_action_handlers[node], h))
  BY DEF IsRegistered, Elements, HasItem
<1>3. lists \in Seq(Seq(Remote)) BY <1>1 DEF TypeOK
<1> HIDE DEF lists
<1>4. Len(lists) \in Nat /\ DOMAIN lists = 1..Len(lists) /\ \A i \in 1..Len(lists) : lists[i] \in Seq(Remote)
  BY <1>3
<1>5. \A v : HasItem(Joined(lists, Len(lists)), v) <=> \E i \in 1..Len(lists) : HasItem(lists[i], v)
  BY <1>4, JoinedParts
<1>6. h \notin Local => (IsRegistered(h) <=> HasItem(Joined(lists, Len(lists)), h))
  BY DEF IsRegistered, Elements, HasItem, lists
<1>7. (\E i \in 1..Len(lists) : HasItem(lists[i], h))
        <=> \E list : HasItem(lists, list) /\ HasItem(list, h)
  BY <1>4 DEF HasItem
<1> QED BY <1>2, <1>5, <1>6, <1>7 DEF lists

-----------------------------------------------------------------------------
(***************************************************************************)
(* Types.                                                                  *)
(***************************************************************************)

Asked ==
  {Parse(CompletePath(s, text)) : s \in Literal \cup {NoService}, text \in situation.texts}

Underway == [step : {"local", "remote", "refused"}, topic : Asked,
             local_only : BOOLEAN, kept : SUBSET Handler]

Selecting == [step : {"selecting"}, topic : Asked, kept : SUBSET Handler,
              handlers : Seq(Remote) \ {<<>>}]

PathParams == UNION {[N -> {<<s>> : s \in Segment}] : N \in SUBSET Param}

RanLocal == [step : {"ran_local"}, topic : Asked, kept : SUBSET Handler,
             handler : Local, path_params : PathParams]

RanRemote == [step : {"ran_remote"}, topic : Asked, kept : SUBSET Handler,
              handler : Remote, among : Nat \ {0}, index : 0..(Wrap - 1)]

LEMMA RequestStates ==
  RequestState = [step : {"idle", "invalid"}] \cup Underway \cup Selecting \cup RanLocal
                   \cup RanRemote
BY DEF RequestState, Asked, Underway, Selecting, RanLocal, PathParams, RanRemote

\* What a request is tells what it has.
LEMMA RequestParts ==
  ASSUME NEW q \in RequestState
  PROVE  /\ q.step \in {"idle", "invalid"} => q \in [step : {"idle", "invalid"}]
         /\ q.step \in {"local", "remote", "refused"} => q \in Underway
         /\ q.step = "selecting" => q \in Selecting
         /\ q.step = "ran_local" => q \in RanLocal
         /\ q.step = "ran_remote" => q \in RanRemote
         /\ q.step \in {"idle", "invalid", "local", "remote", "refused", "selecting",
                        "ran_local", "ran_remote"}
<1>1. \/ q \in [step : {"idle", "invalid"}] \/ q \in Underway \/ q \in Selecting
      \/ q \in RanLocal \/ q \in RanRemote
  BY RequestStates
<1>2. /\ q \in [step : {"idle", "invalid"}] => q.step \in {"idle", "invalid"}
      /\ q \in Underway => q.step \in {"local", "remote", "refused"}
      /\ q \in Selecting => q.step = "selecting"
      /\ q \in RanLocal => q.step = "ran_local"
      /\ q \in RanRemote => q.step = "ran_remote"
  BY DEF Underway, Selecting, RanLocal, RanRemote
<1> QED BY <1>1, <1>2

LEMMA SituationParts ==
  ASSUME TypeOK
  PROVE  /\ situation.texts \subseteq String
         /\ situation.registers \subseteq Handler
         /\ situation.counted \subseteq 0..(Wrap - 1)
BY RequestsAssumption DEF TypeOK, Situations

LEMMA AskedPaths ==
  ASSUME TypeOK
  PROVE  Asked \subseteq Seq(Segment)
<1> DEFINE V == Segment \cup {Empty}
<1> SUFFICES ASSUME NEW s \in Literal \cup {NoService}, NEW text \in situation.texts
             PROVE  Parse(CompletePath(s, text)) \in Seq(Segment)
  BY DEF Asked
<1>1. text \in Seq(V) BY SituationParts DEF String
<1>2. CompletePath(s, text) \in Seq(V)
  <2>1. CASE s = NoService \/ Len(text) > 1 BY <1>1, <2>1 DEF CompletePath
  <2>2. CASE ~(s = NoService \/ Len(text) > 1)
    <3> DEFINE a == <<s>>
    <3>1. s \in V BY <2>2 DEF Segment
    <3>2. a \in Seq(V) BY <3>1
    <3>3. CompletePath(s, text) = a \o text BY <2>2 DEF CompletePath
    <3> HIDE DEF a, V
    <3> QED BY <1>1, <3>2, <3>3, ConcatProperties
  <2> QED BY <2>1, <2>2
<1>3. V \ {Empty} = Segment BY TopicPathAssumption
<1> HIDE DEF V
<1> QED BY <1>2, <1>3, WithoutParts DEF Parse

LEMMA LastParts ==
  ASSUME NEW n \in Nat, NEW places, places \subseteq 1..n, places # {}
  PROVE  Last(places) \in places
<1> DEFINE T == {n - i : i \in places}
<1>1. T \subseteq Nat /\ T # {}
  <2>1. \A i \in places : n - i \in Nat OBVIOUS
  <2>2. PICK i \in places : TRUE OBVIOUS
  <2>3. n - i \in T OBVIOUS
  <2> QED BY <2>1, <2>3
<1>2. PICK t \in T : \A k \in T : t <= k
  <2> HIDE DEF T
  <2> QED BY <1>1, LeastNumber
<1>3. PICK i \in places : t = n - i BY <1>2
<1>4. \A j \in places : j <= i
  <2> SUFFICES ASSUME NEW j \in places PROVE j <= i OBVIOUS
  <2>1. n - j \in T OBVIOUS
  <2>2. n - i <= n - j BY <1>2, <1>3, <2>1
  <2>3. i \in Nat /\ j \in Nat OBVIOUS
  <2> QED BY <2>2, <2>3
<1> QED BY <1>4 DEF Last

\* The parameters of a handler: the names in its path, if the topic has its length.
LEMMA ParamsParts ==
  ASSUME NEW t \in Seq(Segment), NEW h \in Handler
  PROVE  /\ ParamsFor(t, h) \in PathParams
         /\ ~HasWildcard(h) /\ Answers(h, t) =>
              /\ DOMAIN ParamsFor(t, h) = Names(PathOf(h))
              /\ \A name \in Names(PathOf(h)) : \E i \in DOMAIN PathOf(h) :
                   PathOf(h)[i] = name /\ ParamsFor(t, h)[name] = <<t[i]>>
<1> DEFINE p == PathOf(h)
           template == RegistrationPath[h].cached_action_path
           q == [segments |-> t]
           fits == FitsTemplate(q, template)
           place(name) == Last({i \in DOMAIN p : p[i] = name})
<1>1. /\ p \in Seq(Segment) /\ p # <<>> /\ p[1] \in Literal /\ Len(p) \in Nat /\ DOMAIN p = 1..Len(p)
      /\ template = IF Len(p) <= 1 THEN <<>> ELSE p
  BY PathParts
<1>2. ParamsFor(t, h) = IF fits THEN ExtractParams(q, template) ELSE <<>>
  BY DEF ParamsFor
<1>3. Parse(p) = p /\ Parse(<<>>) = <<>>
  <2>1. Empty \notin Segment BY TopicPathAssumption
  <2>2. <<>> \in Seq(Segment) OBVIOUS
  <2> HIDE DEF p
  <2> QED BY <1>1, <2>1, <2>2, WithoutNone DEF Parse
<1>4. <<>> \in [{} -> {<<s>> : s \in Segment}]
  <2>1. <<>> \in Seq({<<s>> : s \in Segment}) /\ Len(<<>>) = 0 OBVIOUS
  <2>2. <<>> \in [1..Len(<<>>) -> {<<s>> : s \in Segment}] BY <2>1, LenProperties
  <2>3. 1..Len(<<>>) = {} BY <2>1
  <2> QED BY <2>2, <2>3
<1>5. \A name \in Names(p) : place(name) \in DOMAIN p /\ p[place(name)] = name
  <2> SUFFICES ASSUME NEW name \in Names(p)
               PROVE  place(name) \in {i \in DOMAIN p : p[i] = name}
    OBVIOUS
  <2>1. {i \in DOMAIN p : p[i] = name} # {} BY DEF Names
  <2>2. {i \in DOMAIN p : p[i] = name} \subseteq 1..Len(p) BY <1>1
  <2> HIDE DEF p
  <2> QED BY <1>1, <2>1, <2>2, LastParts
<1>6. ASSUME fits, Len(p) > 1
      PROVE  /\ Len(t) = Len(p)
             /\ ExtractParams(q, template) = [name \in Names(p) |-> <<t[place(name)]>>]
  <2>1. template = p BY <1>1, <1>6
  <2>2. Len(t) = Len(p) BY <1>3, <1>6, <2>1 DEF FitsTemplate
  <2>3. ExtractParams(q, p) = [name \in Names(p) |-> <<t[place(name)]>>]
    BY <1>3 DEF ExtractParams
  <2> QED BY <2>1, <2>2, <2>3
<1>7. ASSUME ~(Len(p) > 1)
      PROVE  Names(p) = {} /\ (fits => ExtractParams(q, template) = [name \in {} |-> <<t[1]>>])
  <2>1. template = <<>> /\ Len(p) = 1 BY <1>1, <1>7
  <2>2. Names(p) = {} BY <1>1, <2>1, SegmentAssumption DEF Names
  <2>3. Names(<<>>) = {} BY DEF Names
  <2>4. ExtractParams(q, <<>>) = [name \in {} |-> <<t[1]>>]
    BY <1>3, <2>3 DEF ExtractParams
  <2> QED BY <2>1, <2>2, <2>4
<1>8. ParamsFor(t, h) \in PathParams
  <2>1. CASE fits /\ Len(p) > 1
    <3>1. \A name \in Names(p) : t[place(name)] \in Segment
      BY <1>1, <1>5, <1>6, <2>1
    <3>2. Names(p) \in SUBSET Param BY DEF Names
    <3> HIDE DEF place, p, q, fits, template
    <3>3. [name \in Names(p) |-> <<t[place(name)]>>] \in [Names(p) -> {<<s>> : s \in Segment}]
      BY <3>1
    <3> QED BY <1>2, <1>6, <2>1, <3>2, <3>3 DEF PathParams
  <2>2. CASE fits /\ ~(Len(p) > 1)
    <3>1. [name \in {} |-> <<t[1]>>] \in [{} -> {<<s>> : s \in Segment}] OBVIOUS
    <3> QED BY <1>2, <1>7, <2>2, <3>1 DEF PathParams
  <2>3. CASE ~fits BY <1>2, <1>4, <2>3 DEF PathParams
  <2> QED BY <2>1, <2>2, <2>3
<1>9. ASSUME ~HasWildcard(h), Answers(h, t)
      PROVE  /\ DOMAIN ParamsFor(t, h) = Names(p)
             /\ \A name \in Names(p) : \E i \in DOMAIN p :
                  p[i] = name /\ ParamsFor(t, h)[name] = <<t[i]>>
  <2>1. \A i \in DOMAIN p : p[i] # Star /\ p[i] # Multi BY <1>9 DEF HasWildcard, IsPattern
  <2>2. /\ Len(p) = Len(t)
        /\ \A i \in DOMAIN p : p[i] \in Param \/ p[i] = t[i]
    <3>1. Len(p) \in DOMAIN p BY <1>1
    <3>2. p[Len(p)] # Multi BY <2>1, <3>1
    <3> QED BY <1>9, <2>1, <3>2 DEF Answers, SegmentsMatch
  <2>3. CASE Len(p) > 1
    <3>1. fits BY <1>1, <1>3, <2>2, <2>3 DEF FitsTemplate
    <3>2. ParamsFor(t, h) = [name \in Names(p) |-> <<t[place(name)]>>]
      BY <1>2, <1>6, <2>3, <3>1
    <3> HIDE DEF place, p, q, fits, template
    <3> QED BY <1>5, <3>2
  <2>4. CASE ~(Len(p) > 1)
    <3>1. DOMAIN <<>> = {} OBVIOUS
    <3> QED BY <1>2, <1>7, <2>4, <3>1
  <2> QED BY <2>3, <2>4
<1> QED BY <1>8, <1>9

\* A step that changes one request, and leaves it in a state there is.
LEMMA OneRequest ==
  ASSUME TypeOK, NEW r \in Request, NEW q \in RequestState,
         request' = [request EXCEPT ![r] = q], situation' = situation
  PROVE  request' \in [Request -> RequestState']
<1>1. RequestState' = RequestState BY DEF RequestState
<1>2. request \in [Request -> RequestState] BY DEF TypeOK
<1> HIDE DEF RequestState
<1> QED BY <1>1, <1>2

LEMMA InitTypes == Init => TypeOK
<1> SUFFICES ASSUME Init PROVE TypeOK OBVIOUS
<1>1. [n \in Node |-> <<>>] \in [Node -> Seq(Local)]
      /\ [n \in Node |-> <<>>] \in [Node -> Seq(Seq(Remote))]
  OBVIOUS
<1>2. [step |-> "idle"] \in RequestState BY RequestStates
<1>3. current_index \in 0..(Wrap - 1)
  BY RequestsAssumption DEF Init, Situations
<1> HIDE DEF RequestState
<1> QED BY <1>1, <1>2, <1>3 DEF Init, TypeOK

\* A trie and what it is with one more value at a node.
Adds(trie, more, node, v) ==
  \A n \in Node : \A w : HasItem(more[n], w) <=> HasItem(trie[n], w) \/ (n = node /\ w = v)

LEMMA SetValueParts ==
  ASSUME NEW V, NEW trie \in [Node -> Seq(V)], NEW h \in Handler, NEW v \in V
  PROVE  /\ SetValue(trie, PathOf(h), v) \in [Node -> Seq(V)]
         /\ Adds(trie, SetValue(trie, PathOf(h), v), NodeOf(PathOf(h)), v)
<1> DEFINE node == NodeOf(PathOf(h))
           list == Append(trie[node], v)
<1>1. node \in Node BY PathParts
<1>2. SetValue(trie, PathOf(h), v) = [trie EXCEPT ![node] = list] BY <1>1 DEF SetValue
<1>3. trie[node] \in Seq(V) BY <1>1
<1>4. list \in Seq(V) /\ \A w : HasItem(list, w) <=> HasItem(trie[node], w) \/ w = v
  <2> HIDE DEF node
  <2> QED BY <1>3, AppendItems
<1> HIDE DEF node, list
<1>5. [trie EXCEPT ![node] = list] \in [Node -> Seq(V)] BY <1>4
<1>6. \A n \in Node : [trie EXCEPT ![node] = list][n] = IF n = node THEN list ELSE trie[n]
  BY <1>1
<1> QED BY <1>2, <1>4, <1>5, <1>6 DEF node, Adds

\* What a remote registration adds a handler to.
LEMMA RemoteList ==
  ASSUME TypeOK, NEW h \in Remote, NEW order \in Orders
  PROVE  LET matches == FindMatches(remote_action_handlers, PathOf(h), order)
         IN  /\ matches \in Seq(Seq(Remote))
             /\ (IF matches = <<>> THEN <<h>> ELSE Append(matches[1], h)) \in Seq(Remote)
<1> DEFINE matches == FindMatches(remote_action_handlers, PathOf(h), order)
<1>1. PathOf(h) \in Seq(Segment) /\ order \in Seq(Literal)
  BY PathParts, RequestsAssumption DEF Handler
<1>2. matches \in Seq(Seq(Remote)) BY <1>1, RemoteTrie, FindMatchesParts
<1> HIDE DEF matches
<1>3. CASE matches = <<>> BY <1>2, <1>3 DEF matches
<1>4. CASE matches # <<>>
  <2>1. matches[1] \in Seq(Remote) BY <1>2, <1>4
  <2>2. Append(matches[1], h) \in Seq(Remote) BY <2>1
  <2> QED BY <1>2, <1>4, <2>2 DEF matches
<1> QED BY <1>3, <1>4

LEMMA RemoveValuesParts ==
  ASSUME TypeOK, NEW h \in Handler
  PROVE  /\ RemoveValues(remote_action_handlers, PathOf(h)) \in [Node -> Seq(Seq(Remote))]
         /\ \A n \in Node : RemoveValues(remote_action_handlers, PathOf(h))[n]
                              \in {<<>>, remote_action_handlers[n]}
         /\ \A n \in Node : n # NodeOf(PathOf(h)) =>
              RemoveValues(remote_action_handlers, PathOf(h))[n] = remote_action_handlers[n]
<1>1. NodeOf(PathOf(h)) \in Node BY PathParts
<1>2. <<>> \in Seq(Seq(Remote)) OBVIOUS
<1> QED BY <1>1, <1>2 DEF RemoveValues, RemoveHandlers, TypeOK

\* A look into the tries for a topic.
LEMMA LookUps ==
  ASSUME TypeOK, NEW t \in Seq(Segment), NEW order \in Orders
  PROVE  /\ LocalMatches(t, order) \in Seq(Local)
         /\ FindMatches(remote_action_handlers, t, order) \in Seq(Seq(Remote))
         /\ LET matches == FindMatches(remote_action_handlers, t, order)
                list == Joined(matches, Len(matches))
            IN  /\ list \in Seq(Remote)
                /\ \A h : HasItem(list, h) <=> \E l : HasItem(matches, l) /\ HasItem(l, h)
<1> DEFINE matches == FindMatches(remote_action_handlers, t, order)
<1>1. order \in Seq(Literal) BY RequestsAssumption
<1>2. LocalMatches(t, order) \in Seq(Local)
  BY <1>1, LocalTrie, FindMatchesParts DEF LocalMatches
<1>3. matches \in Seq(Seq(Remote)) BY <1>1, RemoteTrie, FindMatchesParts
<1> HIDE DEF matches
<1>4. Len(matches) \in Nat /\ DOMAIN matches = 1..Len(matches)
      /\ \A i \in 1..Len(matches) : matches[i] \in Seq(Remote)
  BY <1>3
<1>5. /\ Joined(matches, Len(matches)) \in Seq(Remote)
      /\ \A h : HasItem(Joined(matches, Len(matches)), h)
                  <=> \E i \in 1..Len(matches) : HasItem(matches[i], h)
  BY <1>4, JoinedParts
<1>6. \A h : (\E i \in 1..Len(matches) : HasItem(matches[i], h))
               <=> \E l : HasItem(matches, l) /\ HasItem(l, h)
  BY <1>4 DEF HasItem
<1> QED BY <1>2, <1>3, <1>5, <1>6 DEF matches

\* Where the next turn is.
LEMMA IndexParts ==
  ASSUME TypeOK, NEW list \in Seq(Remote), list # <<>>
  PROVE  Index(list) \in 0..(Wrap - 1) /\ Index(list) + 1 \in DOMAIN list
<1>1. current_index \in Nat /\ current_index <= Wrap - 1 /\ Wrap \in Nat
  BY RequestsAssumption DEF TypeOK
<1>2. Len(list) \in Nat /\ Len(list) > 0 /\ DOMAIN list = 1..Len(list) OBVIOUS
<1> DEFINE l == Len(list)
           c == current_index
<1> HIDE DEF l, c
<1>3. ASSUME l \in Nat, l > 0, c \in Nat
      PROVE  c % l \in 0..(l - 1) /\ c % l <= c
  BY <1>3
<1> QED BY <1>1, <1>2, <1>3 DEF Index, l, c

LEMMA RegisterLocalTypes ==
  ASSUME TypeOK, NEW h \in Handler, RegisterLocalActionHandler(h)
  PROVE  TypeOK'
<1>1. /\ h \in Local /\ situation' = situation /\ request' = request
      /\ current_index' = current_index /\ remote_action_handlers' = remote_action_handlers
      /\ local_action_handlers' = SetValue(local_action_handlers, PathOf(h), h)
  BY DEF RegisterLocalActionHandler
<1>2. local_action_handlers' \in [Node -> Seq(Local)] BY <1>1, SetValueParts DEF TypeOK
<1>3. RequestState' = RequestState BY <1>1 DEF RequestState
<1> QED BY <1>1, <1>2, <1>3 DEF TypeOK

LEMMA RegisterRemoteTypes ==
  ASSUME TypeOK, NEW h \in Handler, RegisterRemoteActionHandler(h)
  PROVE  TypeOK'
<1> DEFINE list(order) ==
      LET matches == FindMatches(remote_action_handlers, PathOf(h), order)
      IN  IF matches = <<>> THEN <<h>> ELSE Append(matches[1], h)
<1>1. /\ h \in Remote /\ situation' = situation /\ request' = request
      /\ current_index' = current_index /\ local_action_handlers' = local_action_handlers
      /\ \E order \in Orders :
           remote_action_handlers' = SetValue(remote_action_handlers, PathOf(h), list(order))
  BY DEF RegisterRemoteActionHandler
<1>2. PICK order \in Orders :
        remote_action_handlers' = SetValue(remote_action_handlers, PathOf(h), list(order))
  BY <1>1
<1>3. list(order) \in Seq(Remote) BY <1>1, RemoteList
<1> HIDE DEF list
<1>4. remote_action_handlers' \in [Node -> Seq(Seq(Remote))]
  BY <1>2, <1>3, SetValueParts DEF TypeOK
<1>5. RequestState' = RequestState BY <1>1 DEF RequestState
<1> QED BY <1>1, <1>4, <1>5 DEF TypeOK

LEMMA RemoveTypes ==
  ASSUME TypeOK, NEW h \in Handler, RemoveRemoteActionHandler(h)
  PROVE  TypeOK'
<1>1. /\ situation' = situation
      /\ current_index' = current_index /\ local_action_handlers' = local_action_handlers
      /\ remote_action_handlers' = RemoveValues(remote_action_handlers, PathOf(h))
      /\ request' = [r \in Request |->
           IF IsPending(r)
           THEN [request[r] EXCEPT !.kept = {k \in @ : k \in Local \/ ~SameNode(k, h)}]
           ELSE request[r]]
  BY DEF RemoveRemoteActionHandler
<1>2. remote_action_handlers' \in [Node -> Seq(Seq(Remote))] BY <1>1, RemoveValuesParts
<1>3. ASSUME NEW r \in Request PROVE request'[r] \in RequestState
  <2> DEFINE q == request[r]
             kept == {k \in q.kept : k \in Local \/ ~SameNode(k, h)}
  <2>1. q \in RequestState BY DEF TypeOK
  <2>2. CASE ~IsPending(r) BY <1>1, <2>1, <2>2
  <2>3. CASE IsPending(r)
    <3>1. request'[r] = [q EXCEPT !.kept = kept] BY <1>1, <2>3
    <3>2. q \in Underway \/ q \in Selecting
      <4>1. q.step \in {"local", "remote", "selecting"} BY <2>3 DEF IsPending
      <4> HIDE DEF q
      <4> QED BY <2>1, <4>1, RequestParts
    <3>3. q.kept \subseteq Handler BY <3>2 DEF Underway, Selecting
    <3>4. kept \in SUBSET Handler BY <3>3
    <3> HIDE DEF q, kept
    <3>5. [q EXCEPT !.kept = kept] \in Underway \cup Selecting
      BY <3>2, <3>4 DEF Underway, Selecting
    <3> QED BY <3>1, <3>5, RequestStates
  <2> QED BY <2>2, <2>3
<1>4. RequestState' = RequestState BY <1>1 DEF RequestState
<1> HIDE DEF RequestState
<1>5. request' \in [Request -> RequestState'] BY <1>1, <1>3, <1>4
<1> QED BY <1>1, <1>2, <1>5 DEF TypeOK

LEMMA StartTypes ==
  ASSUME TypeOK, NEW r \in Request, NEW s \in Literal \cup {NoService},
         NEW text \in situation.texts, NEW only \in BOOLEAN, Start(r, CompletePath(s, text), only)
  PROVE  TypeOK'
<1> DEFINE asked == CompletePath(s, text)
           t == Parse(asked)
           q == IF IsValid(asked) THEN Pending("local", t, only, Covering(t))
                ELSE [step |-> "invalid"]
<1>1. /\ request' = [request EXCEPT ![r] = q] /\ situation' = situation
      /\ UNCHANGED <<local_action_handlers, remote_action_handlers, current_index>>
  BY DEF Start
<1>2. t \in Asked BY DEF Asked
<1>3. Covering(t) \subseteq Handler BY DEF Covering
<1>4. q \in RequestState
  <2> HIDE DEF t, asked
  <2>1. Pending("local", t, only, Covering(t)) \in Underway
    BY <1>2, <1>3 DEF Pending, Underway
  <2>2. [step |-> "invalid"] \in [step : {"idle", "invalid"}] OBVIOUS
  <2> QED BY <2>1, <2>2, RequestStates
<1> HIDE DEF q
<1> QED BY <1>1, <1>4, OneRequest DEF TypeOK

LEMMA RunLocalTypes ==
  ASSUME TypeOK, NEW r \in Request, RunLocal(r)
  PROVE  TypeOK'
<1> DEFINE t == request[r].topic
           run(h) == [step |-> "ran_local", topic |-> t, kept |-> request[r].kept,
                      handler |-> h, path_params |-> ParamsFor(t, h)]
<1>1. /\ request[r].step = "local" /\ situation' = situation
      /\ UNCHANGED <<local_action_handlers, remote_action_handlers, current_index>>
      /\ \E order \in Orders : /\ LocalMatches(t, order) # <<>>
                               /\ request' = [request EXCEPT ![r] = run(LocalMatches(t, order)[1])]
  BY DEF RunLocal
<1>2. PICK order \in Orders : /\ LocalMatches(t, order) # <<>>
                              /\ request' = [request EXCEPT ![r] = run(LocalMatches(t, order)[1])]
  BY <1>1
<1>3. request[r] \in Underway BY <1>1, RequestParts DEF TypeOK
<1>4. t \in Asked /\ t \in Seq(Segment) BY <1>3, AskedPaths DEF Underway
<1> DEFINE h == LocalMatches(t, order)[1]
<1>5. h \in Local
  <2>1. LocalMatches(t, order) \in Seq(Local) BY <1>4, LookUps
  <2> QED BY <1>2, <2>1
<1> HIDE DEF h
<1>6. ParamsFor(t, h) \in PathParams BY <1>4, <1>5, ParamsParts DEF Handler
<1>7. run(h) \in RanLocal BY <1>3, <1>4, <1>5, <1>6 DEF RanLocal, Underway
<1>8. run(h) \in RequestState BY <1>7, RequestStates
<1>9. request' = [request EXCEPT ![r] = run(h)] BY <1>2 DEF h
<1> HIDE DEF run
<1> QED BY <1>1, <1>8, <1>9, OneRequest DEF TypeOK

LEMMA MissLocalTypes ==
  ASSUME TypeOK, NEW r \in Request, MissLocal(r)
  PROVE  TypeOK'
<1> DEFINE q == [request[r] EXCEPT !.step = IF request[r].local_only THEN "refused" ELSE "remote"]
<1>1. /\ request[r].step = "local" /\ situation' = situation
      /\ UNCHANGED <<local_action_handlers, remote_action_handlers, current_index>>
      /\ request' = [request EXCEPT ![r] = q]
  BY DEF MissLocal
<1>2. request[r] \in Underway BY <1>1, RequestParts DEF TypeOK
<1>3. q \in Underway BY <1>2 DEF Underway
<1>4. q \in RequestState BY <1>3, RequestStates
<1> HIDE DEF q
<1> QED BY <1>1, <1>4, OneRequest DEF TypeOK

LEMMA FindRemoteTypes ==
  ASSUME TypeOK, NEW r \in Request, FindRemote(r)
  PROVE  TypeOK'
<1> DEFINE old == request[r]
           list(order) == LET matches == FindMatches(remote_action_handlers, old.topic, order)
                          IN  Joined(matches, Len(matches))
           found(l) == IF l = <<>> THEN [old EXCEPT !.step = "refused"]
                       ELSE [step |-> "selecting", topic |-> old.topic, kept |-> old.kept,
                             handlers |-> l]
<1>1. /\ request[r].step = "remote" /\ situation' = situation
      /\ UNCHANGED <<local_action_handlers, remote_action_handlers, current_index>>
      /\ \E order \in Orders : request' = [request EXCEPT ![r] = found(list(order))]
  BY DEF FindRemote
<1>2. PICK order \in Orders : request' = [request EXCEPT ![r] = found(list(order))]
  BY <1>1
<1>3. old \in Underway BY <1>1, RequestParts DEF TypeOK
<1>4. old.topic \in Asked /\ old.topic \in Seq(Segment) BY <1>3, AskedPaths DEF Underway
<1> DEFINE l == list(order)
<1>5. l \in Seq(Remote) BY <1>4, LookUps
<1> HIDE DEF l, old
<1>6. found(l) \in Underway \cup Selecting BY <1>3, <1>5 DEF Underway, Selecting
<1>7. found(l) \in RequestState BY <1>6, RequestStates
<1>8. request' = [request EXCEPT ![r] = found(l)] BY <1>2 DEF l, old
<1> HIDE DEF found
<1> QED BY <1>1, <1>7, <1>8, OneRequest DEF TypeOK

LEMMA SelectTypes ==
  ASSUME TypeOK, NEW r \in Request, SelectHandler(r)
  PROVE  TypeOK'
<1> DEFINE old == request[r]
           index == Index(old.handlers)
           q == [step |-> "ran_remote", topic |-> old.topic, kept |-> old.kept,
                 index |-> index, among |-> Len(old.handlers),
                 handler |-> old.handlers[index + 1]]
<1>1. /\ request[r].step = "selecting" /\ situation' = situation
      /\ UNCHANGED <<local_action_handlers, remote_action_handlers>>
      /\ current_index' = (current_index + 1) % Wrap
      /\ request' = [request EXCEPT ![r] = q]
  BY DEF SelectHandler
<1>2. old \in Selecting BY <1>1, RequestParts DEF TypeOK
<1>3. /\ old.handlers \in Seq(Remote) /\ old.handlers # <<>>
      /\ old.topic \in Asked /\ old.kept \in SUBSET Handler
  BY <1>2 DEF Selecting
<1>4. index \in 0..(Wrap - 1) /\ index + 1 \in DOMAIN old.handlers BY <1>3, IndexParts
<1>5. old.handlers[index + 1] \in Remote /\ Len(old.handlers) \in Nat \ {0} BY <1>3, <1>4
<1>6. q \in RanRemote BY <1>3, <1>4, <1>5 DEF RanRemote
<1>7. q \in RequestState BY <1>6, RequestStates
<1>8. (current_index + 1) % Wrap \in 0..(Wrap - 1) BY RequestsAssumption DEF TypeOK
<1> HIDE DEF q
<1> QED BY <1>1, <1>7, <1>8, OneRequest DEF TypeOK

LEMMA StepTypes == TypeOK /\ [Next]_vars => TypeOK'
<1> SUFFICES ASSUME TypeOK, [Next]_vars PROVE TypeOK' OBVIOUS
<1>1. ASSUME NEW h \in Handler, RegisterLocalActionHandler(h) PROVE TypeOK'
  BY <1>1, RegisterLocalTypes
<1>2. ASSUME NEW h \in Handler, RegisterRemoteActionHandler(h) PROVE TypeOK'
  BY <1>2, RegisterRemoteTypes
<1>3. ASSUME NEW h \in Handler, RemoveRemoteActionHandler(h) PROVE TypeOK'
  BY <1>3, RemoveTypes
<1>4. ASSUME NEW r \in Request, NEW text \in situation.texts, BeginLocalRequest(r, text)
      PROVE  TypeOK'
  <2>1. CompletePath(NoService, text) = text BY DEF CompletePath
  <2> QED BY <1>4, <2>1, StartTypes DEF BeginLocalRequest
<1>5. ASSUME NEW r \in Request, NEW text \in situation.texts,
             NEW s \in {ServiceOf[h] : h \in Local} \cup {NoService}, BeginRequest(r, s, text)
      PROVE  TypeOK'
  <2>1. s \in Literal \cup {NoService} BY RequestsAssumption DEF Handler
  <2> QED BY <1>5, <2>1, StartTypes DEF BeginRequest
<1>6. ASSUME NEW r \in Request, RunLocal(r) PROVE TypeOK' BY <1>6, RunLocalTypes
<1>7. ASSUME NEW r \in Request, MissLocal(r) PROVE TypeOK' BY <1>7, MissLocalTypes
<1>8. ASSUME NEW r \in Request, FindRemote(r) PROVE TypeOK' BY <1>8, FindRemoteTypes
<1>9. ASSUME NEW r \in Request, SelectHandler(r) PROVE TypeOK' BY <1>9, SelectTypes
<1>10. CASE UNCHANGED vars
  <2>1. RequestState' = RequestState BY <1>10 DEF RequestState, vars
  <2> HIDE DEF RequestState
  <2> QED BY <1>10, <2>1 DEF TypeOK, vars
<1> QED BY <1>1, <1>2, <1>3, <1>4, <1>5, <1>6, <1>7, <1>8, <1>9, <1>10 DEF Next

\* Every trie, list and request of Requests keeps its type; no request comes to the
\* load balancer with an empty list (node.rs), so no division by zero happens there.
THEOREM TypeCorrect == Spec => []TypeOK
BY InitTypes, StepTypes, PTL DEF Spec

-----------------------------------------------------------------------------
(***************************************************************************)
(* What is found for a topic without wildcards and names.                  *)
(***************************************************************************)

LEMMA ConcretePath ==
  ASSUME NEW t \in Seq(Segment), IsConcrete(t)
  PROVE  /\ t \in Seq(Literal) /\ t \in Seq(Literal \cup Param) /\ t \in Path /\ ~IsPattern(t)
         /\ MultiLast(t)
<1>1. Len(t) \in Nat /\ DOMAIN t = 1..Len(t) /\ t = [i \in 1..Len(t) |-> t[i]] OBVIOUS
<1>2. \A i \in 1..Len(t) : /\ t[i] \in Literal /\ t[i] \in Literal \cup Param /\ t[i] \in Key
                           /\ t[i] \notin {Star, Multi}
  BY <1>1, SegmentAssumption DEF IsConcrete, Key, Segment
<1>3. \A S : (\A i \in 1..Len(t) : t[i] \in S) => t \in Seq(S) BY <1>1
<1>4. t \in Seq(Literal) /\ t \in Seq(Literal \cup Param) /\ t \in Seq(Key)
  BY <1>2, <1>3
<1> QED BY <1>1, <1>2, <1>4 DEF Path, IsPattern, MultiLast

\* The search for a plain topic comes to the node of a path that the topic has the
\* segments for and that matches them one by one.
LEMMA SegmentsReach ==
  ASSUME NEW p \in Seq(Segment), p # <<>>, MultiLast(p), NEW t \in Seq(Segment), IsConcrete(t)
  PROVE  NodeOf(p) \in Reach(t, <<>>) <=> Len(p) <= Len(t) /\ SegmentsMatch(p, t)
<1> DEFINE n == NodeOf(p)
           L == Len(p)
           fits(i) == n[i] \in {t[i], Star, Template}
           covers(i) == \/ p[i] = Star
                        \/ p[i] = t[i] /\ p[i] \in Literal
                        \/ p[i] \in Param /\ t[i] \in Literal
<1>1. L \in Nat /\ L > 0 /\ DOMAIN p = 1..L /\ n \in Path /\ Len(n) = L BY NodeOfPath
<1>2. \A i \in 1..L : p[i] \in Segment /\ n[i] = IF p[i] \in Param THEN Template ELSE p[i]
  BY <1>1 DEF NodeOf
<1>3. Len(t) \in Nat /\ \A i \in 1..Len(t) : t[i] \in Literal BY ConcretePath
<1>4. Len(<<>>) = 0 OBVIOUS
<1> HIDE DEF n, L
<1>5. \A i \in 1..L : i <= Len(t) => (fits(i) <=> covers(i))
  BY <1>2, <1>3, SegmentAssumption DEF Segment
<1>6. \A i \in 1..L : n[i] = Multi <=> p[i] = Multi
  BY <1>2, SegmentAssumption DEF Segment
<1>7. \A i \in 1..L : i <= Len(t) /\ p[i] = t[i] => covers(i)
  BY <1>3
<1> HIDE DEF fits, covers
<1>8. n \in Reach(t, <<>>) <=>
        /\ L <= Len(t)
        /\ \A i \in 1..(L - 1) : fits(i)
        /\ n[L] = Multi \/ (L = Len(t) /\ fits(L))
  BY <1>1, <1>4 DEF Reach, fits
<1>9. L <= Len(t) /\ SegmentsMatch(p, t) <=>
        /\ L <= Len(t)
        /\ IF p[L] = Multi THEN Len(t) >= L - 1 /\ \A i \in 1..(L - 1) : covers(i)
           ELSE L = Len(t) /\ \A i \in 1..L : p[i] = t[i] \/ covers(i)
  BY <1>1 DEF SegmentsMatch, covers, L
<1>10. L \in 1..L /\ \A i \in 1..L : i \in 1..(L - 1) \/ i = L BY <1>1
<1>11. CASE ~(L <= Len(t)) BY <1>8, <1>9, <1>11 DEF n, L
<1>12. CASE L <= Len(t) /\ p[L] = Multi
  <2>1. \A i \in 1..(L - 1) : i \in 1..L /\ i <= Len(t) BY <1>1, <1>3, <1>12
  <2>2. Len(t) >= L - 1 BY <1>1, <1>3, <1>12
  <2> QED BY <1>5, <1>6, <1>8, <1>9, <1>10, <1>12, <2>1, <2>2 DEF n, L
<1>13. CASE L <= Len(t) /\ p[L] # Multi
  <2>1. \A i \in 1..L : i <= Len(t) BY <1>1, <1>3, <1>13
  <2>2. n[L] # Multi BY <1>6, <1>10, <1>13
  <2>3. \A i \in 1..L : fits(i) <=> (p[i] = t[i] \/ covers(i)) BY <1>5, <1>7, <2>1
  <2>4. \A i \in 1..(L - 1) : i \in 1..L BY <1>1
  <2> QED BY <1>8, <1>9, <1>10, <1>13, <2>2, <2>3, <2>4 DEF n, L
<1> QED BY <1>11, <1>12, <1>13

\* A handler's path covers a topic if the search for the topic comes to its node.
LEMMA AnswersReach ==
  ASSUME NEW h \in Handler, NEW t \in Seq(Segment), IsConcrete(t)
  PROVE  Answers(h, t) <=> NodeOf(PathOf(h)) \in Reach(t, <<>>)
BY PathParts, SegmentsReach DEF Answers

\* find_matches for such a topic finds what is kept at these nodes, and nothing else.
LEMMA ConcreteMatches ==
  ASSUME NEW V, NEW trie, IsTrie(trie, V), NEW t \in Seq(Segment), IsConcrete(t),
         NEW order \in Orders, NEW v
  PROVE  /\ HasItem(FindMatches(trie, t, order), v)
              <=> \E n \in DOMAIN trie : n \in Reach(t, <<>>) /\ HasItem(trie[n], v)
         /\ FindMatches(trie, t, order) = FindExact(trie, t)
<1>1. t \in Seq(Literal \cup Param) /\ ~IsPattern(t) BY ConcretePath
<1>2. FindMatches(trie, t, order) = FindExact(trie, t) BY <1>1 DEF FindMatches
<1>3. \A n \in DOMAIN trie : trie[n] \in Seq(V) BY DEF IsTrie
<1>4. Lists(FindExact(trie, t), trie, Reach(t, <<>>)) BY <1>1, <1>3, ExactLists
<1>5. HasItem(FindExact(trie, t), v) <=> \E n \in Reach(t, <<>>) : HasItem(At(trie, n), v)
  BY <1>3, <1>4, ListsItems
<1>6. \A n : HasItem(At(trie, n), v) <=> n \in DOMAIN trie /\ HasItem(trie[n], v)
  BY DEF At, HasItem
<1> QED BY <1>2, <1>5, <1>6

LEMMA FirstOfFour ==
  ASSUME NEW V, NEW a \in Seq(V), NEW b \in Seq(V), NEW c \in Seq(V), NEW d \in Seq(V),
         b # <<>>
  PROVE  /\ a \o b \o c \o d \in Seq(V) /\ a \o b \o c \o d # <<>>
         /\ (a \o b \o c \o d)[1] = IF a # <<>> THEN a[1] ELSE b[1]
<1>1. ASSUME NEW s \in Seq(V), NEW r \in Seq(V), s # <<>>
      PROVE  s \o r \in Seq(V) /\ s \o r # <<>> /\ (s \o r)[1] = s[1]
  <2>1. /\ s \o r \in Seq(V) /\ Len(s \o r) = Len(s) + Len(r)
        /\ \A i \in 1..(Len(s) + Len(r)) : (s \o r)[i] = IF i <= Len(s) THEN s[i] ELSE r[i - Len(s)]
    BY ConcatProperties
  <2>2. Len(s) \in Nat /\ Len(s) > 0 /\ Len(r) \in Nat BY <1>1
  <2> QED BY <2>1, <2>2
<1>2. a \o b \in Seq(V) /\ a \o b # <<>> /\ (a \o b)[1] = IF a # <<>> THEN a[1] ELSE b[1]
  <2>1. CASE a # <<>> BY <1>1, <2>1
  <2>2. CASE a = <<>>
    <3>1. a \o b = b BY <2>2
    <3> QED BY <2>2, <3>1
  <2> QED BY <2>1, <2>2
<1> DEFINE ab == a \o b
<1>3. ab \o c \in Seq(V) /\ ab \o c # <<>> /\ (ab \o c)[1] = ab[1]
  <2> HIDE DEF ab
  <2> QED BY <1>1, <1>2 DEF ab
<1> DEFINE abc == ab \o c
<1>4. abc \o d \in Seq(V) /\ abc \o d # <<>> /\ (abc \o d)[1] = abc[1]
  <2> HIDE DEF abc
  <2> QED BY <1>1, <1>3 DEF abc
<1> QED BY <1>2, <1>3, <1>4

\* Whatever function satisfies the equation of the search gives lists of values.
LEMMA ExactTyped ==
  ASSUME NEW V, NEW trie, \A n \in DOMAIN trie : trie[n] \in Seq(V),
         NEW topic \in Seq(Literal \cup Param),
         NEW find, find = Exact(trie, topic, find), NEW node \in Path
  PROVE  find[node] \in Seq(V)
<1> DEFINE L == Len(topic)
           T == {k \in Nat : \E n \in Path : find[n] \notin Seq(V)
                                /\ k = IF Len(n) >= L THEN 0 ELSE L - Len(n)}
<1>1. L \in Nat /\ (\A n \in Path : Len(n) \in Nat) /\ {Star, Multi, Template} \subseteq Key
      /\ \A i \in 1..L : topic[i] \in Key
  BY DEF Path, Key, Segment
<1>2. \A n : At(trie, n) \in Seq(V)
  <2>1. <<>> \in Seq(V) OBVIOUS
  <2> QED BY <2>1 DEF At
<1>3. SUFFICES ASSUME T # {} PROVE FALSE
  <2>1. ASSUME NEW n \in Path, find[n] \notin Seq(V) PROVE T # {}
    <3>1. (IF Len(n) >= L THEN 0 ELSE L - Len(n)) \in Nat BY <1>1
    <3> QED BY <2>1, <3>1
  <2> QED BY <2>1
<1>4. PICK k \in T : \A j \in T : k <= j
  <2>1. T \subseteq Nat OBVIOUS
  <2> HIDE DEF T
  <2> QED BY <1>3, <2>1, LeastNumber
<1>5. PICK n \in Path : find[n] \notin Seq(V) /\ k = IF Len(n) >= L THEN 0 ELSE L - Len(n)
  BY <1>4
<1>6. CASE Len(n) >= L
  <2>1. find[n] = At(trie, n) BY <1>6 DEF Exact
  <2> QED BY <1>2, <1>5, <2>1
<1>7. CASE ~(Len(n) >= L)
  <2> DEFINE a == Child(trie, n, Multi)
             b == find[Append(n, topic[Len(n) + 1])]
             c == find[Append(n, Star)]
             d == find[Append(n, Template)]
  <2>1. find[n] = a \o b \o c \o d
    <3>1. Exact(trie, topic, find)[n] = a \o b \o c \o d BY <1>7 DEF Exact
    <3> QED BY <3>1
  <2>2. topic[Len(n) + 1] \in Key
    <3>1. Len(n) + 1 \in 1..L BY <1>1, <1>7
    <3> QED BY <1>1, <3>1
  <2>3. \A key \in Key : find[Append(n, key)] \in Seq(V)
    <3> SUFFICES ASSUME NEW key \in Key, find[Append(n, key)] \notin Seq(V) PROVE FALSE OBVIOUS
    <3> DEFINE m == Append(n, key)
    <3>1. m \in Path /\ Len(m) = Len(n) + 1 BY AppendParts
    <3> HIDE DEF m
    <3> DEFINE j == IF Len(m) >= L THEN 0 ELSE L - Len(m)
    <3>2. j \in Nat /\ ~(k <= j) BY <1>1, <1>5, <1>7, <3>1
    <3>3. j \in T BY <3>1, <3>2 DEF m
    <3> HIDE DEF j, T
    <3> QED BY <1>4, <3>2, <3>3
  <2>4. a \in Seq(V) /\ b \in Seq(V) /\ c \in Seq(V) /\ d \in Seq(V)
    BY <1>1, <1>2, <2>2, <2>3 DEF Child
  <2> HIDE DEF a, b, c, d
  <2>5. ASSUME NEW s \in Seq(V), NEW r \in Seq(V) PROVE s \o r \in Seq(V) BY ConcatProperties
  <2> DEFINE ab == a \o b
             abc == ab \o c
  <2>6. ab \in Seq(V) BY <2>4, <2>5
  <2> HIDE DEF ab
  <2>7. abc \in Seq(V) BY <2>4, <2>5, <2>6
  <2> HIDE DEF abc
  <2>8. abc \o d \in Seq(V) BY <2>4, <2>5, <2>7
  <2> QED BY <1>5, <2>1, <2>8 DEF ab, abc
<1> QED BY <1>6, <1>7

\* What is kept for the very topic comes before all but what is kept for >.
LEMMA ExactHead ==
  ASSUME NEW V, NEW trie, \A n \in DOMAIN trie : trie[n] \in Seq(V),
         NEW t \in Seq(Literal), At(trie, t) # <<>>
  PROVE  /\ FindExact(trie, t) # <<>>
         /\ \E n \in Path : /\ n = t \/ (n # <<>> /\ n[Len(n)] = Multi)
                            /\ HasItem(At(trie, n), FindExact(trie, t)[1])
<1> DEFINE find == CHOOSE find : find = Exact(trie, t, find)
           L == Len(t)
           Upto(k) == [i \in 1..k |-> t[i]]
           Right(k) == /\ find[Upto(k)] \in Seq(V) /\ find[Upto(k)] # <<>>
                       /\ \E n \in Path : /\ n = t \/ (n # <<>> /\ n[Len(n)] = Multi)
                                          /\ HasItem(At(trie, n), find[Upto(k)][1])
<1>0. t \in Seq(Literal \cup Param)
  <2>1. t \in [1..Len(t) -> Literal] /\ Len(t) \in Nat OBVIOUS
  <2>2. t \in [1..Len(t) -> Literal \cup Param] BY <2>1
  <2> QED BY <2>1, <2>2
<1>1. find = Exact(trie, t, find)
  <2>1. \E f : f = Exact(trie, t, f) BY <1>0, ExactExists
  <2> QED BY <2>1
<1>2. FindExact(trie, t) = find[<<>>] BY DEF FindExact, Exact, Path, Key
<1>3. find \in [Path -> Seq(V)]
  <2>1. \A n \in Path : find[n] \in Seq(V) BY <1>0, <1>1, ExactTyped
  <2>2. find = [n \in Path |-> find[n]] BY <1>1 DEF Exact
  <2> QED BY <2>1, <2>2
<1> HIDE DEF find
<1>4. L \in Nat /\ \A i \in 1..L : t[i] \in Literal OBVIOUS
<1>5. \A k \in 0..L : Upto(k) \in Path /\ Len(Upto(k)) = k
  BY <1>4 DEF Path, Key, Segment
<1>6. Upto(L) = t OBVIOUS
<1>7. Upto(0) = <<>> OBVIOUS
<1>8. Right(L)
  <2>1. t \in Path /\ Len(t) >= L BY <1>4, <1>5, <1>6
  <2>2. find[t] = At(trie, t) BY <1>1, <2>1 DEF Exact
  <2>3. At(trie, t) \in Seq(V) BY <1>3, <2>1, <2>2
  <2>4. HasItem(At(trie, t), At(trie, t)[1]) BY <2>3 DEF HasItem
  <2> QED BY <1>6, <2>1, <2>2, <2>3, <2>4
<1>9. ASSUME NEW k \in 0..L, k < L, Right(k + 1) PROVE Right(k)
  <2> DEFINE node == Upto(k)
             a == Child(trie, node, Multi)
             b == find[Append(node, t[k + 1])]
             c == find[Append(node, Star)]
             d == find[Append(node, Template)]
  <2>1. node \in Path /\ Len(node) = k BY <1>5
  <2>2. k + 1 \in 1..L /\ k + 1 \in 0..L BY <1>4, <1>9
  <2>3. t[k + 1] \in Key /\ Star \in Key /\ Template \in Key /\ Multi \in Key
    BY <1>4, <2>2 DEF Key, Segment
  <2>4. Append(node, t[k + 1]) = Upto(k + 1) BY <1>4, <2>2
  <2> HIDE DEF node
  <2>5. find[node] = a \o b \o c \o d
    <3>1. ~(Len(node) >= Len(t)) /\ Len(node) + 1 = k + 1 BY <1>4, <1>9, <2>1
    <3>2. Exact(trie, t, find)[node] = a \o b \o c \o d BY <2>1, <3>1 DEF Exact
    <3> QED BY <1>1, <3>2
  <2>6. a \in Seq(V)
    <3>1. <<>> \in Seq(V) OBVIOUS
    <3> QED BY <3>1 DEF Child, At
  <2>7. b \in Seq(V) /\ c \in Seq(V) /\ d \in Seq(V)
    BY <1>3, <2>1, <2>3, AppendParts
  <2>8. /\ b # <<>>
        /\ \E n \in Path : (n = t \/ (n # <<>> /\ n[Len(n)] = Multi)) /\ HasItem(At(trie, n), b[1])
    BY <1>9, <2>4
  <2> DEFINE m == Append(node, Multi)
  <2>9. m \in Path /\ m # <<>> /\ m[Len(m)] = Multi
    <3>1. m \in Path /\ Len(m) = Len(node) + 1 /\ m[Len(node) + 1] = Multi
      BY <2>1, <2>3, AppendParts
    <3>2. Len(<<>>) = 0 /\ Len(node) + 1 # 0 BY <2>1
    <3> HIDE DEF m
    <3> QED BY <3>1, <3>2
  <2>10. a # <<>> => HasItem(At(trie, m), a[1]) BY <2>6 DEF Child, HasItem
  <2> HIDE DEF a, b, c, d, m
  <2>11. /\ a \o b \o c \o d \in Seq(V) /\ a \o b \o c \o d # <<>>
         /\ (a \o b \o c \o d)[1] = IF a # <<>> THEN a[1] ELSE b[1]
    <3>1. b # <<>> BY <2>8
    <3> QED BY <2>6, <2>7, <3>1, FirstOfFour
  <2> QED BY <2>5, <2>8, <2>9, <2>10, <2>11 DEF node
<1> HIDE DEF Right, Upto
<1> DEFINE T == {j \in Nat : \E k \in 0..L : j = L - k /\ ~Right(k)}
<1>10. T = {}
  <2>1. SUFFICES ASSUME T # {} PROVE FALSE OBVIOUS
  <2>2. PICK j \in T : \A i \in T : j <= i
    <3>1. T \subseteq Nat OBVIOUS
    <3> HIDE DEF T
    <3> QED BY <2>1, <3>1, LeastNumber
  <2>3. PICK k \in 0..L : j = L - k /\ ~Right(k) BY <2>2
  <2>4. k # L BY <1>8, <2>3
  <2>5. k + 1 \in 0..L /\ k < L /\ L - (k + 1) \in Nat /\ ~(L - k <= L - (k + 1))
    BY <1>4, <2>3, <2>4
  <2>6. Right(k + 1) BY <2>2, <2>3, <2>5
  <2> QED BY <1>9, <2>3, <2>5, <2>6
<1>11. Right(0)
  <2>1. 0 \in 0..L /\ L - 0 \in Nat BY <1>4
  <2> QED BY <1>10, <2>1
<1> QED BY <1>2, <1>7, <1>11 DEF Right

-----------------------------------------------------------------------------
(***************************************************************************)
(* The inductive invariant.                                                *)
(***************************************************************************)

\* A local handler is kept once, at the node of its path.
LocalInv ==
  \A n \in Node :
    /\ Distinct(local_action_handlers[n])
    /\ \A h \in Handler : HasItem(local_action_handlers[n], h) => NodeOf(PathOf(h)) = n

\* What a handler in a list at n answers includes what n is found for.
Serves(h, n) ==
  LET p == PathOf(h)
  IN  Len(p) = Len(n) /\ \A i \in DOMAIN p : p[i] = n[i] \/ p[i] \in Param

\* A list ends in the handler it was made for; the others were copied.
ListOK(list, n) ==
  /\ \E h \in Remote : HasItem(list, h) /\ NodeOf(PathOf(h)) = n
  /\ \A h \in Handler : HasItem(list, h) =>
       h \in situation.registers /\ (RemotePlain => Serves(h, n))

RemoteInv ==
  \A n \in Node : \A list : HasItem(remote_action_handlers[n], list) => ListOK(list, n)

\* FoundIfKept and ReachesHandler, of one request.
FoundOf(q) ==
  LET local == q.kept \cap Local
  IN  q.step \notin {"idle", "invalid"} /\ IsConcrete(q.topic) =>
        /\ q.step = "refused" => (IF q.local_only THEN local ELSE q.kept) = {}
        /\ q.step \in {"remote", "selecting", "ran_remote"} => local = {}

ReachedOf(q) ==
  q.step \in {"ran_local", "ran_remote"} /\ IsConcrete(q.topic) =>
    /\ q.handler \in Local \/ RemotePlain => Answers(q.handler, q.topic)
    /\ q.handler \in Local /\ ~HasWildcard(q.handler) =>
         /\ ParamsNamed(q)
         /\ (\E k \in q.kept \cap Local : PathOf(k) = q.topic) => PathOf(q.handler) = q.topic

\* The handlers a request counts on are there; those it chooses from are for its topic.
KeptOf(q) ==
  q.step \in {"local", "remote", "selecting"} =>
    \A h \in q.kept : IsRegistered(h) /\ Answers(h, q.topic)

ChosenOf(q) ==
  q.step = "selecting" /\ IsConcrete(q.topic) /\ RemotePlain =>
    \A h \in Handler : HasItem(q.handlers, h) => Answers(h, q.topic)

RightOf(q) == FoundOf(q) /\ ReachedOf(q) /\ KeptOf(q) /\ ChosenOf(q)

AllRight == \A r \in Request : RightOf(request[r])

IInv == LocalInv /\ RemoteInv /\ AllRight

LEMMA RightFound == AllRight => FoundIfKept /\ ReachesHandler
BY DEF AllRight, RightOf, FoundOf, ReachedOf, FoundIfKept, ReachesHandler, Ran

LEMMA InitRight == Init => IInv
<1> SUFFICES ASSUME Init PROVE IInv OBVIOUS
<1>1. LocalInv BY DEF Init, LocalInv, Distinct, HasItem
<1>2. RemoteInv BY DEF Init, RemoteInv, HasItem
<1>3. AllRight BY DEF Init, AllRight, RightOf, FoundOf, ReachedOf, KeptOf, ChosenOf
<1> QED BY <1>1, <1>2, <1>3 DEF IInv

LEMMA DistinctAppend ==
  ASSUME NEW V, NEW s \in Seq(V), NEW x \in V, Distinct(s), ~HasItem(s, x)
  PROVE  Distinct(Append(s, x))
<1> DEFINE b == <<x>>
<1>1. b \in Seq(V) /\ Distinct(b) /\ \A v : HasItem(b, v) => v = x BY DEF Distinct, HasItem
<1>2. Append(s, x) = s \o b OBVIOUS
<1> HIDE DEF b
<1>3. \A v : ~(HasItem(s, v) /\ HasItem(b, v)) BY <1>1
<1> QED BY <1>1, <1>2, <1>3, DistinctBoth

LEMMA LocalStep == TypeOK /\ LocalInv /\ [Next]_vars => LocalInv'
<1> SUFFICES ASSUME TypeOK, LocalInv, [Next]_vars PROVE LocalInv' OBVIOUS
<1>1. ASSUME NEW h \in Handler, RegisterLocalActionHandler(h) PROVE LocalInv'
  <2> DEFINE node == NodeOf(PathOf(h))
  <2>1. /\ h \in Local /\ ~IsRegistered(h)
        /\ local_action_handlers' = SetValue(local_action_handlers, PathOf(h), h)
    BY <1>1 DEF RegisterLocalActionHandler
  <2>2. local_action_handlers \in [Node -> Seq(Local)] /\ node \in Node BY PathParts DEF TypeOK
  <2> DEFINE trie == local_action_handlers
             more == SetValue(trie, PathOf(h), h)
  <2>3. \A n \in Node : \A k : HasItem(local_action_handlers'[n], k)
           <=> HasItem(local_action_handlers[n], k) \/ (n = node /\ k = h)
    <3>1. trie \in [Node -> Seq(Local)] /\ h \in Local BY <2>1, <2>2
    <3>2. Adds(trie, more, node, h) BY <3>1, SetValueParts
    <3>3. local_action_handlers' = more BY <2>1
    <3> HIDE DEF more
    <3> QED BY <3>2, <3>3 DEF Adds
  <2>4. ~HasItem(local_action_handlers[node], h) BY <2>1, RegisteredItems
  <2>5. ASSUME NEW n \in Node PROVE Distinct(local_action_handlers'[n])
    <3>1. local_action_handlers'[n]
            = IF n = node THEN Append(local_action_handlers[n], h) ELSE local_action_handlers[n]
      BY <2>1, <2>2 DEF SetValue
    <3>2. Distinct(local_action_handlers[n]) /\ local_action_handlers[n] \in Seq(Local)
      BY <2>2 DEF LocalInv
    <3> QED BY <2>1, <2>4, <3>1, <3>2, DistinctAppend
  <2> QED BY <2>3, <2>5 DEF LocalInv
<1>2. CASE local_action_handlers' = local_action_handlers BY <1>2 DEF LocalInv
<1> QED BY <1>1, <1>2 DEF Next, vars, RegisterRemoteActionHandler, RemoveRemoteActionHandler,
        BeginLocalRequest, BeginRequest, Start, RunLocal, MissLocal, FindRemote, SelectHandler

LEMMA SituationStays == [Next]_vars => situation' = situation
BY DEF Next, vars, RegisterLocalActionHandler, RegisterRemoteActionHandler,
       RemoveRemoteActionHandler, BeginLocalRequest, BeginRequest, Start, RunLocal, MissLocal,
       FindRemote, SelectHandler

\* Who serves a node that the search for a plain path comes to serves that path's node.
LEMMA ServesOn ==
  ASSUME NEW h \in Handler, NEW k \in Handler, ~HasWildcard(k), NEW m \in Handler, ~HasWildcard(m),
         NodeOf(PathOf(m)) \in Reach(PathOf(k), <<>>), Serves(h, NodeOf(PathOf(m)))
  PROVE  Serves(h, NodeOf(PathOf(k)))
<1> DEFINE p == PathOf(h)
           n == NodeOf(PathOf(m))
           t == PathOf(k)
<1>1. /\ p \in Seq(Segment) /\ Len(p) \in Nat /\ DOMAIN p = 1..Len(p) /\ Len(p) > 0
      /\ n \in Path /\ Len(NodeOf(t)) = Len(t) /\ t \in Seq(Segment)
      /\ Len(n) = Len(PathOf(m)) /\ PathOf(m) \in Seq(Segment)
  BY PathParts
<1>2. \A i \in 1..Len(n) : n[i] \notin {Star, Multi}
  <2>1. \A i \in 1..Len(n) : PathOf(m)[i] \notin {Star, Multi} BY <1>1 DEF HasWildcard, IsPattern
  <2>2. \A i \in 1..Len(n) : n[i] = IF PathOf(m)[i] \in Param THEN Template ELSE PathOf(m)[i]
    BY <1>1 DEF NodeOf
  <2> QED BY <2>1, <2>2, SegmentAssumption
<1>3. Len(p) = Len(n) /\ \A i \in 1..Len(p) : p[i] = n[i] \/ p[i] \in Param
  BY <1>1 DEF Serves
<1>4. Len(<<>>) = 0 OBVIOUS
<1>5. n \in Reach(t, <<>>) OBVIOUS
<1> HIDE DEF n, p, t
<1>6. Len(n) = Len(t) /\ \A i \in 1..Len(n) : n[i] \in {t[i], Template}
  <2>1. /\ \A i \in 1..(Len(n) - 1) : n[i] \in {t[i], Star, Template}
        /\ IF Len(n) = 0 THEN Len(n) = Len(t)
           ELSE \/ n[Len(n)] = Multi
                \/ Len(n) = Len(t) /\ n[Len(n)] \in {t[Len(n)], Star, Template}
    BY <1>4, <1>5 DEF Reach
  <2>2. Len(n) \in 1..Len(n) BY <1>1, <1>3
  <2>3. n[Len(n)] # Multi BY <1>2, <2>2
  <2>4. \A i \in 1..Len(n) : i \in 1..(Len(n) - 1) \/ i = Len(n) BY <1>1, <1>3
  <2> QED BY <1>1, <1>2, <1>3, <2>1, <2>2, <2>3, <2>4
<1>7. \A i \in 1..Len(t) : NodeOf(t)[i] = IF t[i] \in Param THEN Template ELSE t[i]
  BY <1>1 DEF NodeOf
<1>8. \A i \in 1..Len(p) : p[i] \in Segment /\ p[i] # Template
  BY <1>1, SegmentAssumption DEF Segment
<1>9. ASSUME NEW i \in 1..Len(p) PROVE p[i] = NodeOf(t)[i] \/ p[i] \in Param
  <2>1. i \in 1..Len(n) /\ i \in 1..Len(t) BY <1>3, <1>6
  <2> QED BY <1>3, <1>6, <1>7, <1>8, <2>1
<1>10. Len(p) = Len(NodeOf(t)) BY <1>1, <1>3, <1>6
<1> QED BY <1>1, <1>9, <1>10 DEF Serves, p, t

\* The list of a registration is one for its node.
LEMMA ListMade ==
  ASSUME TypeOK, RemoteInv, NEW h \in Remote, h \in situation.registers, NEW order \in Orders
  PROVE  LET matches == FindMatches(remote_action_handlers, PathOf(h), order)
         IN  ListOK(IF matches = <<>> THEN <<h>> ELSE Append(matches[1], h), NodeOf(PathOf(h)))
<1> DEFINE matches == FindMatches(remote_action_handlers, PathOf(h), order)
           list == IF matches = <<>> THEN <<h>> ELSE Append(matches[1], h)
           node == NodeOf(PathOf(h))
<1>1. h \in Handler /\ PathOf(h) \in Seq(Segment) /\ MultiLast(PathOf(h)) /\ order \in Seq(Literal)
  BY PathParts, RequestsAssumption DEF Handler
<1>2. matches \in Seq(Seq(Remote)) BY RemoteList
<1>3. RemotePlain => ~HasWildcard(h) BY DEF RemotePlain
<1>4. Serves(h, node)
  <2>1. Len(node) = Len(PathOf(h)) BY <1>1, PathParts
  <2>2. \A i \in DOMAIN PathOf(h) : PathOf(h)[i] = node[i] \/ PathOf(h)[i] \in Param
    BY DEF NodeOf
  <2> QED BY <2>1, <2>2 DEF Serves
<1>5. ASSUME matches # <<>>, NEW k \in Handler, HasItem(matches[1], k)
      PROVE  k \in situation.registers /\ (RemotePlain => Serves(k, node))
  <2> DEFINE l == matches[1]
  <2>1. HasItem(matches, l) BY <1>2, <1>5 DEF HasItem
  <2> HIDE DEF l
  <2>2. PICK n \in DOMAIN remote_action_handlers :
          /\ HasItem(remote_action_handlers[n], l)
          /\ ~IsPattern(PathOf(h)) => n \in Reach(PathOf(h), <<>>)
    BY <1>1, <2>1, RemoteTrie, FindMatchesUnder
  <2>3. ListOK(l, n) BY <2>2 DEF RemoteInv, TypeOK
  <2>4. k \in situation.registers /\ (RemotePlain => Serves(k, n))
    BY <1>5, <2>3 DEF ListOK, l
  <2>5. PICK m \in Remote : HasItem(l, m) /\ NodeOf(PathOf(m)) = n BY <2>3 DEF ListOK
  <2>6. m \in Handler BY DEF Handler
  <2>7. m \in situation.registers BY <2>3, <2>5, <2>6 DEF ListOK
  <2>8. ASSUME RemotePlain PROVE Serves(k, node)
    <3>1. ~HasWildcard(m) /\ ~HasWildcard(h) BY <1>3, <2>7, <2>8 DEF RemotePlain
    <3>2. n \in Reach(PathOf(h), <<>>) BY <2>2, <3>1 DEF HasWildcard
    <3>3. NodeOf(PathOf(m)) \in Reach(PathOf(h), <<>>) /\ Serves(k, NodeOf(PathOf(m)))
      BY <2>4, <2>5, <2>8, <3>2
    <3> QED BY <1>1, <2>6, <3>1, <3>3, ServesOn
  <2> QED BY <2>4, <2>8
<1>6. HasItem(list, h) /\ \A k : HasItem(list, k) => k = h \/ (matches # <<>> /\ HasItem(matches[1], k))
  <2>1. CASE matches = <<>> BY <2>1 DEF HasItem
  <2>2. CASE matches # <<>>
    <3> DEFINE l == matches[1]
    <3>1. l \in Seq(Remote) BY <1>2, <2>2
    <3> HIDE DEF l
    <3>2. \A k : HasItem(Append(l, h), k) <=> HasItem(l, k) \/ k = h BY <3>1, AppendItems
    <3> QED BY <2>2, <3>2 DEF l
  <2> QED BY <2>1, <2>2
<1> HIDE DEF list, matches, node
<1>7. ListOK(list, node) BY <1>4, <1>5, <1>6 DEF ListOK, node
<1> QED BY <1>7 DEF list, matches, node

\* What a registration of a remote handler does to the trie.
LEMMA ListAdded ==
  ASSUME TypeOK, RemoteInv, NEW h \in Handler, RegisterRemoteActionHandler(h)
  PROVE  \E list : /\ Adds(remote_action_handlers, remote_action_handlers', NodeOf(PathOf(h)), list)
                   /\ ListOK(list, NodeOf(PathOf(h)))
<1> DEFINE list(order) ==
      LET matches == FindMatches(remote_action_handlers, PathOf(h), order)
      IN  IF matches = <<>> THEN <<h>> ELSE Append(matches[1], h)
<1>1. PICK order \in Orders :
        remote_action_handlers' = SetValue(remote_action_handlers, PathOf(h), list(order))
  BY DEF RegisterRemoteActionHandler
<1>2. h \in Remote /\ h \in situation.registers BY DEF RegisterRemoteActionHandler
<1>3. list(order) \in Seq(Remote) BY <1>2, RemoteList
<1>4. ListOK(list(order), NodeOf(PathOf(h))) BY <1>2, ListMade
<1> HIDE DEF list
<1> DEFINE trie == remote_action_handlers
           more == SetValue(trie, PathOf(h), list(order))
<1>5. trie \in [Node -> Seq(Seq(Remote))] BY DEF TypeOK
<1>6. Adds(trie, more, NodeOf(PathOf(h)), list(order)) BY <1>3, <1>5, SetValueParts
<1>7. remote_action_handlers' = more BY <1>1
<1> HIDE DEF more
<1> QED BY <1>4, <1>6, <1>7

LEMMA RemoteStep == TypeOK /\ RemoteInv /\ [Next]_vars => RemoteInv'
<1> SUFFICES ASSUME TypeOK, RemoteInv, [Next]_vars PROVE RemoteInv' OBVIOUS
<1>0. situation' = situation BY SituationStays
<1>1. \A list, n : ListOK(list, n) => ListOK(list, n)' BY <1>0 DEF ListOK, RemotePlain, Serves
<1>2. ASSUME NEW h \in Handler, RegisterRemoteActionHandler(h) PROVE RemoteInv'
  <2>1. PICK list : /\ Adds(remote_action_handlers, remote_action_handlers', NodeOf(PathOf(h)), list)
                    /\ ListOK(list, NodeOf(PathOf(h)))
    BY <1>2, ListAdded
  <2>2. ASSUME NEW n \in Node, NEW l, HasItem(remote_action_handlers'[n], l)
        PROVE  ListOK(l, n)
    BY <2>1, <2>2 DEF Adds, RemoteInv
  <2> QED BY <1>1, <2>2 DEF RemoteInv
<1>3. ASSUME NEW h \in Handler, RemoveRemoteActionHandler(h) PROVE RemoteInv'
  <2>1. \A n \in Node : remote_action_handlers'[n] \in {<<>>, remote_action_handlers[n]}
    BY <1>3, RemoveValuesParts DEF RemoveRemoteActionHandler
  <2>2. \A l : ~HasItem(<<>>, l) BY DEF HasItem
  <2>3. ASSUME NEW n \in Node, NEW l, HasItem(remote_action_handlers'[n], l)
        PROVE  ListOK(l, n)
    BY <2>1, <2>2, <2>3 DEF RemoteInv
  <2> QED BY <1>1, <2>3 DEF RemoteInv
<1>4. CASE remote_action_handlers' = remote_action_handlers BY <1>1, <1>4 DEF RemoteInv
<1> QED BY <1>2, <1>3, <1>4 DEF Next, vars, RegisterLocalActionHandler,
        BeginLocalRequest, BeginRequest, Start, RunLocal, MissLocal, FindRemote, SelectHandler

-----------------------------------------------------------------------------
\* Registrations and requests.

InLists(locals, remotes, h) ==
  IF h \in Local THEN HasItem(locals[NodeOf(PathOf(h))], h)
  ELSE \E list : HasItem(remotes[NodeOf(PathOf(h))], list) /\ HasItem(list, h)

LEMMA RegisteredNow ==
  ASSUME TypeOK, TypeOK', NEW h \in Handler
  PROVE  /\ IsRegistered(h) <=> InLists(local_action_handlers, remote_action_handlers, h)
         /\ IsRegistered(h)' <=> InLists(local_action_handlers', remote_action_handlers', h)
<1>1. IsRegistered(h) <=> InLists(local_action_handlers, remote_action_handlers, h)
  BY RegisteredItems DEF InLists
<1>2. ASSUME NEW lists \in Seq(Seq(Remote))
      PROVE  h \in Elements(Joined(lists, Len(lists)))
               <=> \E list : HasItem(lists, list) /\ HasItem(list, h)
  <2>1. Len(lists) \in Nat /\ DOMAIN lists = 1..Len(lists)
        /\ \A i \in 1..Len(lists) : lists[i] \in Seq(Remote)
    OBVIOUS
  <2>2. HasItem(Joined(lists, Len(lists)), h) <=> \E i \in 1..Len(lists) : HasItem(lists[i], h)
    BY <2>1, JoinedParts
  <2>3. h \in Elements(Joined(lists, Len(lists))) <=> HasItem(Joined(lists, Len(lists)), h)
    BY DEF Elements, HasItem
  <2>4. (\E i \in 1..Len(lists) : HasItem(lists[i], h))
          <=> \E list : HasItem(lists, list) /\ HasItem(list, h)
    BY <2>1 DEF HasItem
  <2> QED BY <2>2, <2>3, <2>4
<1> DEFINE node == NodeOf(PathOf(h))
           remotes == remote_action_handlers'[node]
<1>3. remotes \in Seq(Seq(Remote))
  <2>1. remote_action_handlers' \in [Node -> Seq(Seq(Remote))] BY DEF TypeOK
  <2> QED BY <2>1, PathParts
<1>4. IsRegistered(h)' <=> IF h \in Local THEN h \in Elements(local_action_handlers'[node])
                            ELSE h \in Elements(Joined(remotes, Len(remotes)))
  BY DEF IsRegistered
<1> HIDE DEF remotes
<1>5. h \in Elements(Joined(remotes, Len(remotes)))
        <=> \E list : HasItem(remotes, list) /\ HasItem(list, h)
  BY <1>2, <1>3
<1>6. h \in Elements(local_action_handlers'[node]) <=> HasItem(local_action_handlers'[node], h)
  BY DEF Elements, HasItem
<1> QED BY <1>1, <1>4, <1>5, <1>6 DEF InLists, remotes

\* Registrations take none away.
LEMMA RegisteredStays ==
  ASSUME TypeOK, TypeOK', RemoteInv, NEW h \in Handler,
         RegisterLocalActionHandler(h) \/ RegisterRemoteActionHandler(h),
         NEW k \in Handler, IsRegistered(k)
  PROVE  IsRegistered(k)'
<1> DEFINE node == NodeOf(PathOf(k))
<1>0. node \in Node BY PathParts
<1>1. InLists(local_action_handlers, remote_action_handlers, k) BY RegisteredNow
<1>2. SUFFICES InLists(local_action_handlers', remote_action_handlers', k) BY RegisteredNow
<1>3. CASE RegisterLocalActionHandler(h)
  <2> DEFINE trie == local_action_handlers
             more == SetValue(trie, PathOf(h), h)
  <2>1. /\ h \in Local /\ local_action_handlers' = more
        /\ remote_action_handlers' = remote_action_handlers
    BY <1>3 DEF RegisterLocalActionHandler
  <2>2. trie \in [Node -> Seq(Local)] BY DEF TypeOK
  <2>3. Adds(trie, more, NodeOf(PathOf(h)), h) BY <2>1, <2>2, SetValueParts
  <2> HIDE DEF more
  <2> QED BY <1>0, <1>1, <2>1, <2>3 DEF Adds, InLists
<1>4. CASE RegisterRemoteActionHandler(h)
  <2>1. PICK list : Adds(remote_action_handlers, remote_action_handlers', NodeOf(PathOf(h)), list)
    BY <1>4, ListAdded
  <2>2. local_action_handlers' = local_action_handlers BY <1>4 DEF RegisterRemoteActionHandler
  <2> QED BY <1>0, <1>1, <2>1, <2>2 DEF Adds, InLists
<1> QED BY <1>3, <1>4

\* The removal of a remote handler takes those of its node away, and no local one.
LEMMA RemovalSpares ==
  ASSUME TypeOK, TypeOK', NEW h \in Handler, RemoveRemoteActionHandler(h),
         NEW k \in Handler, IsRegistered(k), k \in Local \/ ~SameNode(k, h)
  PROVE  IsRegistered(k)'
<1>1. NodeOf(PathOf(k)) \in Node BY PathParts
<1>2. InLists(local_action_handlers, remote_action_handlers, k) BY RegisteredNow
<1>3. local_action_handlers' = local_action_handlers BY DEF RemoveRemoteActionHandler
<1>4. ~SameNode(k, h) =>
        remote_action_handlers'[NodeOf(PathOf(k))] = remote_action_handlers[NodeOf(PathOf(k))]
  BY <1>1, RemoveValuesParts DEF RemoveRemoteActionHandler, SameNode
<1>5. InLists(local_action_handlers', remote_action_handlers', k)
  BY <1>2, <1>3, <1>4 DEF InLists
<1> QED BY <1>5, RegisteredNow

\* A step of one request.
LEMMA OneRight ==
  ASSUME TypeOK, AllRight, NEW r \in Request, NEW q, RightOf(q),
         request' = [request EXCEPT ![r] = q],
         UNCHANGED <<situation, local_action_handlers, remote_action_handlers>>
  PROVE  AllRight'
<1>1. \A x : RightOf(x) => RightOf(x)'
  BY DEF RightOf, FoundOf, ReachedOf, KeptOf, ChosenOf, RemotePlain, IsRegistered
<1>2. \A s \in Request : request'[s] = IF s = r THEN q ELSE request[s] BY DEF TypeOK
<1> QED BY <1>1, <1>2 DEF AllRight

LEMMA StartRight ==
  ASSUME TypeOK, AllRight, NEW r \in Request, NEW asked, NEW only \in BOOLEAN,
         Start(r, asked, only)
  PROVE  AllRight'
<1> DEFINE t == Parse(asked)
           q == IF IsValid(asked) THEN Pending("local", t, only, Covering(t))
                ELSE [step |-> "invalid"]
<1>1. /\ request' = [request EXCEPT ![r] = q]
      /\ UNCHANGED <<situation, local_action_handlers, remote_action_handlers>>
  BY DEF Start
<1>2. ASSUME NEW kept, kept = Covering(t) PROVE RightOf(Pending("local", t, only, kept))
  BY <1>2 DEF Pending, RightOf, FoundOf, ReachedOf, KeptOf, ChosenOf, Covering
<1>3. RightOf([step |-> "invalid"])
  BY DEF RightOf, FoundOf, ReachedOf, KeptOf, ChosenOf
<1>4. RightOf(q) BY <1>2, <1>3
<1> HIDE DEF q
<1> QED BY <1>1, <1>4, OneRight

\* What is found for a topic on this node covers it, and has been registered for the
\* very topic if there is such a handler.
LEMMA FirstLocal ==
  ASSUME TypeOK, LocalInv, NEW t \in Seq(Segment), IsConcrete(t), NEW order \in Orders,
         LocalMatches(t, order) # <<>>
  PROVE  /\ Answers(LocalMatches(t, order)[1], t)
         /\ ~HasWildcard(LocalMatches(t, order)[1])
              => \A k \in Local : IsRegistered(k) /\ PathOf(k) = t
                                    => PathOf(LocalMatches(t, order)[1]) = t
<1> DEFINE matches == LocalMatches(t, order)
           h == matches[1]
           trie == local_action_handlers
<1>1. matches \in Seq(Local) BY LookUps
<1>2. h \in Local /\ HasItem(matches, h) /\ h \in Handler BY <1>1 DEF HasItem, Handler
<1>3. matches = FindMatches(trie, t, order) /\ IsTrie(trie, Local)
  BY LocalTrie DEF LocalMatches
<1>4. \A n \in Node : HasItem(trie[n], h) => NodeOf(PathOf(h)) = n BY <1>2 DEF LocalInv
<1>5. DOMAIN trie = Node /\ \A n \in DOMAIN trie : trie[n] \in Seq(Local) BY DEF TypeOK
<1> HIDE DEF h, trie, matches
<1>6. PICK n \in DOMAIN trie : n \in Reach(t, <<>>) /\ HasItem(trie[n], h)
  BY <1>2, <1>3, ConcreteMatches
<1>7. Answers(h, t) BY <1>2, <1>4, <1>5, <1>6, AnswersReach
<1>8. ASSUME ~HasWildcard(h), NEW k \in Local, IsRegistered(k), PathOf(k) = t
      PROVE  PathOf(h) = t
  <2>1. NodeOf(t) = t
    <3>1. Len(t) \in Nat /\ DOMAIN t = 1..Len(t) /\ t = [i \in 1..Len(t) |-> t[i]] OBVIOUS
    <3>2. \A i \in DOMAIN t : t[i] \notin Param BY SegmentAssumption DEF IsConcrete
    <3>3. NodeOf(t) = [i \in DOMAIN t |-> t[i]] BY <3>2 DEF NodeOf
    <3> QED BY <3>1, <3>3
  <2>2. k \in Handler BY DEF Handler
  <2>3. HasItem(trie[t], k) /\ t \in Node
    BY <1>8, <2>1, <2>2, RegisteredItems, PathParts DEF trie
  <2>4. At(trie, t) # <<>> BY <1>5, <2>3 DEF At, HasItem
  <2>5. t \in Seq(Literal) BY ConcretePath
  <2>6. PICK m \in Path : /\ m = t \/ (m # <<>> /\ m[Len(m)] = Multi)
                          /\ HasItem(At(trie, m), FindExact(trie, t)[1])
    BY <1>5, <2>4, <2>5, ExactHead
  <2>7. FindExact(trie, t)[1] = h BY <1>3, ConcreteMatches DEF h
  <2>8. HasItem(At(trie, m), h) BY <2>6, <2>7
  <2>9. m \in DOMAIN trie /\ HasItem(trie[m], h) BY <2>8 DEF At, HasItem
  <2>10. NodeOf(PathOf(h)) = m BY <1>4, <1>5, <2>9
  <2> DEFINE p == PathOf(h)
  <2>11. /\ p \in Seq(Segment) /\ Len(p) \in Nat /\ Len(p) > 0 /\ DOMAIN p = 1..Len(p)
         /\ Len(m) = Len(p)
    BY <1>2, <2>10, PathParts
  <2>12. \A i \in 1..Len(p) : /\ p[i] \in Segment /\ p[i] \notin {Star, Multi}
                              /\ m[i] = IF p[i] \in Param THEN Template ELSE p[i]
    BY <1>8, <2>10, <2>11 DEF NodeOf, HasWildcard, IsPattern
  <2> HIDE DEF p
  <2>13. m = t
    <3>1. Len(p) \in 1..Len(p) BY <2>11
    <3>2. m[Len(p)] # Multi BY <2>12, <3>1, SegmentAssumption
    <3> QED BY <2>6, <2>11, <3>2
  <2>14. Len(p) = Len(t) /\ \A i \in 1..Len(p) : p[i] = t[i]
    <3>1. \A i \in 1..Len(t) : t[i] \in Literal BY DEF IsConcrete
    <3>2. Template \notin Literal BY SegmentAssumption
    <3> QED BY <2>11, <2>12, <2>13, <3>1, <3>2
  <2> QED BY <2>11, <2>14, SeqEqual DEF p
<1> QED BY <1>7, <1>8 DEF h, matches

LEMMA RunLocalRight ==
  ASSUME TypeOK, LocalInv, AllRight, NEW r \in Request, RunLocal(r)
  PROVE  AllRight'
<1> DEFINE old == request[r]
           t == old.topic
           run(h) == [step |-> "ran_local", topic |-> t, kept |-> old.kept,
                      handler |-> h, path_params |-> ParamsFor(t, h)]
<1>1. /\ old.step = "local"
      /\ UNCHANGED <<situation, local_action_handlers, remote_action_handlers>>
      /\ \E order \in Orders : /\ LocalMatches(t, order) # <<>>
                               /\ request' = [request EXCEPT ![r] = run(LocalMatches(t, order)[1])]
  BY DEF RunLocal
<1>2. PICK order \in Orders : /\ LocalMatches(t, order) # <<>>
                              /\ request' = [request EXCEPT ![r] = run(LocalMatches(t, order)[1])]
  BY <1>1
<1>3. old \in Underway BY <1>1, RequestParts DEF TypeOK
<1>4. t \in Seq(Segment) /\ old.kept \subseteq Handler BY <1>3, AskedPaths DEF Underway
<1>5. \A k \in old.kept : IsRegistered(k) BY <1>1 DEF AllRight, RightOf, KeptOf
<1> DEFINE h == LocalMatches(t, order)[1]
<1>6. h \in Local /\ h \in Handler
  <2>1. LocalMatches(t, order) \in Seq(Local) BY <1>4, LookUps
  <2> QED BY <1>2, <2>1 DEF Handler
<1>7. IsConcrete(t) => /\ Answers(h, t)
                       /\ ~HasWildcard(h) => \A k \in Local : IsRegistered(k) /\ PathOf(k) = t
                                                 => PathOf(h) = t
  BY <1>2, <1>4, FirstLocal
<1>8. request' = [request EXCEPT ![r] = run(h)] BY <1>2
<1> HIDE DEF h, old
<1> DEFINE q == run(h)
<1>9. /\ q.step = "ran_local" /\ q.topic = t /\ q.kept = old.kept /\ q.handler = h
      /\ q.path_params = ParamsFor(t, h)
  OBVIOUS
<1>10. request' = [request EXCEPT ![r] = q] BY <1>8
<1> HIDE DEF q
<1>11. ASSUME IsConcrete(t), ~HasWildcard(h) PROVE ParamsNamed(q)
  <2> DEFINE params == ParamsFor(t, h)
  <2>1. /\ DOMAIN params = Names(PathOf(h))
        /\ \A name \in Names(PathOf(h)) : \E i \in DOMAIN PathOf(h) :
             PathOf(h)[i] = name /\ params[name] = <<t[i]>>
    BY <1>4, <1>6, <1>7, <1>11, ParamsParts
  <2> HIDE DEF params
  <2>2. q.path_params = params BY <1>9 DEF params
  <2> QED BY <1>9, <2>1, <2>2 DEF ParamsNamed
<1>12. RightOf(q)
  <2>1. FoundOf(q) /\ KeptOf(q) /\ ChosenOf(q) BY <1>9 DEF FoundOf, KeptOf, ChosenOf
  <2>2. ReachedOf(q) BY <1>5, <1>7, <1>9, <1>11 DEF ReachedOf
  <2> QED BY <2>1, <2>2 DEF RightOf
<1> QED BY <1>1, <1>10, <1>12, OneRight

LEMMA MissLocalRight ==
  ASSUME TypeOK, AllRight, NEW r \in Request, MissLocal(r)
  PROVE  AllRight'
<1> DEFINE old == request[r]
           t == old.topic
           q == [old EXCEPT !.step = IF old.local_only THEN "refused" ELSE "remote"]
<1>1. /\ old.step = "local"
      /\ UNCHANGED <<situation, local_action_handlers, remote_action_handlers>>
      /\ \E order \in Orders : LocalMatches(t, order) = <<>>
      /\ request' = [request EXCEPT ![r] = q]
  BY DEF MissLocal
<1>2. PICK order \in Orders : LocalMatches(t, order) = <<>> BY <1>1
<1>3. old \in Underway BY <1>1, RequestParts DEF TypeOK
<1>4. t \in Seq(Segment) /\ old.kept \subseteq Handler /\ old.local_only \in BOOLEAN
  BY <1>3, AskedPaths DEF Underway
<1>5. KeptOf(old) BY DEF AllRight, RightOf
<1>6. \A k \in old.kept : IsRegistered(k) /\ Answers(k, t) BY <1>1, <1>5 DEF KeptOf
<1>7. ASSUME IsConcrete(t), NEW k \in old.kept \cap Local PROVE FALSE
  <2> DEFINE node == NodeOf(PathOf(k))
             trie == local_action_handlers
  <2>1. k \in Handler /\ node \in Node BY <1>4, PathParts
  <2>2. HasItem(trie[node], k) BY <1>6, <2>1, RegisteredItems
  <2>3. node \in Reach(t, <<>>) BY <1>4, <1>6, <1>7, <2>1, AnswersReach
  <2>4. node \in DOMAIN trie /\ IsTrie(trie, Local) BY <2>1, LocalTrie DEF TypeOK
  <2> HIDE DEF node, trie
  <2>5. HasItem(FindMatches(trie, t, order), k)
    BY <1>4, <1>7, <2>2, <2>3, <2>4, ConcreteMatches
  <2>6. HasItem(LocalMatches(t, order), k) BY <2>5 DEF LocalMatches, trie
  <2> QED BY <1>2, <2>6 DEF HasItem
<1>8. /\ q.step = IF old.local_only THEN "refused" ELSE "remote"
      /\ q.topic = t /\ q.kept = old.kept /\ q.local_only = old.local_only
  BY <1>3 DEF Underway
<1> HIDE DEF q, old
<1>9. FoundOf(q) BY <1>4, <1>7, <1>8 DEF FoundOf
<1>10. ReachedOf(q) /\ ChosenOf(q) BY <1>8 DEF ReachedOf, ChosenOf
<1>11. KeptOf(q) BY <1>6, <1>8 DEF KeptOf
<1>12. RightOf(q) BY <1>9, <1>10, <1>11 DEF RightOf
<1> QED BY <1>1, <1>12, OneRight

\* A remote handler that serves a node the search for a topic comes to answers it.
LEMMA ServesAnswers ==
  ASSUME NEW h \in Handler, NEW m \in Handler, ~HasWildcard(m), NEW t \in Seq(Segment),
         IsConcrete(t), NodeOf(PathOf(m)) \in Reach(t, <<>>), Serves(h, NodeOf(PathOf(m)))
  PROVE  Answers(h, t)
<1> DEFINE p == PathOf(h)
           n == NodeOf(PathOf(m))
           L == Len(n)
<1>1. /\ p \in Seq(Segment) /\ Len(p) \in Nat /\ DOMAIN p = 1..Len(p) /\ Len(p) > 0
      /\ n \in Path /\ L = Len(PathOf(m)) /\ PathOf(m) \in Seq(Segment)
  BY PathParts
<1>2. \A i \in 1..L : n[i] \notin {Star, Multi}
  <2>1. \A i \in 1..L : PathOf(m)[i] \notin {Star, Multi} BY <1>1 DEF HasWildcard, IsPattern
  <2>2. \A i \in 1..L : n[i] = IF PathOf(m)[i] \in Param THEN Template ELSE PathOf(m)[i]
    BY <1>1 DEF NodeOf
  <2> QED BY <2>1, <2>2, SegmentAssumption
<1>3. Len(p) = L /\ \A i \in 1..Len(p) : p[i] = n[i] \/ p[i] \in Param
  BY <1>1 DEF Serves
<1>4. Len(<<>>) = 0 OBVIOUS
<1>5. n \in Reach(t, <<>>) OBVIOUS
<1>6. Len(t) \in Nat /\ \A i \in 1..Len(t) : t[i] \in Literal BY ConcretePath
<1>7. \A i \in 1..Len(p) : p[i] \in Segment BY <1>1
<1> HIDE DEF n, p
<1>8. L = Len(t) /\ \A i \in 1..L : n[i] \in {t[i], Template}
  <2>1. /\ \A i \in 1..(L - 1) : n[i] \in {t[i], Star, Template}
        /\ IF L = 0 THEN L = Len(t)
           ELSE \/ n[L] = Multi
                \/ L = Len(t) /\ n[L] \in {t[L], Star, Template}
    BY <1>4, <1>5 DEF Reach
  <2>2. L \in 1..L BY <1>1, <1>3
  <2>3. n[L] # Multi BY <1>2, <2>2
  <2>4. \A i \in 1..L : i \in 1..(L - 1) \/ i = L BY <1>1, <1>3
  <2> QED BY <1>1, <1>2, <1>3, <2>1, <2>2, <2>3, <2>4
<1>9. \A i \in 1..Len(p) : p[i] # Template BY <1>7, SegmentAssumption DEF Segment
<1>10. \A i \in 1..Len(p) : p[i] = t[i] \/ (p[i] \in Param /\ t[i] \in Literal)
  BY <1>3, <1>6, <1>8, <1>9
<1>11. p[Len(p)] # Multi
  <2>1. Len(p) \in 1..Len(p) BY <1>1
  <2>2. Multi \notin Literal \cup Param BY SegmentAssumption
  <2> QED BY <1>3, <1>6, <1>8, <1>10, <2>1, <2>2
<1>12. Len(p) = Len(t) BY <1>3, <1>8
<1>13. SegmentsMatch(p, t) BY <1>1, <1>10, <1>11, <1>12 DEF SegmentsMatch
<1> QED BY <1>1, <1>12, <1>13 DEF Answers, p

LEMMA FindRemoteRight ==
  ASSUME TypeOK, RemoteInv, AllRight, NEW r \in Request, FindRemote(r)
  PROVE  AllRight'
<1> DEFINE old == request[r]
           t == old.topic
           matches(order) == FindMatches(remote_action_handlers, t, order)
           list(order) == Joined(matches(order), Len(matches(order)))
           found(l) == IF l = <<>> THEN [old EXCEPT !.step = "refused"]
                       ELSE [step |-> "selecting", topic |-> t, kept |-> old.kept,
                             handlers |-> l]
<1>1. /\ old.step = "remote"
      /\ UNCHANGED <<situation, local_action_handlers, remote_action_handlers>>
      /\ \E order \in Orders : request' = [request EXCEPT ![r] = found(list(order))]
  BY DEF FindRemote
<1>2. PICK order \in Orders : request' = [request EXCEPT ![r] = found(list(order))]
  BY <1>1
<1>3. old \in Underway BY <1>1, RequestParts DEF TypeOK
<1>4. t \in Seq(Segment) /\ old.kept \subseteq Handler BY <1>3, AskedPaths DEF Underway
<1>5. KeptOf(old) /\ FoundOf(old) BY DEF AllRight, RightOf
<1>6. \A k \in old.kept : IsRegistered(k) /\ Answers(k, t) BY <1>1, <1>5 DEF KeptOf
<1>7. IsConcrete(t) => old.kept \cap Local = {} BY <1>1, <1>5 DEF FoundOf
<1> DEFINE trie == remote_action_handlers
           ms == FindMatches(trie, t, order)
           l == Joined(ms, Len(ms))
<1>8. l \in Seq(Remote) /\ \A h : HasItem(l, h) <=> \E x : HasItem(ms, x) /\ HasItem(x, h)
  BY <1>4, LookUps
<1>9. IsTrie(trie, Seq(Remote)) /\ DOMAIN trie = Node BY RemoteTrie DEF TypeOK
<1>10. request' = [request EXCEPT ![r] = found(l)] BY <1>2
<1> HIDE DEF l, old, trie, ms
<1>11. ASSUME IsConcrete(t), NEW k \in old.kept PROVE l # <<>>
  <2> DEFINE node == NodeOf(PathOf(k))
  <2>1. k \in Handler /\ node \in Node /\ k \notin Local BY <1>4, <1>7, <1>11, PathParts
  <2>2. PICK x : HasItem(trie[node], x) /\ HasItem(x, k)
    BY <1>6, <2>1, RegisteredItems DEF trie
  <2>3. node \in Reach(t, <<>>) BY <1>4, <1>6, <1>11, <2>1, AnswersReach
  <2> HIDE DEF node
  <2>4. HasItem(FindMatches(trie, t, order), x)
    BY <1>4, <1>9, <1>11, <2>1, <2>2, <2>3, ConcreteMatches
  <2>5. HasItem(l, k) BY <1>8, <2>2, <2>4 DEF ms
  <2> QED BY <2>5 DEF HasItem
<1>12. ASSUME IsConcrete(t), RemotePlain, NEW h \in Handler, HasItem(l, h)
       PROVE  Answers(h, t)
  <2>1. PICK x : HasItem(ms, x) /\ HasItem(x, h) BY <1>8, <1>12
  <2>2. HasItem(FindMatches(trie, t, order), x) BY <2>1 DEF ms
  <2>3. PICK n \in DOMAIN trie : n \in Reach(t, <<>>) /\ HasItem(trie[n], x)
    BY <1>4, <1>9, <1>12, <2>2, ConcreteMatches
  <2>4. ListOK(x, n) BY <1>9, <2>3 DEF RemoteInv, trie
  <2>5. Serves(h, n) BY <1>12, <2>1, <2>4 DEF ListOK
  <2>6. PICK m \in Remote : HasItem(x, m) /\ NodeOf(PathOf(m)) = n BY <2>4 DEF ListOK
  <2>7. m \in Handler BY DEF Handler
  <2>8. m \in situation.registers BY <2>4, <2>6, <2>7 DEF ListOK
  <2>9. ~HasWildcard(m) BY <1>12, <2>8 DEF RemotePlain
  <2>10. NodeOf(PathOf(m)) \in Reach(t, <<>>) /\ Serves(h, NodeOf(PathOf(m)))
    BY <2>3, <2>5, <2>6
  <2> QED BY <1>4, <1>12, <2>7, <2>9, <2>10, ServesAnswers
<1> DEFINE q == found(l)
<1>13. RightOf(q)
  <2>1. CASE l = <<>>
    <3>1. q.step = "refused" /\ q.topic = t /\ q.kept = old.kept /\ q.local_only = old.local_only
      BY <1>3, <2>1 DEF Underway
    <3> HIDE DEF q
    <3>2. FoundOf(q) BY <1>11, <2>1, <3>1 DEF FoundOf
    <3>3. ReachedOf(q) /\ ChosenOf(q) /\ KeptOf(q) BY <3>1 DEF ReachedOf, ChosenOf, KeptOf
    <3> QED BY <3>2, <3>3 DEF RightOf
  <2>2. CASE l # <<>>
    <3>1. q.step = "selecting" /\ q.topic = t /\ q.kept = old.kept /\ q.handlers = l
      BY <2>2
    <3> HIDE DEF q
    <3>2. FoundOf(q) BY <1>7, <3>1 DEF FoundOf
    <3>3. ReachedOf(q) BY <3>1 DEF ReachedOf
    <3>4. KeptOf(q) BY <1>6, <3>1 DEF KeptOf
    <3>5. ChosenOf(q) BY <1>12, <3>1 DEF ChosenOf
    <3> QED BY <3>2, <3>3, <3>4, <3>5 DEF RightOf
  <2> QED BY <2>1, <2>2
<1>14. request' = [request EXCEPT ![r] = q] BY <1>10
<1> HIDE DEF q
<1> QED BY <1>1, <1>13, <1>14, OneRight

LEMMA SelectRight ==
  ASSUME TypeOK, AllRight, NEW r \in Request, SelectHandler(r)
  PROVE  AllRight'
<1> DEFINE old == request[r]
           index == Index(old.handlers)
           q == [step |-> "ran_remote", topic |-> old.topic, kept |-> old.kept,
                 index |-> index, among |-> Len(old.handlers),
                 handler |-> old.handlers[index + 1]]
<1>1. /\ old.step = "selecting"
      /\ UNCHANGED <<situation, local_action_handlers, remote_action_handlers>>
      /\ request' = [request EXCEPT ![r] = q]
  BY DEF SelectHandler
<1>2. old \in Selecting BY <1>1, RequestParts DEF TypeOK
<1>3. old.handlers \in Seq(Remote) /\ old.handlers # <<>> BY <1>2 DEF Selecting
<1>4. index + 1 \in DOMAIN old.handlers BY <1>3, IndexParts
<1>5. HasItem(old.handlers, old.handlers[index + 1]) /\ old.handlers[index + 1] \in Remote
  BY <1>3, <1>4 DEF HasItem
<1>6. FoundOf(old) /\ ChosenOf(old) BY DEF AllRight, RightOf
<1>7. q.step = "ran_remote" /\ q.topic = old.topic /\ q.kept = old.kept
      /\ q.handler = old.handlers[index + 1]
  OBVIOUS
<1> HIDE DEF q, old, index
<1>8. FoundOf(q) BY <1>1, <1>6, <1>7 DEF FoundOf
<1>9. ReachedOf(q)
  <2>1. q.handler \in Handler /\ q.handler \notin Local BY <1>5, <1>7, RequestsAssumption DEF Handler
  <2>2. IsConcrete(old.topic) /\ RemotePlain => Answers(q.handler, old.topic)
    BY <1>1, <1>5, <1>6, <1>7, <2>1 DEF ChosenOf
  <2> QED BY <1>7, <2>1, <2>2 DEF ReachedOf
<1>10. KeptOf(q) /\ ChosenOf(q) BY <1>7 DEF KeptOf, ChosenOf
<1>11. RightOf(q) BY <1>8, <1>9, <1>10 DEF RightOf
<1> QED BY <1>1, <1>11, OneRight

LEMMA RegisterRight ==
  ASSUME TypeOK, TypeOK', RemoteInv, AllRight, NEW h \in Handler,
         RegisterLocalActionHandler(h) \/ RegisterRemoteActionHandler(h)
  PROVE  AllRight'
<1>1. request' = request /\ situation' = situation
  BY DEF RegisterLocalActionHandler, RegisterRemoteActionHandler
<1>2. \A k \in Handler : IsRegistered(k) => IsRegistered(k)' BY RegisteredStays
<1> SUFFICES ASSUME NEW r \in Request PROVE RightOf(request[r])'
  BY DEF AllRight
<1> DEFINE q == request[r]
<1>3. q.step \in {"local", "remote", "selecting"} => q.kept \subseteq Handler
  <2>1. q \in RequestState BY DEF TypeOK
  <2> HIDE DEF q
  <2> QED BY <2>1, RequestParts DEF Underway, Selecting
<1>4. RightOf(q) BY DEF AllRight
<1>5. request'[r] = q BY <1>1
<1> HIDE DEF q
<1>6. \A x : /\ FoundOf(x) => FoundOf(x)'
             /\ ReachedOf(x) => ReachedOf(x)'
             /\ ChosenOf(x) => ChosenOf(x)'
  BY <1>1 DEF FoundOf, ReachedOf, ChosenOf, RemotePlain
<1>7. ASSUME NEW x, KeptOf(x), x.step \in {"local", "remote", "selecting"} => x.kept \subseteq Handler
      PROVE  KeptOf(x)'
  BY <1>2, <1>7 DEF KeptOf
<1>8. \A x : /\ RightOf(x)
             /\ x.step \in {"local", "remote", "selecting"} => x.kept \subseteq Handler
             => RightOf(x)'
  BY <1>6, <1>7 DEF RightOf
<1> QED BY <1>3, <1>4, <1>5, <1>8

LEMMA RemoveRight ==
  ASSUME TypeOK, TypeOK', AllRight, NEW h \in Handler, RemoveRemoteActionHandler(h)
  PROVE  AllRight'
<1>1. /\ situation' = situation
      /\ \A r \in Request : request'[r] =
           IF IsPending(r)
           THEN [request[r] EXCEPT !.kept = {k \in @ : k \in Local \/ ~SameNode(k, h)}]
           ELSE request[r]
  BY DEF RemoveRemoteActionHandler
<1>2. \A k \in Handler : IsRegistered(k) /\ (k \in Local \/ ~SameNode(k, h)) => IsRegistered(k)'
  BY RemovalSpares
<1>3. \A x : /\ FoundOf(x) => FoundOf(x)'
             /\ ReachedOf(x) => ReachedOf(x)'
             /\ ChosenOf(x) => ChosenOf(x)'
  BY <1>1 DEF FoundOf, ReachedOf, ChosenOf, RemotePlain
<1> SUFFICES ASSUME NEW r \in Request PROVE RightOf(request[r])'
  BY DEF AllRight
<1> DEFINE q == request[r]
           kept == {k \in q.kept : k \in Local \/ ~SameNode(k, h)}
           less == [q EXCEPT !.kept = kept]
<1>4. RightOf(q) BY DEF AllRight
<1>5. q \in RequestState BY DEF TypeOK
<1>6. CASE ~IsPending(r)
  <2>1. request'[r] = q BY <1>1, <1>6
  <2>2. q.step \notin {"local", "remote", "selecting"} BY <1>6 DEF IsPending
  <2> HIDE DEF q
  <2>3. \A x : RightOf(x) /\ x.step \notin {"local", "remote", "selecting"} => RightOf(x)'
    BY <1>3 DEF RightOf, KeptOf
  <2> QED BY <1>4, <2>1, <2>2, <2>3
<1>7. CASE IsPending(r)
  <2>1. request'[r] = less BY <1>1, <1>7
  <2>2. q.step \in {"local", "remote", "selecting"} BY <1>7 DEF IsPending
  <2>3. q \in Underway \/ q \in Selecting
    <3> HIDE DEF q
    <3> QED BY <1>5, <2>2, RequestParts
  <2>4. /\ less.step = q.step /\ less.topic = q.topic /\ less.kept = kept
        /\ q.step \in {"local", "remote"} => less.local_only = q.local_only
        /\ q.step = "selecting" => less.handlers = q.handlers
        /\ q.kept \subseteq Handler
    BY <2>3 DEF Underway, Selecting
  <2>5. kept \subseteq q.kept /\ kept \cap Local = q.kept \cap Local OBVIOUS
  <2>6. FoundOf(less)
    <3> HIDE DEF less, q
    <3> QED BY <1>4, <2>2, <2>4, <2>5 DEF RightOf, FoundOf
  <2>7. ReachedOf(less)
    <3> HIDE DEF less, q
    <3> QED BY <2>2, <2>4 DEF ReachedOf
  <2>8. ChosenOf(less)
    <3> HIDE DEF less, q
    <3> QED BY <1>4, <2>2, <2>4 DEF RightOf, ChosenOf
  <2>9. \A k \in kept : IsRegistered(k)' /\ Answers(k, q.topic)
    <3>1. \A k \in q.kept : IsRegistered(k) /\ Answers(k, q.topic)
      BY <1>4, <2>2 DEF RightOf, KeptOf
    <3> QED BY <1>2, <2>4, <3>1
  <2>10. KeptOf(request[r])'
    <3>1. /\ request'[r].step = q.step /\ request'[r].kept = kept /\ request'[r].topic = q.topic
      BY <2>1, <2>4
    <3> HIDE DEF less, q, kept
    <3>2. \A k \in request'[r].kept : IsRegistered(k)' /\ Answers(k, request'[r].topic)
      BY <2>9, <3>1
    <3> QED BY <3>2 DEF KeptOf
  <2> HIDE DEF less, q
  <2>11. FoundOf(request[r])' /\ ReachedOf(request[r])' /\ ChosenOf(request[r])'
    BY <1>3, <2>1, <2>6, <2>7, <2>8
  <2> QED BY <2>10, <2>11 DEF RightOf
<1> QED BY <1>6, <1>7

LEMMA RightStep == TypeOK /\ TypeOK' /\ IInv /\ [Next]_vars => AllRight'
<1> SUFFICES ASSUME TypeOK, TypeOK', LocalInv, RemoteInv, AllRight, [Next]_vars PROVE AllRight'
  BY DEF IInv
<1>1. ASSUME NEW h \in Handler,
             RegisterLocalActionHandler(h) \/ RegisterRemoteActionHandler(h)
      PROVE  AllRight'
  BY <1>1, RegisterRight
<1>2. ASSUME NEW h \in Handler, RemoveRemoteActionHandler(h) PROVE AllRight'
  BY <1>2, RemoveRight
<1>3. ASSUME NEW r \in Request, NEW text, BeginLocalRequest(r, text) PROVE AllRight'
  BY <1>3, StartRight DEF BeginLocalRequest
<1>4. ASSUME NEW r \in Request, NEW text, NEW s, BeginRequest(r, s, text) PROVE AllRight'
  BY <1>4, StartRight DEF BeginRequest
<1>5. ASSUME NEW r \in Request, RunLocal(r) PROVE AllRight' BY <1>5, RunLocalRight
<1>6. ASSUME NEW r \in Request, MissLocal(r) PROVE AllRight' BY <1>6, MissLocalRight
<1>7. ASSUME NEW r \in Request, FindRemote(r) PROVE AllRight' BY <1>7, FindRemoteRight
<1>8. ASSUME NEW r \in Request, SelectHandler(r) PROVE AllRight' BY <1>8, SelectRight
<1>9. CASE UNCHANGED vars
  <2>1. \A x : RightOf(x) => RightOf(x)'
    BY <1>9 DEF RightOf, FoundOf, ReachedOf, KeptOf, ChosenOf, RemotePlain, IsRegistered, vars
  <2>2. request' = request BY <1>9 DEF vars
  <2> QED BY <2>1, <2>2 DEF AllRight
<1> QED BY <1>1, <1>2, <1>3, <1>4, <1>5, <1>6, <1>7, <1>8, <1>9 DEF Next

LEMMA Inductive == Spec => []IInv
<1>1. TypeOK /\ TypeOK' /\ IInv /\ [Next]_vars => IInv'
  BY LocalStep, RemoteStep, RightStep DEF IInv
<1> QED BY <1>1, InitRight, TypeCorrect, PTL DEF Spec

\* No request is refused for which there was a handler from its first step on, and
\* none that a local handler was there for leaves the node (request and local_request
\* of node.rs, which look twice).
THEOREM HandlersFound == Spec => []FoundIfKept
<1>1. IInv => FoundIfKept BY RightFound DEF IInv
<1> QED BY <1>1, Inductive, PTL

\* A handler runs for what its path covers only (a remote one if no remote path has a
\* wildcard), a local one of a plain path with the parameters that path names,
\* and one for the very topic comes first (get_local_action_handler and
\* get_remote_action_handlers of service_registry.rs, and path_trie.rs).
THEOREM HandlersMeant == Spec => []ReachesHandler
<1>1. IInv => ReachesHandler BY RightFound DEF IInv
<1> QED BY <1>1, Inductive, PTL

-----------------------------------------------------------------------------
(***************************************************************************)
(* The actions a node tells.                                               *)
(***************************************************************************)

Pair(service, key) == <<service, key>>

LEMMA PairParts ==
  ASSUME NEW service \in Literal, NEW key \in Key
  PROVE  /\ Pair(service, key) \in Path /\ Len(Pair(service, key)) = 2
         /\ Pair(service, key)[1] = service /\ Pair(service, key)[2] = key
         /\ Append(<<service>>, key) = Pair(service, key)
<1>1. service \in Key BY DEF Key, Segment
<1>2. <<service, key>> \in Seq(Key) BY <1>1
<1> DEFINE one == <<service>>
           two == <<service, key>>
<1>3. Append(one, key) = two
  <2>1. one \in Path /\ Len(one) = 1 /\ one[1] = service BY <1>1 DEF Path
  <2>2. two \in Seq(Key) /\ Len(two) = 2 /\ two[1] = service /\ two[2] = key BY <1>2
  <2> HIDE DEF one, two
  <2> DEFINE a == Append(one, key)
  <2>3. /\ a \in Seq(Key) /\ Len(a) = Len(one) + 1 /\ a[Len(one) + 1] = key
        /\ \A i \in 1..Len(one) : a[i] = one[i]
    BY <2>1, AppendParts DEF Path
  <2> HIDE DEF a
  <2>4. a[1] = service /\ a[2] = key /\ Len(a) = 2 BY <2>1, <2>3
  <2>5. \A i \in 1..2 : i = 1 \/ i = 2 OBVIOUS
  <2>6. \A i \in 1..Len(a) : a[i] = two[i] BY <2>2, <2>4, <2>5
  <2>7. a = two BY <2>2, <2>3, <2>4, <2>6, SeqEqual
  <2> QED BY <2>7 DEF a
<1> QED BY <1>2, <1>3 DEF Pair, Path

\* What the search for service/* comes to, in its order.
LEMMA StarLists ==
  ASSUME NEW V, NEW trie, IsTrie(trie, V), NEW service \in Literal, NEW order \in Seq(Literal)
  PROVE  FindMatches(trie, <<service, Star>>, order)
           = Concat([l \in Literal |-> At(trie, Pair(service, l))], order)
               \o At(trie, Pair(service, Star)) \o At(trie, Pair(service, Template))
<1> DEFINE pattern == <<service, Star>>
           find == CHOOSE find : find = Wild(trie, pattern, order, find)
           one == <<service>>
<1>1. pattern \in Seq(Segment) /\ Len(pattern) = 2 /\ pattern[1] = service /\ pattern[2] = Star
      /\ DOMAIN pattern = {1, 2}
  BY DEF Segment
<1>2. FindMatches(trie, pattern, order) = FindWildcard(trie, pattern, order)
  BY <1>1 DEF FindMatches, IsPattern
<1>3. find = Wild(trie, pattern, order, find)
  <2> HIDE DEF pattern
  <2>1. \E f : f = Wild(trie, pattern, order, f) BY <1>1, WildExists
  <2> QED BY <2>1
<1>4. FindWildcard(trie, pattern, order) = find[<<>>]
  BY DEF FindWildcard, Wild, Path, Key
<1>5. <<>> \in Path /\ Len(<<>>) = 0 /\ one \in Path /\ Len(one) = 1 /\ Append(<<>>, service) = one
  BY DEF Path, Key, Segment
<1>6. service \notin {Star, Multi} /\ Star # Multi BY SegmentAssumption
<1> HIDE DEF find, pattern, one
<1>7. find[<<>>] = find[one]
  <2>1. ~(Len(<<>>) >= Len(pattern)) /\ pattern[Len(<<>>) + 1] = service BY <1>1, <1>5
  <2>2. Wild(trie, pattern, order, find)[<<>>] = find[Append(<<>>, service)]
    BY <1>5, <1>6, <2>1 DEF Wild
  <2> QED BY <1>3, <1>5, <2>2
<1>8. find[one] = Concat([l \in Literal |-> find[Append(one, l)]], order)
                    \o find[Append(one, Star)] \o find[Append(one, Template)]
  <2>1. ~(Len(one) >= Len(pattern)) /\ pattern[Len(one) + 1] = Star BY <1>1, <1>5
  <2>2. Wild(trie, pattern, order, find)[one]
          = Concat([l \in Literal |-> find[Append(one, l)]], order)
              \o find[Append(one, Star)] \o find[Append(one, Template)]
    BY <1>5, <1>6, <2>1 DEF Wild
  <2> QED BY <1>3, <2>2
<1>9. ASSUME NEW key \in Key PROVE find[Append(one, key)] = At(trie, Pair(service, key))
  <2>1. Append(one, key) = Pair(service, key) /\ Pair(service, key) \in Path
        /\ Len(Pair(service, key)) >= Len(pattern)
    BY <1>1, PairParts DEF one
  <2>2. Wild(trie, pattern, order, find)[Pair(service, key)] = At(trie, Pair(service, key))
    BY <2>1 DEF Wild
  <2> QED BY <1>3, <2>1, <2>2
<1>10. {Star, Template} \cup Literal \subseteq Key BY DEF Key, Segment
<1>11. [l \in Literal |-> find[Append(one, l)]] = [l \in Literal |-> At(trie, Pair(service, l))]
  BY <1>9, <1>10
<1> QED BY <1>2, <1>4, <1>7, <1>8, <1>9, <1>10, <1>11 DEF pattern

\* Where no two nodes of a trie have an item in common the search finds none twice.
LEMMA StarItems ==
  ASSUME NEW V, NEW trie, IsTrie(trie, V), NEW service \in Literal, NEW order \in Orders,
         \A n \in DOMAIN trie : Distinct(trie[n]),
         \A n, m \in DOMAIN trie : \A v : HasItem(trie[n], v) /\ HasItem(trie[m], v) => n = m
  PROVE  LET list == FindMatches(trie, <<service, Star>>, order)
         IN  /\ list \in Seq(V) /\ Distinct(list)
             /\ \A v : HasItem(list, v) <=> \E key \in Literal \cup {Star, Template} :
                                              HasItem(At(trie, Pair(service, key)), v)
<1> DEFINE f == [l \in Literal |-> At(trie, Pair(service, l))]
           g == [i \in DOMAIN order |-> f[order[i]]]
           a == Joined(g, Len(order))
           b == At(trie, Pair(service, Star))
           c == At(trie, Pair(service, Template))
<1>1. /\ order \in Seq(Literal) /\ Len(order) \in Nat /\ DOMAIN order = 1..Len(order)
      /\ \A l \in Literal : \E i \in DOMAIN order : \A j \in DOMAIN order : order[j] = l <=> j = i
  BY RequestsAssumption
<1>2. \A l \in Literal : \E i \in DOMAIN order : order[i] = l BY <1>1
<1>3. \A i, j \in DOMAIN order : order[i] = order[j] => i = j BY <1>1
<1>4. FindMatches(trie, <<service, Star>>, order) = a \o b \o c
  BY <1>1, StarLists DEF Concat
<1>5. /\ {Star, Template} \cup Literal \subseteq Key /\ Star \notin Literal /\ Template \notin Literal
      /\ Star # Template
  BY SegmentAssumption DEF Key, Segment
<1>6. \A k1, k2 \in Key : Pair(service, k1) = Pair(service, k2) => k1 = k2
  <2>1. \A k \in Key : Pair(service, k)[2] = k BY PairParts
  <2> QED BY <2>1
<1>7. \A key : /\ At(trie, Pair(service, key)) \in Seq(V)
               /\ Distinct(At(trie, Pair(service, key)))
  <2>1. <<>> \in Seq(V) /\ Distinct(<<>>) BY DEF Distinct
  <2> QED BY <2>1 DEF At, IsTrie
<1>8. ASSUME NEW k1 \in Key, NEW k2 \in Key, NEW v, HasItem(At(trie, Pair(service, k1)), v),
             HasItem(At(trie, Pair(service, k2)), v)
      PROVE  k1 = k2
  <2>1. \A n : HasItem(At(trie, n), v) => n \in DOMAIN trie /\ HasItem(trie[n], v)
    BY DEF At, HasItem
  <2> QED BY <1>6, <1>8, <2>1
<1>9. \A i \in 1..Len(order) : /\ g[i] = At(trie, Pair(service, order[i]))
                               /\ order[i] \in Literal /\ order[i] \in Key
  BY <1>1, <1>5
<1>10. a \in Seq(V) /\ Distinct(a)
       /\ \A v : HasItem(a, v) <=> \E i \in 1..Len(order) : HasItem(g[i], v)
  <2> HIDE DEF g
  <2>1. \A i \in 1..Len(order) : g[i] \in Seq(V) BY <1>7, <1>9
  <2>2. Apart(g, Len(order))
    <3>1. \A i \in 1..Len(order) : Distinct(g[i]) BY <1>7, <1>9
    <3>2. ASSUME NEW i \in 1..Len(order), NEW j \in 1..Len(order), NEW v, HasItem(g[i], v), HasItem(g[j], v)
          PROVE  i = j
      <4>1. order[i] = order[j] BY <1>8, <1>9, <3>2
      <4> QED BY <1>1, <1>3, <4>1
    <3> QED BY <3>1, <3>2 DEF Apart
  <2> QED BY <1>1, <2>1, <2>2, JoinedParts
<1>11. \A v : HasItem(a, v) <=> \E l \in Literal : HasItem(At(trie, Pair(service, l)), v)
  <2> HIDE DEF g, a
  <2> QED BY <1>1, <1>2, <1>9, <1>10
<1>12. b \in Seq(V) /\ Distinct(b) /\ c \in Seq(V) /\ Distinct(c) BY <1>7
<1> HIDE DEF a
<1> DEFINE ab == a \o b
<1>13. ab \in Seq(V) /\ Distinct(ab) /\ \A v : HasItem(ab, v) <=> HasItem(a, v) \/ HasItem(b, v)
  <2>1. \A v : ~(HasItem(a, v) /\ HasItem(b, v)) BY <1>5, <1>8, <1>11
  <2> HIDE DEF b, c
  <2> QED BY <1>10, <1>12, <2>1, DistinctBoth, HasItemBoth, ConcatProperties
<1>14. \A v : ~(HasItem(ab, v) /\ HasItem(c, v))
  <2> HIDE DEF ab
  <2> QED BY <1>5, <1>8, <1>11, <1>13
<1> HIDE DEF ab
<1>15. ab \o c \in Seq(V) /\ Distinct(ab \o c)
       /\ \A v : HasItem(ab \o c, v) <=> HasItem(ab, v) \/ HasItem(c, v)
  <2> HIDE DEF b, c
  <2> QED BY <1>12, <1>13, <1>14, DistinctBoth, HasItemBoth, ConcatProperties
<1>16. \A v : HasItem(ab \o c, v) <=> \E key \in Literal \cup {Star, Template} :
                                              HasItem(At(trie, Pair(service, key)), v)
  BY <1>11, <1>13, <1>15
<1> QED BY <1>4, <1>15, <1>16 DEF ab

\* A list without repetition is as long as the set of its items is large.
LEMMA DistinctLength ==
  ASSUME NEW V, NEW list \in Seq(V), Distinct(list)
  PROVE  Len(list) = Cardinality(Elements(list))
<1> DEFINE n == Len(list)
<1>1. n \in Nat /\ DOMAIN list = 1..n OBVIOUS
<1>2. list \in Bijection(1..n, Elements(list))
  BY <1>1 DEF Bijection, Injection, Surjection, IsInjective, Elements, Distinct
<1>3. ExistsBijection(1..n, Elements(list)) BY <1>2 DEF ExistsBijection
<1>4. IsFiniteSet(1..n) /\ Cardinality(1..n) = n BY <1>1, FS_Interval
<1> QED BY <1>3, <1>4, FS_Bijection

\* The node of a handler of one segment behind the service.
LEMMA ShortNode ==
  ASSUME NEW h \in Handler, NEW service \in Literal
  PROVE  /\ \A key \in Literal \cup {Star, Template} : NodeOf(PathOf(h)) = Pair(service, key)
              => Len(PathOf(h)) = 2 /\ PathOf(h)[2] # Multi /\ ServiceOf[h] = service
         /\ Len(PathOf(h)) = 2 /\ PathOf(h)[2] # Multi /\ ServiceOf[h] = service
              => \E key \in Literal \cup {Star, Template} : NodeOf(PathOf(h)) = Pair(service, key)
<1> DEFINE p == PathOf(h)
           n == NodeOf(p)
<1>1. /\ p \in Seq(Segment) /\ Len(p) \in Nat /\ DOMAIN p = 1..Len(p) /\ p[1] = ServiceOf[h]
      /\ p[1] \in Literal /\ n \in Path /\ Len(n) = Len(p) /\ Len(p) > 0
  BY PathParts
<1>2. \A i \in 1..Len(p) : n[i] = IF p[i] \in Param THEN Template ELSE p[i] BY <1>1 DEF NodeOf
<1>3. n[1] = p[1] BY <1>1, <1>2, SegmentAssumption
<1> HIDE DEF n, p
<1>4. ASSUME NEW key \in Literal \cup {Star, Template}, n = Pair(service, key)
      PROVE  Len(p) = 2 /\ p[2] # Multi /\ p[1] = service
  <2>1. key \in Key /\ key # Multi BY SegmentAssumption DEF Key, Segment
  <2>2. Len(n) = 2 /\ n[1] = service /\ n[2] = key BY <1>4, <2>1, PairParts
  <2>3. n[2] = IF p[2] \in Param THEN Template ELSE p[2] BY <1>1, <1>2, <2>2
  <2> QED BY <1>1, <1>3, <2>1, <2>2, <2>3, SegmentAssumption
<1>5. ASSUME Len(p) = 2, p[2] # Multi, p[1] = service
      PROVE  \E key \in Literal \cup {Star, Template} : n = Pair(service, key)
  <2> DEFINE key == n[2]
  <2>1. key = (IF p[2] \in Param THEN Template ELSE p[2]) /\ p[2] \in Segment
    <3>1. 2 \in 1..Len(p) BY <1>5
    <3> QED BY <1>1, <1>2, <3>1
  <2>2. key \in Literal \cup {Star, Template} BY <1>5, <2>1 DEF Segment
  <2>3. key \in Key BY <2>2 DEF Key, Segment
  <2> HIDE DEF key
  <2>4. Len(n) = Len(Pair(service, key)) /\ Pair(service, key) \in Path
        /\ Len(n) = 2 /\ n[1] = Pair(service, key)[1] /\ n[2] = Pair(service, key)[2]
    BY <1>1, <1>3, <1>5, <2>3, PairParts DEF key
  <2>5. \A i \in 1..Len(n) : n[i] = Pair(service, key)[i]
    <3>1. \A i \in 1..2 : i = 1 \/ i = 2 OBVIOUS
    <3> QED BY <2>4, <3>1
  <2>6. n = Pair(service, key) BY <1>1, <2>4, <2>5, SeqEqual DEF Path
  <2> QED BY <2>2, <2>6
<1> QED BY <1>1, <1>4, <1>5 DEF n, p

LEMMA ListedRight == TypeOK /\ LocalInv => ActionsListed
<1> SUFFICES ASSUME TypeOK, LocalInv, NEW service \in Literal, NEW order \in Orders
             PROVE  LET listed == ActionsMetadata(service, order)
                    IN  /\ Elements(listed) =
                             {h \in Registered(service) : Len(PathOf(h)) = 2 /\ PathOf(h)[2] # Multi}
                        /\ Len(listed) = Cardinality(Elements(listed))
  BY DEF ActionsListed
<1> DEFINE trie == local_action_handlers
           list == FindMatches(trie, <<service, Star>>, order)
<1>1. ActionsMetadata(service, order) = list BY DEF ActionsMetadata
<1>2. IsTrie(trie, Local) BY LocalTrie
<1>3. DOMAIN trie = Node /\ \A n \in Node : trie[n] \in Seq(Local) BY DEF TypeOK
<1>4. \A n \in Node : \A v : HasItem(trie[n], v) => v \in Local /\ v \in Handler /\ NodeOf(PathOf(v)) = n
  <2>1. \A n \in Node : \A v : HasItem(trie[n], v) => v \in Local BY <1>3 DEF HasItem
  <2> QED BY <2>1 DEF LocalInv, Handler
<1>5. \A n \in DOMAIN trie : Distinct(trie[n]) BY <1>3 DEF LocalInv
<1> HIDE DEF trie
<1>6. \A n, m \in DOMAIN trie : \A v : HasItem(trie[n], v) /\ HasItem(trie[m], v) => n = m
  BY <1>3, <1>4
<1>7. /\ list \in Seq(Local) /\ Distinct(list)
      /\ \A v : HasItem(list, v) <=> \E key \in Literal \cup {Star, Template} :
                                       HasItem(At(trie, Pair(service, key)), v)
  BY <1>2, <1>5, <1>6, StarItems
<1> HIDE DEF list
<1>8. \A n, v : HasItem(At(trie, n), v) <=> n \in Node /\ HasItem(trie[n], v)
  BY <1>3 DEF At, HasItem
<1>9. \A h \in Local : h \in Handler /\ (IsRegistered(h) <=> HasItem(trie[NodeOf(PathOf(h))], h))
                       /\ NodeOf(PathOf(h)) \in Node
  BY RegisteredItems, PathParts DEF Handler, trie
<1>10. \A v : v \in Elements(list) <=> HasItem(list, v) BY DEF Elements, HasItem
<1>11. ASSUME NEW v, HasItem(list, v)
       PROVE  v \in Local /\ ServiceOf[v] = service /\ IsRegistered(v)
              /\ Len(PathOf(v)) = 2 /\ PathOf(v)[2] # Multi
  <2>1. PICK key \in Literal \cup {Star, Template} : HasItem(At(trie, Pair(service, key)), v)
    BY <1>7, <1>11
  <2>2. Pair(service, key) \in Node /\ HasItem(trie[Pair(service, key)], v) BY <1>8, <2>1
  <2>3. v \in Local /\ v \in Handler /\ NodeOf(PathOf(v)) = Pair(service, key) BY <1>4, <2>2
  <2> QED BY <1>9, <2>2, <2>3, ShortNode
<1>12. ASSUME NEW v \in Local, ServiceOf[v] = service, IsRegistered(v), Len(PathOf(v)) = 2,
              PathOf(v)[2] # Multi
       PROVE  HasItem(list, v)
  <2>1. PICK key \in Literal \cup {Star, Template} : NodeOf(PathOf(v)) = Pair(service, key)
    BY <1>9, <1>12, ShortNode
  <2>2. HasItem(At(trie, Pair(service, key)), v) BY <1>8, <1>9, <1>12, <2>1
  <2> QED BY <1>7, <2>2
<1>13. Elements(list) = {h \in Registered(service) : Len(PathOf(h)) = 2 /\ PathOf(h)[2] # Multi}
  BY <1>10, <1>11, <1>12 DEF Registered
<1>14. Len(list) = Cardinality(Elements(list)) BY <1>7, DistinctLength
<1> QED BY <1>1, <1>13, <1>14

\* The actions a node tells its peers are those of one segment that are registered on
\* it, each once, in whatever order the HashMap yields the children
\* (get_actions_metadata of service_registry.rs).
THEOREM ActionsTold == Spec => []ActionsListed
<1>1. IInv => LocalInv BY DEF IInv
<1> QED BY <1>1, ListedRight, TypeCorrect, Inductive, PTL

-----------------------------------------------------------------------------
(***************************************************************************)
(* The turns of the load balancer.                                         *)
(***************************************************************************)

LEMMA Division ==
  ASSUME NEW n \in Nat \ {0}, NEW y \in Nat
  PROVE  y \div n \in Nat /\ y % n \in 0..(n - 1) /\ y = n * (y \div n) + (y % n)
OBVIOUS

LEMMA Multiples ==
  ASSUME NEW n \in Nat \ {0}, NEW a \in Nat, NEW b \in Nat, a < b
  PROVE  n * a + n <= n * b
<1>1. b = a + 1 + (b - a - 1) /\ b - a - 1 \in Nat OBVIOUS
<1>2. n * (b - a - 1) \in Nat OBVIOUS
<1>3. n * (a + 1 + (b - a - 1)) = n * a + n + n * (b - a - 1) OBVIOUS
<1> QED BY <1>1, <1>2, <1>3

LEMMA Rest ==
  ASSUME NEW n \in Nat \ {0}, NEW a \in Nat, NEW b \in 0..(n - 1)
  PROVE  (n * a + b) % n = b
<1> DEFINE y == n * a + b
           d == y \div n
           r == y % n
<1>1. y \in Nat /\ n * a \in Nat /\ b \in Nat /\ b < n OBVIOUS
<1> HIDE DEF y
<1>2. d \in Nat /\ r \in Nat /\ r < n /\ y = n * d + r BY <1>1, Division
<1>3. y = n * a + b BY DEF y
<1> HIDE DEF d, r
<1>4. n * d \in Nat BY <1>2
<1>5. ~(d < a)
  <2>1. d < a => n * d + n <= n * a BY <1>2, Multiples
  <2> QED BY <1>1, <1>2, <1>3, <1>4, <2>1
<1>6. ~(a < d)
  <2>1. a < d => n * a + n <= n * d BY <1>2, Multiples
  <2> QED BY <1>1, <1>2, <1>3, <1>4, <2>1
<1>7. d = a BY <1>2, <1>5, <1>6
<1> QED BY <1>1, <1>2, <1>3, <1>4, <1>7 DEF r, y

LEMMA NextRest ==
  ASSUME NEW n \in Nat \ {0}, NEW c \in Nat
  PROVE  (c + 1) % n = IF c % n = n - 1 THEN 0 ELSE (c % n) + 1
<1> DEFINE a == c \div n
           k == c % n
<1>1. a \in Nat /\ k \in 0..(n - 1) /\ c = n * a + k BY Division
<1> HIDE DEF a, k
<1>2. n * a \in Nat /\ k \in Nat BY <1>1
<1>3. CASE k = n - 1
  <2>1. n * (a + 1) = n * a + n BY <1>1
  <2>2. c + 1 = n * (a + 1) + 0 BY <1>1, <1>2, <1>3, <2>1
  <2>3. a + 1 \in Nat /\ 0 \in 0..(n - 1) BY <1>1
  <2>4. (n * (a + 1) + 0) % n = 0 BY <2>3, Rest
  <2> QED BY <1>3, <2>2, <2>4 DEF k
<1>4. CASE k # n - 1
  <2>1. k + 1 \in 0..(n - 1) /\ c + 1 = n * a + (k + 1) BY <1>1, <1>2, <1>4
  <2>2. (n * a + (k + 1)) % n = k + 1 BY <1>1, <2>1, Rest
  <2> QED BY <1>4, <2>1, <2>2 DEF k
<1> QED BY <1>3, <1>4

\* Where the counter wraps at a multiple of n its remainders go round, too.
LEMMA WrapRest ==
  ASSUME NEW n \in Nat \ {0}, NEW W \in Nat \ {0}, W % n = 0, NEW c \in 0..(W - 1)
  PROVE  ((c + 1) % W) % n = IF c % n = n - 1 THEN 0 ELSE (c % n) + 1
<1>1. c \in Nat /\ c + 1 \in Nat OBVIOUS
<1>2. (c + 1) % n = IF c % n = n - 1 THEN 0 ELSE (c % n) + 1 BY <1>1, NextRest
<1>3. CASE c = W - 1
  <2>1. (W * 1 + 0) % W = 0 BY Rest
  <2>2. c + 1 = W * 1 + 0 BY <1>3
  <2>3. (c + 1) % W = 0 BY <2>1, <2>2
  <2>4. (n * 0 + 0) % n = 0 BY Rest
  <2>5. 0 % n = 0 BY <2>4
  <2>6. c + 1 = W BY <1>3
  <2>7. (c + 1) % n = 0 BY <2>6
  <2> QED BY <1>2, <2>3, <2>5, <2>7
<1>4. CASE c # W - 1
  <2>1. c + 1 \in 0..(W - 1) BY <1>4
  <2>2. (W * 0 + (c + 1)) % W = c + 1 BY <2>1, Rest
  <2>3. W * 0 + (c + 1) = c + 1 OBVIOUS
  <2> QED BY <1>2, <2>2, <2>3
<1> QED BY <1>3, <1>4

RanRemotely(req) == {r \in Request : req[r].step = "ran_remote"}

AtPlace(req, n, i) ==
  {r \in Request : req[r].step = "ran_remote" /\ req[r].among = n /\ req[r].index = i}

OneLength(req, n) == \A r \in RanRemotely(req) : req[r].among = n

\* How many turns ago place i of n had its last, if place k is the next.
Ago(n, k, i) == IF i < k THEN k - 1 - i ELSE k - 1 - i + n

\* All places had q turns, and the w last ones had one more.
Turns(req, n, k) ==
  \E q \in Nat, w \in 0..(n - 1) : \A i \in 0..(n - 1) :
    Cardinality(AtPlace(req, n, i)) = q + (IF Ago(n, k, i) < w THEN 1 ELSE 0)

TurnsInv ==
  /\ IsFiniteSet(RanRemotely(request))
  /\ \A n \in Nat \ {0} :
       OneLength(request, n) /\ Wrap % n = 0 => Turns(request, n, current_index % n)

LEMMA TurnTaken ==
  ASSUME NEW n \in Nat \ {0}, NEW k \in 0..(n - 1), NEW req, NEW more, NEW r \in Request,
         IsFiniteSet(RanRemotely(req)), Turns(req, n, k), r \notin RanRemotely(req),
         \A s \in Request : s # r => more[s] = req[s],
         more[r].step = "ran_remote", more[r].among = n, more[r].index = k
  PROVE  Turns(more, n, IF k = n - 1 THEN 0 ELSE k + 1)
<1> DEFINE P(i) == Cardinality(AtPlace(req, n, i))
           Q(i) == Cardinality(AtPlace(more, n, i))
           next == IF k = n - 1 THEN 0 ELSE k + 1
<1>1. \A i : IsFiniteSet(AtPlace(req, n, i)) /\ P(i) \in Nat
  <2>1. \A i : AtPlace(req, n, i) \subseteq RanRemotely(req) BY DEF AtPlace, RanRemotely
  <2> QED BY <2>1, FS_Subset, FS_CardinalityType
<1>2. AtPlace(more, n, k) = AtPlace(req, n, k) \cup {r} /\ r \notin AtPlace(req, n, k)
  BY DEF AtPlace, RanRemotely
<1>3. \A i : i # k => AtPlace(more, n, i) = AtPlace(req, n, i)
  BY DEF AtPlace, RanRemotely
<1>4. Q(k) = P(k) + 1
  <2> DEFINE before == AtPlace(req, n, k)
  <2>1. IsFiniteSet(before) /\ r \notin before /\ AtPlace(more, n, k) = before \cup {r}
    BY <1>1, <1>2
  <2> HIDE DEF before
  <2>2. Cardinality(before \cup {r}) = Cardinality(before) + 1 BY <2>1, FS_AddElement
  <2> QED BY <2>1, <2>2 DEF before
<1>5. \A i : i # k => Q(i) = P(i) BY <1>3
<1>6. PICK q \in Nat, w \in 0..(n - 1) : \A i \in 0..(n - 1) :
        P(i) = q + (IF Ago(n, k, i) < w THEN 1 ELSE 0)
  BY DEF Turns
<1> HIDE DEF P, Q
<1>7. n \in Nat /\ n > 0 /\ k \in Nat /\ k < n /\ w \in Nat /\ w < n OBVIOUS
<1>8. Ago(n, k, k) = n - 1 /\ Ago(n, next, k) = 0 BY <1>7 DEF Ago
<1>9. \A i \in 0..(n - 1) : i # k => /\ Ago(n, next, i) = Ago(n, k, i) + 1
                                     /\ Ago(n, k, i) \in Nat /\ Ago(n, k, i) < n - 1
  BY <1>7 DEF Ago
<1> HIDE DEF next
<1>10. P(k) = q BY <1>6, <1>7, <1>8
<1>11. CASE w < n - 1
  <2>1. w + 1 \in 0..(n - 1) BY <1>7, <1>11
  <2>2. ASSUME NEW i \in 0..(n - 1)
        PROVE  Q(i) = q + (IF Ago(n, next, i) < w + 1 THEN 1 ELSE 0)
    <3>1. CASE i = k BY <1>4, <1>7, <1>8, <1>10, <3>1
    <3>2. CASE i # k
      <4>1. Ago(n, next, i) < w + 1 <=> Ago(n, k, i) < w BY <1>7, <1>9, <3>2
      <4> QED BY <1>5, <1>6, <3>2, <4>1
    <3> QED BY <3>1, <3>2
  <2> QED BY <2>1, <2>2 DEF Turns, Q, next
<1>12. CASE ~(w < n - 1)
  <2>1. q + 1 \in Nat /\ 0 \in 0..(n - 1) /\ w = n - 1 BY <1>7, <1>12
  <2>2. ASSUME NEW i \in 0..(n - 1)
        PROVE  Q(i) = (q + 1) + (IF Ago(n, next, i) < 0 THEN 1 ELSE 0)
    <3>1. CASE i = k BY <1>4, <1>8, <1>10, <3>1
    <3>2. CASE i # k
      <4>1. ~(Ago(n, next, i) < 0) /\ Ago(n, k, i) < w BY <1>7, <1>9, <2>1, <3>2
      <4>2. Q(i) = q + 1 BY <1>5, <1>6, <3>2, <4>1
      <4> QED BY <4>1, <4>2
    <3> QED BY <3>1, <3>2
  <2> QED BY <2>1, <2>2 DEF Turns, Q, next
<1> QED BY <1>11, <1>12

\* Before any turn.
LEMMA NoTurns ==
  ASSUME NEW n \in Nat \ {0}, NEW k \in 0..(n - 1), NEW req, RanRemotely(req) = {}
  PROVE  Turns(req, n, k)
<1>1. \A i : AtPlace(req, n, i) = {} BY DEF AtPlace, RanRemotely
<1>2. \A i : Cardinality(AtPlace(req, n, i)) = 0 BY <1>1, FS_EmptySet
<1>3. \A i \in 0..(n - 1) : ~(Ago(n, k, i) < 0) BY DEF Ago
<1>4. 0 \in Nat /\ 0 \in 0..(n - 1) OBVIOUS
<1> QED BY <1>2, <1>3, <1>4 DEF Turns

LEMMA InitTurns == Init => TurnsInv
<1> SUFFICES ASSUME Init PROVE TurnsInv OBVIOUS
<1>1. RanRemotely(request) = {} BY DEF Init, RanRemotely
<1>2. current_index \in Nat BY InitTypes DEF TypeOK
<1>3. \A n \in Nat \ {0} : current_index % n \in 0..(n - 1) BY <1>2, Division
<1> QED BY <1>1, <1>3, NoTurns, FS_EmptySet DEF TurnsInv

\* A step by which no request is sent to a remote handler.
LEMMA NoTurnTaken ==
  ASSUME TurnsInv, current_index' = current_index,
         \A r \in Request : IF request[r].step = "ran_remote" THEN request'[r] = request[r]
                            ELSE request'[r].step # "ran_remote"
  PROVE  TurnsInv'
<1>1. RanRemotely(request') = RanRemotely(request) BY DEF RanRemotely
<1>2. \A n, i : AtPlace(request', n, i) = AtPlace(request, n, i) BY DEF AtPlace
<1>3. \A n : OneLength(request', n) <=> OneLength(request, n)
  BY <1>1 DEF OneLength, RanRemotely
<1>4. \A n, k : Turns(request', n, k) <=> Turns(request, n, k) BY <1>2 DEF Turns
<1> QED BY <1>1, <1>3, <1>4 DEF TurnsInv

LEMMA SelectTurns ==
  ASSUME TypeOK, TurnsInv, NEW r \in Request, SelectHandler(r)
  PROVE  TurnsInv'
<1> DEFINE old == request[r]
           q == [step |-> "ran_remote", topic |-> old.topic, kept |-> old.kept,
                 index |-> Index(old.handlers), among |-> Len(old.handlers),
                 handler |-> old.handlers[Index(old.handlers) + 1]]
           c == current_index
<1>1. /\ old.step = "selecting" /\ request' = [request EXCEPT ![r] = q]
      /\ current_index' = (c + 1) % Wrap
  BY DEF SelectHandler
<1>2. q.step = "ran_remote" /\ q.among = Len(old.handlers) /\ q.index = c % Len(old.handlers)
  BY DEF Index
<1> HIDE DEF q
<1>3. request'[r] = q /\ \A s \in Request : s # r => request'[s] = request[s]
  BY <1>1 DEF TypeOK
<1>4. r \notin RanRemotely(request) /\ RanRemotely(request') = RanRemotely(request) \cup {r}
  BY <1>1, <1>2, <1>3 DEF RanRemotely
<1>5. IsFiniteSet(RanRemotely(request')) BY <1>4, FS_AddElement DEF TurnsInv
<1>6. c \in 0..(Wrap - 1) /\ c \in Nat /\ Wrap \in Nat \ {0} BY RequestsAssumption DEF TypeOK
<1> HIDE DEF old, c
<1>7. ASSUME NEW n \in Nat \ {0}, OneLength(request', n), Wrap % n = 0
      PROVE  Turns(request', n, current_index' % n)
  <2>1. q.among = n /\ q.index = c % n
    <3>1. q.among = n BY <1>3, <1>4, <1>7 DEF OneLength
    <3> QED BY <1>2, <3>1
  <2>2. OneLength(request, n)
    <3>1. \A s \in RanRemotely(request) : /\ s \in Request /\ s # r /\ s \in RanRemotely(request')
                                         /\ request'[s] = request[s]
      BY <1>3, <1>4 DEF RanRemotely
    <3> QED BY <1>7, <3>1 DEF OneLength
  <2>3. Turns(request, n, c % n) BY <1>7, <2>2 DEF TurnsInv, c
  <2>4. current_index' % n = IF c % n = n - 1 THEN 0 ELSE (c % n) + 1
    BY <1>1, <1>6, <1>7, WrapRest
  <2>5. c % n \in 0..(n - 1) BY <1>6, Division
  <2>6. IsFiniteSet(RanRemotely(request)) BY DEF TurnsInv
  <2> DEFINE k == c % n
  <2> HIDE DEF k
  <2>7. Turns(request', n, IF k = n - 1 THEN 0 ELSE k + 1)
    BY <1>2, <1>3, <1>4, <2>1, <2>3, <2>5, <2>6, TurnTaken DEF k
  <2> QED BY <2>4, <2>7 DEF k
<1> QED BY <1>5, <1>7 DEF TurnsInv

LEMMA TurnsStep == TypeOK /\ TurnsInv /\ [Next]_vars => TurnsInv'
<1> SUFFICES ASSUME TypeOK, TurnsInv, [Next]_vars PROVE TurnsInv' OBVIOUS
<1>1. ASSUME NEW r \in Request, NEW q, request' = [request EXCEPT ![r] = q],
             request[r].step # "ran_remote", q.step # "ran_remote",
             current_index' = current_index
      PROVE  TurnsInv'
  <2>1. \A s \in Request : request'[s] = IF s = r THEN q ELSE request[s] BY <1>1 DEF TypeOK
  <2> QED BY <1>1, <2>1, NoTurnTaken
<1>2. CASE UNCHANGED <<request, current_index>> BY <1>2, NoTurnTaken
<1>3. ASSUME NEW h \in Handler, RemoveRemoteActionHandler(h) PROVE TurnsInv'
  <2>1. /\ current_index' = current_index
        /\ \A r \in Request : request'[r] =
             IF IsPending(r)
             THEN [request[r] EXCEPT !.kept = {k \in @ : k \in Local \/ ~SameNode(k, h)}]
             ELSE request[r]
    BY <1>3 DEF RemoveRemoteActionHandler
  <2>2. ASSUME NEW r \in Request, IsPending(r) PROVE request'[r].step = request[r].step
    <3>1. request[r] \in Underway \/ request[r] \in Selecting
      BY <2>2, RequestParts DEF TypeOK, IsPending
    <3> QED BY <2>1, <2>2, <3>1 DEF Underway, Selecting
  <2>3. \A r \in Request : IF request[r].step = "ran_remote" THEN request'[r] = request[r]
                           ELSE request'[r].step # "ran_remote"
    BY <2>1, <2>2 DEF IsPending
  <2> QED BY <2>1, <2>3, NoTurnTaken
<1>4. ASSUME NEW r \in Request, NEW asked, NEW only, Start(r, asked, only) PROVE TurnsInv'
  <2> DEFINE q == IF IsValid(asked) THEN Pending("local", Parse(asked), only, Covering(Parse(asked)))
                  ELSE [step |-> "invalid"]
  <2>1. request' = [request EXCEPT ![r] = q] /\ request[r].step = "idle"
        /\ current_index' = current_index
    BY <1>4 DEF Start
  <2>2. q.step # "ran_remote" BY DEF Pending
  <2> HIDE DEF q
  <2> QED BY <1>1, <2>1, <2>2
<1>5. ASSUME NEW r \in Request, RunLocal(r) PROVE TurnsInv'
  <2>1. /\ request[r].step = "local" /\ current_index' = current_index
        /\ \E h : request' = [request EXCEPT ![r] =
             [step |-> "ran_local", topic |-> request[r].topic, kept |-> request[r].kept,
              handler |-> h, path_params |-> ParamsFor(request[r].topic, h)]]
    BY <1>5 DEF RunLocal
  <2>2. PICK h : request' = [request EXCEPT ![r] =
             [step |-> "ran_local", topic |-> request[r].topic, kept |-> request[r].kept,
              handler |-> h, path_params |-> ParamsFor(request[r].topic, h)]]
    BY <2>1
  <2> DEFINE q == [step |-> "ran_local", topic |-> request[r].topic, kept |-> request[r].kept,
                   handler |-> h, path_params |-> ParamsFor(request[r].topic, h)]
  <2>3. q.step = "ran_local" /\ request' = [request EXCEPT ![r] = q] BY <2>2
  <2> HIDE DEF q
  <2> QED BY <1>1, <2>1, <2>3
<1>6. ASSUME NEW r \in Request, MissLocal(r) PROVE TurnsInv'
  <2> DEFINE q == [request[r] EXCEPT !.step = IF request[r].local_only THEN "refused" ELSE "remote"]
  <2>1. /\ request[r].step = "local" /\ current_index' = current_index
        /\ request' = [request EXCEPT ![r] = q]
    BY <1>6 DEF MissLocal
  <2>2. request[r] \in Underway BY <2>1, RequestParts DEF TypeOK
  <2>3. q.step # "ran_remote" BY <2>2 DEF Underway
  <2> HIDE DEF q
  <2> QED BY <1>1, <2>1, <2>3
<1>7. ASSUME NEW r \in Request, FindRemote(r) PROVE TurnsInv'
  <2> DEFINE old == request[r]
             list(order) == LET matches == FindMatches(remote_action_handlers, old.topic, order)
                            IN  Joined(matches, Len(matches))
             found(l) == IF l = <<>> THEN [old EXCEPT !.step = "refused"]
                         ELSE [step |-> "selecting", topic |-> old.topic, kept |-> old.kept,
                               handlers |-> l]
  <2>1. /\ request[r].step = "remote" /\ current_index' = current_index
        /\ \E order \in Orders : request' = [request EXCEPT ![r] = found(list(order))]
    BY <1>7 DEF FindRemote
  <2>2. PICK order \in Orders : request' = [request EXCEPT ![r] = found(list(order))]
    BY <2>1
  <2>3. old \in Underway BY <2>1, RequestParts DEF TypeOK
  <2>4. \A l : found(l).step # "ran_remote" BY <2>3 DEF Underway
  <2> HIDE DEF found, list
  <2> QED BY <1>1, <2>1, <2>2, <2>4
<1>8. ASSUME NEW r \in Request, SelectHandler(r) PROVE TurnsInv' BY <1>8, SelectTurns
<1>9. \A h \in Handler : RegisterLocalActionHandler(h) \/ RegisterRemoteActionHandler(h)
                           => UNCHANGED <<request, current_index>>
  BY DEF RegisterLocalActionHandler, RegisterRemoteActionHandler
<1>10. UNCHANGED vars => UNCHANGED <<request, current_index>> BY DEF vars
<1> QED BY <1>2, <1>3, <1>4, <1>5, <1>6, <1>7, <1>8, <1>9, <1>10
        DEF Next, BeginLocalRequest, BeginRequest

LEMMA TurnsEven == TypeOK /\ TurnsInv => SpreadsEvenly
<1> SUFFICES ASSUME TypeOK, TurnsInv, NEW n \in Lengths, Lengths = {n}, Wrap % n = 0,
                    NEW i \in 0..(n - 1), NEW j \in 0..(n - 1)
             PROVE  Picked(n, i, Topics) <= Picked(n, j, Topics) + 1
  BY DEF SpreadsEvenly, EvenAmong
<1>1. n \in Nat \ {0}
  <2>1. PICK r \in Request : request[r].step = "ran_remote" /\ request[r].among = n
    BY DEF Lengths
  <2>2. request[r] \in RanRemote BY <2>1, RequestParts DEF TypeOK
  <2> QED BY <2>1, <2>2 DEF RanRemote
<1>2. OneLength(request, n) BY DEF OneLength, RanRemotely, Lengths
<1>3. \A l : Picked(n, l, Topics) = Cardinality(AtPlace(request, n, l))
  <2> SUFFICES ASSUME NEW l
               PROVE  {r \in Request : /\ request[r].step = "ran_remote" /\ request[r].topic \in Topics
                                       /\ request[r].among = n /\ request[r].index = l}
                        = AtPlace(request, n, l)
    BY DEF Picked
  <2> QED BY DEF AtPlace, Topics
<1>4. Turns(request, n, current_index % n) BY <1>1, <1>2 DEF TurnsInv
<1> DEFINE P(l) == Cardinality(AtPlace(request, n, l))
<1>5. PICK q \in Nat : \A l \in 0..(n - 1) : P(l) = q \/ P(l) = q + 1
  <2> DEFINE k == current_index % n
  <2>1. PICK q \in Nat, w \in 0..(n - 1) : \A l \in 0..(n - 1) :
          P(l) = q + (IF Ago(n, k, l) < w THEN 1 ELSE 0)
    BY <1>4 DEF Turns
  <2> HIDE DEF P, k
  <2>2. \A l \in 0..(n - 1) : P(l) = q \/ P(l) = q + 1 BY <2>1
  <2> QED BY <2>2 DEF P
<1>6. Picked(n, i, Topics) = P(i) /\ Picked(n, j, Topics) = P(j) BY <1>3
<1> HIDE DEF P
<1> QED BY <1>5, <1>6

\* However requests overlap, remote requests are spread evenly over the places of lists
\* of one length (select_handler of load_balancing.rs, where the counter wraps at a
\* multiple of that length).
THEOREM TurnsTaken == Spec => []SpreadsEvenly
BY InitTurns, TurnsStep, TurnsEven, TypeCorrect, PTL DEF Spec

-----------------------------------------------------------------------------
(***************************************************************************)
(* Paths as they are built.                                                *)
(***************************************************************************)

PathRecord ==
  [text : String, segments : Seq(Segment), is_pattern : BOOLEAN, has_templates : BOOLEAN,
   service_path : Segment, cached_action_path : Seq(Segment), hash_components : Seq(Segment),
   segment_type_bitmap : [0..(Slots - 1) -> SegmentType]]

\* PartsAgree, of one path.
Agrees(p) ==
  LET segments == p.segments
  IN  /\ p \in PathRecord
      /\ Len(segments) \in 1..MaxSegments
      /\ Parse(p.text) = segments
      /\ p.is_pattern = IsPattern(segments)
      /\ p.has_templates = HasTemplates(segments)
      /\ p.service_path = segments[1]
      /\ p.cached_action_path \in {<<>>, segments}
      /\ Len(segments) > 1 => p.cached_action_path = segments
      /\ p.hash_components \in {<<>>, segments}
      /\ \A i \in DOMAIN segments :
           GetType(p.segment_type_bitmap, i - 1) = TypeOf(segments[i])

\* A list of segments is a string which it is parsed into.
LEMMA ParsedStays ==
  ASSUME NEW s \in Seq(Segment)
  PROVE  s \in String /\ Parse(s) = s
<1>1. s \in Seq(Segment \cup {Empty})
  <2>1. \A i \in 1..Len(s) : s[i] \in Segment \cup {Empty} OBVIOUS
  <2>2. Len(s) \in Nat /\ s = [i \in 1..Len(s) |-> s[i]] OBVIOUS
  <2> QED BY <2>1, <2>2
<1>2. Empty \notin Segment BY TopicPathAssumption
<1> QED BY <1>1, <1>2, WithoutNone DEF String, Parse

LEMMA TextParts ==
  ASSUME NEW text \in String
  PROVE  /\ Parse(text) \in Seq(Segment)
         /\ \A v : HasItem(Parse(text), v) <=> HasItem(text, v) /\ v # Empty
<1> DEFINE V == Segment \cup {Empty}
<1>1. text \in Seq(V) BY DEF String
<1>2. V \ {Empty} = Segment BY TopicPathAssumption
<1> HIDE DEF V
<1>3. Without(text, Empty) \in Seq(V \ {Empty})
      /\ \A v : HasItem(Without(text, Empty), v) <=> HasItem(text, v) /\ v # Empty
  BY <1>1, WithoutParts
<1> QED BY <1>2, <1>3 DEF Parse

LEMMA SlotOf ==
  ASSUME NEW k \in 0..(Slots - 1)
  PROVE  k % Slots = k
<1>1. Slots \in Nat \ {0} BY TopicPathAssumption
<1>2. (Slots * 0 + k) % Slots = k BY <1>1, Rest
<1>3. Slots * 0 + k = k BY <1>1
<1> QED BY <1>2, <1>3

LEMMA TypeOfType == \A segment : TypeOf(segment) \in SegmentType
BY DEF TypeOf, SegmentType

\* The bitmap of a path that it has room for.
LEMMA BitmapParts ==
  ASSUME NEW s \in Seq(Segment), Len(s) <= Slots
  PROVE  /\ BitmapOf(s) \in [0..(Slots - 1) -> SegmentType]
         /\ \A i \in DOMAIN s : GetType(BitmapOf(s), i - 1) = TypeOf(s[i])
<1> DEFINE Set(slot) == {i \in DOMAIN s : (i - 1) % Slots = slot}
           B(slot) == IF Set(slot) = {} THEN "literal" ELSE TypeOf(s[Last(Set(slot))])
<1>1. Slots \in Nat \ {0} BY TopicPathAssumption
<1>2. BitmapOf(s) = [slot \in 0..(Slots - 1) |-> B(slot)] BY DEF BitmapOf
<1>3. \A slot : B(slot) \in SegmentType BY TypeOfType DEF SegmentType
<1>4. ASSUME NEW i \in DOMAIN s PROVE GetType(BitmapOf(s), i - 1) = TypeOf(s[i])
  <2>1. Len(s) \in Nat /\ DOMAIN s = 1..Len(s) OBVIOUS
  <2>2. \A j \in DOMAIN s : j - 1 \in 0..(Slots - 1) BY <1>1, <2>1
  <2>3. \A j \in DOMAIN s : (j - 1) % Slots = j - 1 BY <2>2, SlotOf
  <2>4. Set(i - 1) = {i} BY <2>1, <2>3
  <2>5. {i} \subseteq 1..Len(s) /\ {i} # {} BY <2>1
  <2>6. Last({i}) \in {i} BY <2>1, <2>5, LastParts
  <2>7. B(i - 1) = TypeOf(s[i]) BY <2>4, <2>6
  <2> HIDE DEF B
  <2>8. BitmapOf(s)[i - 1] = B(i - 1) BY <1>2, <2>2
  <2> QED BY <2>3, <2>7, <2>8 DEF GetType
<1> HIDE DEF B
<1> QED BY <1>2, <1>3, <1>4

LEMMA NewAgrees ==
  ASSUME MaxSegments <= Slots,
         NEW text \in String, IsValid(text), Len(Parse(text)) <= MaxSegments
  PROVE  Agrees(NewPath(text))
<1> DEFINE s == Parse(text)
           p == NewPath(text)
<1>1. s \in Seq(Segment) BY TextParts
<1>2. s # <<>> BY DEF IsValid
<1>3. MaxSegments \in Nat /\ Slots \in Nat BY BuildingAssumption, TopicPathAssumption
<1>4. Len(s) \in 1..MaxSegments /\ s[1] \in Segment /\ Len(s) <= Slots
  <2>1. Len(s) <= MaxSegments OBVIOUS
  <2> HIDE DEF s
  <2> QED BY <1>1, <1>2, <1>3, <2>1
<1>5. p = [text |-> text, segments |-> s, is_pattern |-> IsPattern(s),
           has_templates |-> HasTemplates(s), service_path |-> s[1],
           cached_action_path |-> IF Len(s) <= 1 THEN <<>> ELSE s,
           hash_components |-> s, segment_type_bitmap |-> BitmapOf(s)]
  BY DEF NewPath
<1>6. BitmapOf(s) \in [0..(Slots - 1) -> SegmentType]
      /\ \A i \in DOMAIN s : GetType(BitmapOf(s), i - 1) = TypeOf(s[i])
  BY <1>1, <1>4, BitmapParts
<1>7. IsPattern(s) \in BOOLEAN /\ HasTemplates(s) \in BOOLEAN BY DEF IsPattern, HasTemplates
<1>9. Parse(text) = s OBVIOUS
<1> HIDE DEF s, p
<1>8. p \in PathRecord BY <1>1, <1>4, <1>5, <1>6, <1>7 DEF PathRecord
<1>10. Parse(p.text) = p.segments BY <1>5, <1>9
<1>11. /\ p.cached_action_path \in {<<>>, p.segments}
       /\ Len(p.segments) > 1 => p.cached_action_path = p.segments
  BY <1>1, <1>5
<1>12. Agrees(p) BY <1>4, <1>5, <1>6, <1>8, <1>10, <1>11 DEF Agrees
<1> QED BY <1>12 DEF p

LEMMA ServiceAgrees ==
  ASSUME NEW name \in Literal
  PROVE  Agrees(NewService(name))
<1> DEFINE p == NewService(name)
           s == <<name>>
<1>1. s \in Seq(Segment) /\ Len(s) = 1 /\ s[1] = name /\ DOMAIN s = {1} /\ name \in Segment
  BY DEF Segment
<1>2. Parse(s) = s /\ s \in String BY <1>1, ParsedStays
<1>3. MaxSegments \in Nat \ {0} /\ Slots \in Nat \ {0}
  BY BuildingAssumption, TopicPathAssumption
<1>4. ~IsPattern(s) /\ ~HasTemplates(s) /\ TypeOf(name) = "literal"
  BY <1>1, SegmentAssumption DEF IsPattern, HasTemplates, TypeOf
<1>5. BitmapOf(<<>>) \in [0..(Slots - 1) -> SegmentType] /\ \A k \in 0..(Slots - 1) :
        BitmapOf(<<>>)[k] = "literal"
  BY DEF BitmapOf, SegmentType
<1>6. 1 - 1 = 0 /\ 0 \in 0..(Slots - 1) /\ 0 % Slots = 0 BY <1>3, SlotOf
<1>7. GetType(BitmapOf(<<>>), 1 - 1) = TypeOf(s[1]) BY <1>1, <1>4, <1>5, <1>6 DEF GetType
<1>8. p = [text |-> s, segments |-> s, is_pattern |-> FALSE, has_templates |-> FALSE,
           service_path |-> name, cached_action_path |-> <<>>, hash_components |-> <<>>,
           segment_type_bitmap |-> BitmapOf(<<>>)]
  BY DEF NewService
<1>9. <<>> \in Seq(Segment) OBVIOUS
<1> HIDE DEF s, p
<1>10. p \in PathRecord BY <1>1, <1>2, <1>5, <1>8, <1>9 DEF PathRecord
<1>11. IsPattern(s) = FALSE /\ HasTemplates(s) = FALSE
  <2>1. IsPattern(s) \in BOOLEAN /\ HasTemplates(s) \in BOOLEAN BY DEF IsPattern, HasTemplates
  <2> QED BY <1>4, <2>1
<1>12. /\ p.segments = s /\ p.text = s /\ p.is_pattern = FALSE /\ p.has_templates = FALSE
       /\ p.service_path = name /\ p.cached_action_path = <<>> /\ p.hash_components = <<>>
       /\ p.segment_type_bitmap = BitmapOf(<<>>)
  BY <1>8
<1>13. \A i \in DOMAIN s : GetType(BitmapOf(<<>>), i - 1) = TypeOf(s[i])
  <2> SUFFICES ASSUME NEW i \in DOMAIN s PROVE GetType(BitmapOf(<<>>), i - 1) = TypeOf(s[i])
    OBVIOUS
  <2>1. i = 1 BY <1>1
  <2> QED BY <1>7, <2>1
<1>14. Agrees(p)
  <2>1. Len(s) \in 1..MaxSegments /\ ~(Len(s) > 1) BY <1>1, <1>3
  <2> QED BY <1>1, <1>2, <1>10, <1>11, <1>12, <1>13, <2>1 DEF Agrees
<1> QED BY <1>14 DEF p

\* What is told of a list's segments is told of one more.
LEMMA FlagsAppend ==
  ASSUME NEW s \in Seq(Segment), NEW x \in Segment
  PROVE  /\ IsPattern(Append(s, x)) = (IsPattern(s) \/ x \in {Star, Multi})
         /\ HasTemplates(Append(s, x)) = (HasTemplates(s) \/ x \in Param)
<1> DEFINE c == Append(s, x)
           n == Len(s)
<1>1. /\ n \in Nat /\ DOMAIN s = 1..n /\ DOMAIN c = 1..(n + 1) /\ c[n + 1] = x
      /\ \A i \in 1..n : c[i] = s[i]
  OBVIOUS
<1> HIDE DEF c, n
<1>2. ASSUME NEW S PROVE (\E i \in DOMAIN c : c[i] \in S) <=> (\E i \in DOMAIN s : s[i] \in S) \/ x \in S
  <2>1. ASSUME NEW i \in DOMAIN c, c[i] \in S PROVE (\E j \in DOMAIN s : s[j] \in S) \/ x \in S
    <3>1. i \in 1..n \/ i = n + 1 BY <1>1, <2>1
    <3> QED BY <1>1, <2>1, <3>1
  <2>2. ASSUME NEW i \in DOMAIN s, s[i] \in S PROVE i \in DOMAIN c /\ c[i] \in S BY <1>1, <2>2
  <2>3. x \in S => n + 1 \in DOMAIN c /\ c[n + 1] \in S BY <1>1
  <2> QED BY <2>1, <2>2, <2>3
<1>3. IsPattern(c) <=> IsPattern(s) \/ x \in {Star, Multi} BY <1>2 DEF IsPattern
<1>4. HasTemplates(c) <=> HasTemplates(s) \/ x \in Param BY <1>2 DEF HasTemplates
<1>5. /\ IsPattern(c) \in BOOLEAN /\ HasTemplates(c) \in BOOLEAN
  BY DEF IsPattern, HasTemplates
<1> QED BY <1>3, <1>4, <1>5 DEF c

LEMMA ChildAgrees ==
  ASSUME MaxSegments <= Slots,
         NEW p, Agrees(p), NEW segment \in Segment, Len(p.segments) < MaxSegments
  PROVE  Agrees(ChildOf(p, segment))
<1> DEFINE s == p.segments
           c == Append(s, segment)
           n == Len(s)
           joined == (IF p.cached_action_path = <<>> THEN <<p.service_path>>
                      ELSE p.cached_action_path) \o <<segment>>
           bitmap == p.segment_type_bitmap
           next == SetType(bitmap, n, segment)
           q == ChildOf(p, segment)
<1>1. /\ p \in PathRecord /\ n \in 1..MaxSegments /\ p.is_pattern = IsPattern(s)
      /\ p.has_templates = HasTemplates(s) /\ p.service_path = s[1]
      /\ p.cached_action_path \in {<<>>, s} /\ (n > 1 => p.cached_action_path = s)
      /\ \A i \in DOMAIN s : GetType(bitmap, i - 1) = TypeOf(s[i])
  BY DEF Agrees
<1>2. s \in Seq(Segment) /\ bitmap \in [0..(Slots - 1) -> SegmentType] BY <1>1 DEF PathRecord
<1>3. q = [text |-> joined, segments |-> c, is_pattern |-> p.is_pattern \/ segment \in {Star, Multi},
           has_templates |-> p.has_templates \/ segment \in Param,
           service_path |-> p.service_path, cached_action_path |-> joined,
           hash_components |-> <<>>, segment_type_bitmap |-> next]
  BY DEF ChildOf
<1>4. n < MaxSegments /\ MaxSegments \in Nat /\ Slots \in Nat \ {0}
  BY BuildingAssumption, TopicPathAssumption
<1>5. /\ c \in Seq(Segment) /\ Len(c) = n + 1 /\ c[n + 1] = segment
      /\ \A i \in 1..n : c[i] = s[i]
  BY <1>2
<1>6. n \in Nat /\ DOMAIN s = 1..n /\ DOMAIN c = 1..(n + 1) BY <1>2, <1>5
<1>7. joined = c
  <2> DEFINE base == IF p.cached_action_path = <<>> THEN <<p.service_path>>
                     ELSE p.cached_action_path
  <2>1. base = s
    <3>1. CASE p.cached_action_path = <<>>
      <4>1. s # <<>> BY <1>1, <1>6
      <4>2. n = 1
        <5>1. ~(n > 1) BY <1>1, <3>1, <4>1
        <5> HIDE DEF n, s
        <5> QED BY <1>1, <1>4, <1>6, <5>1
      <4>3. s = <<s[1]>> BY <1>2, <4>2
      <4> QED BY <1>1, <3>1, <4>3
    <3>2. CASE p.cached_action_path # <<>> BY <1>1, <3>2
    <3> QED BY <3>1, <3>2
  <2>2. joined = base \o <<segment>> OBVIOUS
  <2> HIDE DEF base, joined
  <2>3. s \o <<segment>> = Append(s, segment) BY <1>2
  <2> QED BY <2>1, <2>2, <2>3
<1>8. n \in 0..(Slots - 1) /\ n % Slots = n
  <2>1. \A k \in Nat : k < MaxSegments => k \in 0..(Slots - 1) BY <1>4
  <2>2. n \in 0..(Slots - 1) BY <1>4, <1>6, <2>1
  <2> QED BY <2>2, SlotOf
<1>9. next = [bitmap EXCEPT ![n] = TypeOf(segment)] BY <1>8 DEF SetType
<1>10. next \in [0..(Slots - 1) -> SegmentType] BY <1>2, <1>8, <1>9, TypeOfType
<1>11. \A i \in DOMAIN c : GetType(next, i - 1) = TypeOf(c[i])
  <2> SUFFICES ASSUME NEW i \in DOMAIN c PROVE GetType(next, i - 1) = TypeOf(c[i]) OBVIOUS
  <2>1. i \in 1..(n + 1) /\ i - 1 \in 0..(Slots - 1)
    <3>1. \A k \in 0..(Slots - 1) : \A j \in 1..(k + 1) : j - 1 \in 0..(Slots - 1) BY <1>4
    <3>2. i \in 1..(n + 1) BY <1>6
    <3> HIDE DEF n
    <3> QED BY <1>8, <3>1, <3>2
  <2>2. (i - 1) % Slots = i - 1 BY <2>1, SlotOf
  <2>3. CASE i = n + 1
    <3>1. i - 1 = n BY <1>6, <2>3
    <3>2. next[n] = TypeOf(segment) BY <1>2, <1>8, <1>9
    <3> QED BY <1>5, <1>8, <2>3, <3>1, <3>2 DEF GetType
  <2>4. CASE i # n + 1
    <3>1. i \in 1..n /\ i - 1 # n BY <1>6, <2>1, <2>4
    <3>2. next[i - 1] = bitmap[i - 1] BY <1>2, <1>9, <2>1, <3>1
    <3>3. bitmap[i - 1] = TypeOf(s[i]) BY <1>1, <1>6, <2>2, <3>1 DEF GetType
    <3>4. c[i] = s[i] BY <1>5, <3>1
    <3> QED BY <2>2, <3>2, <3>3, <3>4 DEF GetType
  <2> QED BY <2>3, <2>4
<1>12. /\ IsPattern(c) = (IsPattern(s) \/ segment \in {Star, Multi})
       /\ HasTemplates(c) = (HasTemplates(s) \/ segment \in Param)
  BY <1>2, FlagsAppend
<1>13. IsPattern(c) \in BOOLEAN /\ HasTemplates(c) \in BOOLEAN BY DEF IsPattern, HasTemplates
<1>14. c \in String /\ Parse(c) = c BY <1>5, ParsedStays
<1>15. p.service_path \in Segment /\ c[1] = p.service_path
  <2>1. 1 \in 1..n BY <1>1, <1>6
  <2> QED BY <1>1, <1>2, <1>5, <2>1
<1>16. Len(c) \in 1..MaxSegments BY <1>4, <1>5, <1>6
<1>17. q = [text |-> c, segments |-> c, is_pattern |-> IsPattern(c),
            has_templates |-> HasTemplates(c), service_path |-> p.service_path,
            cached_action_path |-> c, hash_components |-> <<>>, segment_type_bitmap |-> next]
  <2>1. (p.is_pattern \/ segment \in {Star, Multi}) = IsPattern(c) BY <1>1, <1>12
  <2>2. (p.has_templates \/ segment \in Param) = HasTemplates(c) BY <1>1, <1>12
  <2> HIDE DEF c, joined, next, q, s, n
  <2> QED BY <1>3, <1>7, <2>1, <2>2
<1> HIDE DEF c, joined, next, q, s, n
<1>18. <<>> \in Seq(Segment) OBVIOUS
<1>19. q \in PathRecord BY <1>5, <1>10, <1>13, <1>14, <1>15, <1>17, <1>18 DEF PathRecord
<1>20. Agrees(q) BY <1>11, <1>14, <1>15, <1>16, <1>17, <1>19 DEF Agrees
<1> QED BY <1>20 DEF q

LEMMA TypesOf ==
  ASSUME NEW segment \in Segment
  PROVE  /\ TypeOf(segment) \in {"single_wildcard", "multi_wildcard"}
              <=> segment \in {Star, Multi}
         /\ TypeOf(segment) = "multi_wildcard" <=> segment = Multi
         /\ TypeOf(segment) = "template" <=> segment \in Param
<1>1. CASE segment = Star BY <1>1, SegmentAssumption DEF TypeOf
<1>2. CASE segment = Multi BY <1>2, SegmentAssumption DEF TypeOf
<1>3. CASE segment \in Param BY <1>3, SegmentAssumption DEF TypeOf
<1>4. CASE segment \notin Param /\ segment # Star /\ segment # Multi BY <1>4 DEF TypeOf
<1> QED BY <1>1, <1>2, <1>3, <1>4

LEMMA ParentAgrees ==
  ASSUME MaxSegments <= Slots,
         NEW p, Agrees(p), Len(p.segments) > 1
  PROVE  Agrees(ParentOf(p))
<1> DEFINE s == p.segments
           n == Len(s)
           t == SubSeq(s, 1, n - 1)
           bitmap == p.segment_type_bitmap
           next == [bitmap EXCEPT ![Len(t) % Slots] = "literal"]
           types == {GetType(next, i - 1) : i \in DOMAIN t}
           wild == types \cap {"single_wildcard", "multi_wildcard"} # {}
           named == "template" \in types
           q == ParentOf(p)
<1>1. /\ p \in PathRecord /\ n \in 1..MaxSegments /\ p.service_path = s[1]
      /\ \A i \in DOMAIN s : GetType(bitmap, i - 1) = TypeOf(s[i])
  BY DEF Agrees
<1>2. /\ s \in Seq(Segment) /\ bitmap \in [0..(Slots - 1) -> SegmentType]
      /\ p.service_path \in Segment
  BY <1>1 DEF PathRecord
<1>3. q = [p EXCEPT !.text = t, !.segments = t, !.is_pattern = wild, !.has_templates = named,
                    !.cached_action_path = t, !.hash_components = <<>>,
                    !.segment_type_bitmap = next]
  BY DEF ParentOf
<1>4. n > 1 /\ MaxSegments \in Nat /\ Slots \in Nat \ {0} /\ n \in Nat /\ n <= Slots
  <2>1. n > 1 /\ MaxSegments \in Nat /\ Slots \in Nat \ {0}
    BY BuildingAssumption, TopicPathAssumption
  <2>2. n \in Nat BY <1>2
  <2> HIDE DEF n
  <2> QED BY <1>1, <2>1, <2>2
<1>5. /\ t \in Seq(Segment) /\ Len(t) = n - 1 /\ \A i \in 1..(n - 1) : t[i] = s[i]
  BY <1>2, <1>4
<1>6. DOMAIN s = 1..n /\ DOMAIN t = 1..(n - 1) BY <1>2, <1>5
<1>7. t \in String /\ Parse(t) = t BY <1>5, ParsedStays
<1> HIDE DEF s, n, t, q, bitmap
<1>8. n - 1 \in 0..(Slots - 1) /\ (n - 1) % Slots = n - 1
  <2>1. n - 1 \in 0..(Slots - 1) BY <1>4
  <2> QED BY <2>1, SlotOf
<1>9. next = [bitmap EXCEPT ![n - 1] = "literal"] BY <1>5, <1>8
<1>10. next \in [0..(Slots - 1) -> SegmentType] BY <1>2, <1>9 DEF SegmentType
<1>11. \A i \in DOMAIN t : GetType(next, i - 1) = TypeOf(t[i])
  <2> SUFFICES ASSUME NEW i \in DOMAIN t PROVE GetType(next, i - 1) = TypeOf(t[i]) OBVIOUS
  <2>1. i \in 1..(n - 1) /\ i \in 1..n /\ i - 1 \in 0..(Slots - 1) /\ i - 1 # n - 1
    BY <1>4, <1>6
  <2>2. (i - 1) % Slots = i - 1 BY <2>1, SlotOf
  <2>3. next[i - 1] = bitmap[i - 1] BY <1>2, <1>9, <2>1
  <2>4. bitmap[i - 1] = TypeOf(s[i]) BY <1>1, <1>6, <2>1, <2>2 DEF GetType
  <2>5. t[i] = s[i] BY <1>5, <2>1
  <2> HIDE DEF next
  <2> QED BY <2>2, <2>3, <2>4, <2>5 DEF GetType
<1>12. types = {TypeOf(t[i]) : i \in DOMAIN t} BY <1>11
<1> HIDE DEF next, types
<1>13. \A i \in DOMAIN t : t[i] \in Segment BY <1>5, <1>6
<1>14. wild = IsPattern(t)
  <2>1. wild <=> \E i \in DOMAIN t : TypeOf(t[i]) \in {"single_wildcard", "multi_wildcard"}
    BY <1>12
  <2>2. wild <=> IsPattern(t) BY <1>13, <2>1, TypesOf DEF IsPattern
  <2> QED BY <2>2 DEF IsPattern
<1>15. named = HasTemplates(t)
  <2>1. named <=> \E i \in DOMAIN t : TypeOf(t[i]) = "template" BY <1>12
  <2>2. named <=> HasTemplates(t) BY <1>13, <2>1, TypesOf DEF HasTemplates
  <2>3. named \in BOOLEAN /\ HasTemplates(t) \in BOOLEAN BY DEF HasTemplates
  <2> HIDE DEF named
  <2> QED BY <2>2, <2>3
<1>16. IsPattern(t) \in BOOLEAN /\ HasTemplates(t) \in BOOLEAN BY DEF IsPattern, HasTemplates
<1>17. p.service_path = t[1]
  <2>1. 1 \in 1..(n - 1) BY <1>4
  <2> QED BY <1>1, <1>5, <2>1
<1>18. Len(t) \in 1..MaxSegments BY <1>1, <1>4, <1>5
<1> HIDE DEF wild, named
<1>19. /\ q.text = t /\ q.segments = t /\ q.is_pattern = wild /\ q.has_templates = named
       /\ q.service_path = p.service_path /\ q.cached_action_path = t
       /\ q.hash_components = <<>> /\ q.segment_type_bitmap = next
       /\ q \in PathRecord
  <2>1. <<>> \in Seq(Segment) OBVIOUS
  <2>2. p = [text |-> p.text, segments |-> p.segments, is_pattern |-> p.is_pattern,
             has_templates |-> p.has_templates, service_path |-> p.service_path,
             cached_action_path |-> p.cached_action_path,
             hash_components |-> p.hash_components,
             segment_type_bitmap |-> p.segment_type_bitmap]
    BY <1>1 DEF PathRecord
  <2>3. q = [text |-> t, segments |-> t, is_pattern |-> wild, has_templates |-> named,
             service_path |-> p.service_path, cached_action_path |-> t,
             hash_components |-> <<>>, segment_type_bitmap |-> next]
    BY <1>3, <2>2
  <2>4. q \in PathRecord
    BY <1>2, <1>5, <1>7, <1>10, <1>14, <1>15, <1>16, <2>1, <2>3 DEF PathRecord
  <2> QED BY <2>3, <2>4
<1>20. Agrees(q) BY <1>7, <1>11, <1>14, <1>15, <1>17, <1>18, <1>19 DEF Agrees
<1> QED BY <1>20 DEF q

\* What from_template builds.
LEMMA FilledText ==
  ASSUME NEW template \in Text, NEW params \in [Names(template) -> Value]
  PROVE  Filled(template, params) \in String
<1> DEFINE t == Parse(template)
           values == [i \in DOMAIN t |-> IF t[i] \in Param THEN params[t[i]] ELSE <<t[i]>>]
<1>1. template \in String BY BuildingAssumption
<1>2. t \in Seq(Segment) /\ \A v : HasItem(t, v) => HasItem(template, v) BY <1>1, TextParts
<1>3. Filled(template, params) = Joined(values, Len(t)) BY DEF Filled
<1> HIDE DEF t
<1>4. Len(t) \in Nat /\ DOMAIN t = 1..Len(t) BY <1>2
<1>5. \A i \in 1..Len(t) : values[i] \in Seq(Segment \cup {Empty})
  <2> SUFFICES ASSUME NEW i \in 1..Len(t) PROVE values[i] \in Seq(Segment \cup {Empty})
    OBVIOUS
  <2>1. values[i] = IF t[i] \in Param THEN params[t[i]] ELSE <<t[i]>> BY <1>4
  <2>2. t[i] \in Segment BY <1>2, <1>4
  <2>3. CASE t[i] \in Param
    <3>1. HasItem(t, t[i]) BY <1>4 DEF HasItem
    <3>2. t[i] \in Names(template) BY <1>2, <2>3, <3>1 DEF HasItem, Names
    <3>3. params[t[i]] \in String BY <3>2, BuildingAssumption
    <3> HIDE DEF values
    <3> QED BY <2>1, <2>3, <3>3 DEF String
  <2>4. CASE t[i] \notin Param
    <3> HIDE DEF values
    <3> QED BY <2>1, <2>2, <2>4
  <2> QED BY <2>3, <2>4
<1> HIDE DEF values
<1> QED BY <1>3, <1>4, <1>5, JoinedParts DEF String

LEMMA BuildInitAgrees ==
  ASSUME MaxSegments <= Slots, BuildInit
  PROVE  Agrees(path)
<1>1. ASSUME NEW text \in Text, IsValid(text), Len(Parse(text)) <= MaxSegments,
             path = NewPath(text)
      PROVE  Agrees(path)
  BY <1>1, NewAgrees, BuildingAssumption
<1>2. ASSUME NEW name \in Literal, path = NewService(name)
      PROVE  Agrees(path)
  BY <1>2, ServiceAgrees
<1>3. ASSUME NEW template \in Text, NEW params \in [Names(template) -> Value],
             IsValid(Filled(template, params)),
             Len(Parse(Filled(template, params))) <= MaxSegments,
             path = NewPath(Filled(template, params))
      PROVE  Agrees(path)
  <2>1. Filled(template, params) \in String BY FilledText
  <2> QED BY <1>3, <2>1, NewAgrees
<1> QED BY <1>1, <1>2, <1>3 DEF BuildInit

LEMMA BuildStepAgrees ==
  ASSUME MaxSegments <= Slots, Agrees(path), [BuildNext]_path
  PROVE  Agrees(path)'
<1>1. ASSUME NEW action_name \in Text, ToActionTopic(action_name) PROVE Agrees(path')
  <2> DEFINE text == <<path.service_path>> \o action_name
  <2>1. IsValid(text) /\ Len(Parse(text)) <= MaxSegments /\ path' = NewPath(text)
    BY <1>1 DEF ToActionTopic
  <2>2. path.service_path \in Segment BY DEF Agrees, PathRecord
  <2>3. action_name \in String BY BuildingAssumption
  <2>4. text \in String BY <2>2, <2>3 DEF String
  <2> HIDE DEF text
  <2> QED BY <2>1, <2>4, NewAgrees
<1>2. ASSUME NEW segment \in Segment, ToChild(segment) PROVE Agrees(path')
  BY <1>2, ChildAgrees DEF ToChild
<1>3. ASSUME ToParent PROVE Agrees(path')
  BY <1>3, ParentAgrees DEF ToParent
<1>4. ASSUME UNCHANGED path PROVE Agrees(path') BY <1>4
<1>5. Agrees(path') BY <1>1, <1>2, <1>3, <1>4 DEF BuildNext
<1>6. Agrees(path)' <=> Agrees(path') BY DEF Agrees
<1> QED BY <1>5, <1>6

LEMMA AgreesParts == Agrees(path) <=> path \in PathRecord /\ PartsAgree
BY DEF Agrees, PartsAgree, PathRecord

\* PartsAgree: whatever flags, paths and bitmap the constructors and methods keep up by
\* themselves are those of the segments, as long as the bitmap has room for all of these.
THEOREM PartsStayTrue ==
  ASSUME MaxSegments <= Slots
  PROVE  BuildSpec => []PartsAgree
<1>1. BuildInit => Agrees(path) BY BuildInitAgrees
<1>2. Agrees(path) /\ [BuildNext]_path => Agrees(path)' BY BuildStepAgrees
<1>3. Agrees(path) => PartsAgree BY AgreesParts
<1> QED BY <1>1, <1>2, <1>3, PTL DEF BuildSpec

-----------------------------------------------------------------------------
(***************************************************************************)
(* What the paths so built match.                                          *)
(***************************************************************************)

\* What segments_match tells of a plain topic.
LEMMA SegmentsCover ==
  ASSUME NEW p \in Seq(Segment), p # <<>>, NEW t \in Seq(Segment), IsConcrete(t)
  PROVE  SegmentsMatch(p, t) <=> Covers(p, t)
<1> DEFINE L == Len(p)
           suits(i) == p[i] \in {t[i], Star} \cup Param
           covers(i) == \/ p[i] = Star
                        \/ p[i] = t[i] /\ p[i] \in Literal
                        \/ p[i] \in Param /\ t[i] \in Literal
<1>1. L \in Nat /\ L > 0 /\ DOMAIN p = 1..L OBVIOUS
<1>2. Len(t) \in Nat /\ \A i \in 1..Len(t) : t[i] \in Literal BY ConcretePath
<1> HIDE DEF L
<1>3. \A i \in 1..Len(t) : suits(i) <=> covers(i) BY <1>2
<1>4. L \in 1..Len(t) /\ suits(L) => p[L] # Multi
  BY <1>2, SegmentAssumption
<1>5. \A i \in 1..Len(t) : p[i] = t[i] => covers(i) BY <1>2
<1>6. SegmentsMatch(p, t) <=>
        IF p[L] = Multi THEN Len(t) >= L - 1 /\ \A i \in 1..(L - 1) : covers(i)
        ELSE L = Len(t) /\ \A i \in 1..L : p[i] = t[i] \/ covers(i)
  BY <1>1 DEF SegmentsMatch, L
<1>7. Covers(p, t) <=>
        \/ Len(t) = L /\ \A i \in 1..L : suits(i)
        \/ p[L - 1 + 1] = Multi /\ Len(t) >= L - 1 /\ \A i \in 1..(L - 1) : suits(i)
  <2>1. L - 1 # L BY <1>1
  <2> QED BY <2>1 DEF Covers, L
<1>8. L - 1 + 1 = L BY <1>1
<1> HIDE DEF suits, covers
<1>9. CASE p[L] = Multi
  <2>1. ~(Len(t) = L /\ \A i \in 1..L : suits(i)) BY <1>1, <1>4, <1>9
  <2>2. Len(t) >= L - 1 => \A i \in 1..(L - 1) : suits(i) <=> covers(i) BY <1>1, <1>2, <1>3
  <2> QED BY <1>6, <1>7, <1>8, <1>9, <2>1, <2>2
<1>10. CASE p[L] # Multi
  <2>1. Len(t) = L => \A i \in 1..L : suits(i) <=> (p[i] = t[i] \/ covers(i))
    BY <1>3, <1>5
  <2> QED BY <1>6, <1>7, <1>8, <1>10, <2>1
<1> QED BY <1>9, <1>10

\* A string that is valid makes a path that starts with a segment and has > at its end only.
LEMMA ValidText ==
  ASSUME NEW text \in String, IsValid(text)
  PROVE  Parse(text) \in Seq(Segment) /\ Parse(text) # <<>> /\ MultiLast(Parse(text))
BY TextParts DEF IsValid, MultiLast

LEMMA TrieFindsCovered ==
  ASSUME NEW p \in Seq(Segment), p # <<>>, MultiLast(p), NEW t \in Seq(Segment), IsConcrete(t)
  PROVE  TrieFinds(p, t) <=> Covers(p, t) /\ ~(Len(p) > Len(t))
<1> DEFINE node == NodeOf(p)
           trie == [n \in {node} |-> <<p>>]
           V == Seq(Segment)
           found == FindExact(trie, t)
<1>1. t \in Seq(Literal \cup Param) BY ConcretePath
<1>2. \A n \in DOMAIN trie : trie[n] \in Seq(V) OBVIOUS
<1>3. found \in Seq(V) /\ Lists(found, trie, Reach(t, <<>>)) BY <1>1, <1>2, ExactLists
<1>4. \A v : HasItem(found, v) <=> \E n \in Reach(t, <<>>) : HasItem(At(trie, n), v)
  <2> HIDE DEF found, trie, V
  <2> QED BY <1>2, <1>3, ListsItems
<1>5. \A n, v : HasItem(At(trie, n), v) <=> n = node /\ v = p
  <2> SUFFICES ASSUME NEW n, NEW v PROVE HasItem(At(trie, n), v) <=> n = node /\ v = p
    OBVIOUS
  <2>1. CASE n = node
    <3>1. At(trie, n) = <<p>> BY <2>1 DEF At
    <3>2. HasItem(<<p>>, v) <=> v = p BY DEF HasItem
    <3> QED BY <2>1, <3>1, <3>2
  <2>2. CASE n # node
    <3>1. At(trie, n) = <<>> BY <2>2 DEF At
    <3>2. ~HasItem(<<>>, v) BY DEF HasItem
    <3> QED BY <2>2, <3>1, <3>2
  <2> QED BY <2>1, <2>2
<1>6. TrieFinds(p, t) <=> found # <<>> BY DEF TrieFinds
<1> HIDE DEF found, trie, node
<1>7. found # <<>> <=> \E v : HasItem(found, v)
  <2>1. Len(found) \in Nat /\ DOMAIN found = 1..Len(found) /\ (found = <<>> <=> Len(found) = 0)
    BY <1>3
  <2>2. found # <<>> => 1 \in DOMAIN found BY <2>1
  <2>3. found = <<>> => DOMAIN found = {} BY <2>1
  <2> QED BY <2>2, <2>3 DEF HasItem
<1>8. TrieFinds(p, t) <=> node \in Reach(t, <<>>)
  <2>1. \A v : HasItem(found, v) <=> \E n \in Reach(t, <<>>) : n = node /\ v = p
    BY <1>4, <1>5
  <2>2. (\E v : HasItem(found, v)) <=> node \in Reach(t, <<>>) BY <2>1
  <2> QED BY <1>6, <1>7, <2>2
<1>9. node \in Reach(t, <<>>) <=> Len(p) <= Len(t) /\ Covers(p, t)
  BY SegmentsReach, SegmentsCover DEF node
<1>10. Len(p) <= Len(t) <=> ~(Len(p) > Len(t))
  <2>1. Len(p) \in Nat /\ Len(t) \in Nat OBVIOUS
  <2> QED BY <2>1
<1> QED BY <1>8, <1>9, <1>10

\* matches, of a path as it is kept and a plain topic.
LEMMA MatchesCovered ==
  ASSUME NEW p, Agrees(p), MultiLast(p.segments),
         NEW text \in String, IsValid(text), IsConcrete(Parse(text))
  PROVE  Matches(p, NewPath(text)) <=>
           /\ Covers(p.segments, Parse(text)) /\ ~p.has_templates
           /\ p.is_pattern \/ p.text = text
<1> DEFINE s == p.segments
           t == Parse(text)
           topic == NewPath(text)
           L == Len(s)
<1>1. /\ p \in PathRecord /\ L \in 1..MaxSegments /\ Parse(p.text) = s
      /\ p.is_pattern = IsPattern(s) /\ p.has_templates = HasTemplates(s)
      /\ \A i \in DOMAIN s : GetType(p.segment_type_bitmap, i - 1) = TypeOf(s[i])
  BY DEF Agrees
<1>2. s \in Seq(Segment) /\ p.is_pattern \in BOOLEAN /\ p.has_templates \in BOOLEAN
  BY <1>1 DEF PathRecord
<1>3. L \in Nat /\ L > 0 /\ DOMAIN s = 1..L /\ s # <<>>
  <2>1. MaxSegments \in Nat BY BuildingAssumption
  <2>2. L \in Nat /\ DOMAIN s = 1..L /\ (s = <<>> => L = 0) BY <1>2
  <2> HIDE DEF L, s
  <2> QED BY <1>1, <2>1, <2>2
<1>4. t \in Seq(Segment) /\ IsConcrete(t) BY TextParts
<1>5. Len(t) \in Nat /\ DOMAIN t = 1..Len(t) /\ ~IsPattern(t) /\ \A i \in 1..Len(t) : t[i] \in Literal
  BY <1>4, ConcretePath
<1>6. ~HasTemplates(t) BY <1>5, SegmentAssumption DEF HasTemplates
<1>7. /\ topic.text = text /\ topic.segments = t
      /\ topic.is_pattern = IsPattern(t) /\ topic.has_templates = HasTemplates(t)
  BY DEF NewPath
<1> HIDE DEF L, t, topic
<1>8. HasMultiWildcard(p) <=> s[L] = Multi
  <2>1. \A i \in DOMAIN s : TypeOf(s[i]) = "multi_wildcard" <=> s[i] = Multi
    BY <1>2, TypesOf
  <2>2. HasMultiWildcard(p) <=> \E i \in DOMAIN s : s[i] = Multi
    BY <1>1, <2>1 DEF HasMultiWildcard
  <2>3. L \in DOMAIN s BY <1>3
  <2> QED BY <2>2, <2>3 DEF MultiLast, L
<1>9. SegmentsMatch(s, t) <=> Covers(s, t) BY <1>2, <1>3, <1>4, SegmentsCover
<1>10. SegmentsMatch(s, t) => L = Len(t) \/ s[L] = Multi BY DEF SegmentsMatch, L
<1>11. Matches(p, topic) <=>
         \/ p.text = text
         \/ p.is_pattern /\ ~p.has_templates /\ SegmentsMatch(s, t)
  <2>1. Matches(p, topic) <=>
         \/ p.text = text
         \/ /\ L = Len(t) \/ HasMultiWildcard(p)
            /\ p.is_pattern \/ p.has_templates
            /\ ~p.has_templates
            /\ SegmentsMatch(s, t)
    BY <1>5, <1>6, <1>7 DEF Matches, L
  <2> QED BY <1>8, <1>10, <2>1
<1>12. ASSUME p.text = text PROVE Covers(s, t) /\ ~p.has_templates
  <2>1. s = t BY <1>1, <1>12 DEF t
  <2>2. ~p.has_templates BY <1>1, <1>6, <2>1
  <2>3. L = Len(t) BY <2>1 DEF L
  <2>4. \A i \in 1..L : s[i] \in {t[i], Star} \cup Param BY <2>1
  <2> QED BY <2>2, <2>3, <2>4 DEF Covers, L
<1> QED BY <1>9, <1>11, <1>12 DEF t, topic

LEMMA AgreesMeaning ==
  ASSUME Agrees(path)
  PROVE  MatchesMeaning
<1> DEFINE s == path.segments
<1>1. SUFFICES
        ASSUME NEW text \in Text, IsValid(s), IsValid(text), IsConcrete(NewPath(text).segments)
        PROVE  LET topic == NewPath(text)
                   covered == Covers(s, topic.segments)
                   isLonger == Len(s) > Len(topic.segments)
               IN  /\ TrieFinds(s, topic.segments) <=> covered /\ ~isLonger
                   /\ Matches(path, topic) <=>
                        /\ covered /\ ~path.has_templates
                        /\ path.is_pattern \/ path.text = topic.text
  BY DEF MatchesMeaning
<1>2. text \in String BY BuildingAssumption
<1>3. NewPath(text).segments = Parse(text) /\ NewPath(text).text = text BY DEF NewPath
<1>4. s \in Seq(Segment) BY DEF Agrees, PathRecord
<1>5. s \in String /\ Parse(s) = s BY <1>4, ParsedStays
<1>6. s # <<>> /\ MultiLast(s) BY <1>1, <1>5, ValidText
<1>7. Parse(text) \in Seq(Segment) /\ IsConcrete(Parse(text)) BY <1>1, <1>2, <1>3, TextParts
<1>8. TrieFinds(s, Parse(text)) <=> Covers(s, Parse(text)) /\ ~(Len(s) > Len(Parse(text)))
  BY <1>4, <1>6, <1>7, TrieFindsCovered
<1>9. Matches(path, NewPath(text)) <=>
           /\ Covers(path.segments, Parse(text)) /\ ~path.has_templates
           /\ path.is_pattern \/ path.text = text
  BY <1>1, <1>2, <1>6, <1>7, MatchesCovered
<1> QED BY <1>3, <1>8, <1>9

\* MatchesMeaning: however a path was made, matches and the search of the trie say the same
\* of it and any plain topic, but for the three differences named there.
THEOREM MatchesAgree ==
  ASSUME MaxSegments <= Slots
  PROVE  BuildSpec => []MatchesMeaning
<1>1. BuildInit => Agrees(path) BY BuildInitAgrees
<1>2. Agrees(path) /\ [BuildNext]_path => Agrees(path)' BY BuildStepAgrees
<1>3. Agrees(path) => MatchesMeaning BY AgreesMeaning
<1> QED BY <1>1, <1>2, <1>3, PTL DEF BuildSpec

-----------------------------------------------------------------------------
(***************************************************************************)
(* Templates.                                                              *)
(***************************************************************************)

\* An item is in one place of a list at most.
Once(list, v) == \A i, j \in DOMAIN list : list[i] = v /\ list[j] = v => i = j

LEMMA OnceAppend ==
  ASSUME NEW V, NEW s \in Seq(V), NEW y \in V, NEW v, Once(s, v), y = v => ~HasItem(s, v)
  PROVE  /\ Once(Append(s, y), v)
         /\ HasItem(Append(s, y), v) => HasItem(s, v) \/ y = v
<1> DEFINE n == Len(s)
           t == Append(s, y)
<1>1. /\ n \in Nat /\ DOMAIN s = 1..n /\ DOMAIN t = 1..(n + 1) /\ t[n + 1] = y
      /\ \A i \in 1..n : t[i] = s[i]
  OBVIOUS
<1> HIDE DEF n, t
<1>2. \A i \in 1..(n + 1) : i \in 1..n \/ i = n + 1 BY <1>1
<1>3. \A i \in 1..(n + 1) : t[i] = v => (i \in 1..n /\ s[i] = v) \/ (i = n + 1 /\ y = v)
  BY <1>1, <1>2
<1>4. (\E i \in 1..n : s[i] = v) => y # v BY <1>1 DEF HasItem
<1>5. Once(t, v) BY <1>1, <1>3, <1>4 DEF Once
<1>6. HasItem(t, v) => HasItem(s, v) \/ y = v BY <1>1, <1>3 DEF HasItem
<1> QED BY <1>5, <1>6 DEF t

LEMMA WithoutOnce ==
  ASSUME NEW V, NEW list \in Seq(V), NEW x, NEW v, Once(list, v)
  PROVE  Once(Without(list, x), v)
<1> DEFINE n == Len(list)
           f == [i \in DOMAIN list |-> IF list[i] = x THEN <<>> ELSE <<list[i]>>]
<1>1. n \in Nat /\ DOMAIN list = 1..n OBVIOUS
<1>2. \A i \in 1..n : list[i] \in V /\ f[i] = IF list[i] = x THEN <<>> ELSE <<list[i]>> BY <1>1
<1>3. Without(list, x) = Joined(f, n) BY DEF Without
<1> HIDE DEF f, n
<1>4. \A i \in 1..n : f[i] \in Seq(V)
  <2> SUFFICES ASSUME NEW i \in 1..n PROVE f[i] \in Seq(V) OBVIOUS
  <2>1. list[i] \in V /\ (f[i] = <<>> \/ f[i] = <<list[i]>>) BY <1>2
  <2>2. <<>> \in Seq(V) /\ <<list[i]>> \in Seq(V) BY <2>1
  <2> QED BY <2>1, <2>2
<1>5. PICK upTo : Builds(upTo, f, n) BY <1>1, <1>4, JoinedBuilds
<1>6. /\ Joined(f, n) = upTo[n] /\ upTo[0] = <<>>
      /\ \A k \in 1..n : upTo[k] = upTo[k - 1] \o f[k]
  BY <1>5 DEF Builds
<1> DEFINE Right(k) == /\ upTo[k] \in Seq(V) /\ Once(upTo[k], v)
                       /\ HasItem(upTo[k], v) => \E i \in 1..k : list[i] = v
           T == {k \in 0..n : ~Right(k)}
<1>7. Right(0) BY <1>6 DEF Once, HasItem
<1>8. ASSUME NEW k \in 1..n, Right(k - 1) PROVE Right(k)
  <2> DEFINE a == upTo[k - 1]
  <2>1. /\ a \in Seq(V) /\ Once(a, v) /\ upTo[k] = a \o f[k]
        /\ HasItem(a, v) => \E i \in 1..(k - 1) : list[i] = v
    BY <1>6, <1>8
  <2>2. k \in Nat /\ k \in 1..k /\ k - 1 \in Nat /\ \A i \in 1..(k - 1) : i \in 1..k /\ i \in 1..n /\ i # k
    BY <1>1
  <2> HIDE DEF a
  <2>3. CASE list[k] = x
    <3>1. upTo[k] = a
      <4>1. f[k] = <<>> BY <1>2, <2>3
      <4> QED BY <2>1, <4>1
    <3> QED BY <2>1, <2>2, <3>1
  <2>4. CASE list[k] # x
    <3> DEFINE y == list[k]
    <3>1. y \in V /\ f[k] = <<y>> BY <1>2, <2>4
    <3>2. y = v => ~HasItem(a, v) BY <1>1, <2>1, <2>2 DEF Once
    <3> HIDE DEF y
    <3>3. upTo[k] = Append(a, y) BY <2>1, <3>1
    <3>4. Append(a, y) \in Seq(V) BY <2>1, <3>1
    <3>5. HasItem(Append(a, y), v) => HasItem(a, v) \/ y = v
      BY <2>1, <3>1, <3>2, OnceAppend
    <3>6. Once(Append(a, y), v) BY <2>1, <3>1, <3>2, OnceAppend
    <3>7. HasItem(upTo[k], v) => \E i \in 1..k : list[i] = v
      BY <2>1, <2>2, <3>3, <3>5 DEF y
    <3> QED BY <3>3, <3>4, <3>6, <3>7
  <2> QED BY <2>3, <2>4
<1> HIDE DEF Right
<1>9. T = {}
  <2>1. SUFFICES ASSUME T # {} PROVE FALSE OBVIOUS
  <2>2. PICK k \in T : \A j \in T : k <= j
    <3>1. T \subseteq Nat OBVIOUS
    <3> HIDE DEF T
    <3> QED BY <2>1, <3>1, LeastNumber
  <2>3. k \in 0..n /\ ~Right(k) BY <2>2
  <2>4. k # 0 BY <1>7, <2>3
  <2>5. k - 1 \in 0..n /\ ~(k <= k - 1) BY <1>1, <2>3, <2>4
  <2>6. Right(k - 1) BY <2>2, <2>5
  <2> QED BY <1>1, <1>8, <2>3, <2>4, <2>6
<1>10. Right(n) BY <1>1, <1>9
<1> QED BY <1>3, <1>6, <1>10 DEF Right

\* matches_template, given a template with a name in it, compares segment by segment.
LEMMA TemplateCovers ==
  ASSUME NEW p, p.segments \in Seq(Segment), IsConcrete(p.segments),
         NEW template \in String, IsValid(template), ~IsPattern(template), Names(template) # {}
  PROVE  MatchesTemplate(p, template) <=> Covers(Parse(template), p.segments)
<1> DEFINE c == Parse(template)
           s == p.segments
           L == Len(c)
           suits(i) == c[i] \in {s[i], Star} \cup Param
<1>1. c \in Seq(Segment) /\ c # <<>> /\ \A v : HasItem(c, v) <=> HasItem(template, v) /\ v # Empty
  BY TextParts, ValidText
<1>2. \A i \in DOMAIN c : c[i] \notin {Star, Multi}
  BY <1>1 DEF HasItem, IsPattern
<1>3. MatchesTemplate(p, template) <=>
        Len(s) = L /\ \A i \in DOMAIN c : c[i] \in Param \/ c[i] = s[i]
  BY DEF MatchesTemplate, FitsTemplate
<1>4. L \in Nat /\ L > 0 /\ DOMAIN c = 1..L BY <1>1
<1> HIDE DEF c, s, L
<1>5. Covers(c, s) <=>
        \/ Len(s) = L /\ \A i \in 1..L : suits(i)
        \/ c[L - 1 + 1] = Multi /\ Len(s) >= L - 1 /\ \A i \in 1..(L - 1) : suits(i)
  <2>1. L - 1 # L BY <1>4
  <2> QED BY <2>1 DEF Covers, L
<1>6. L - 1 + 1 = L /\ L \in DOMAIN c BY <1>4
<1>7. c[L - 1 + 1] # Multi BY <1>2, <1>6
<1>8. \A i \in 1..L : suits(i) <=> c[i] \in Param \/ c[i] = s[i]
  BY <1>2, <1>4
<1> HIDE DEF suits
<1>9. Covers(c, s) <=> Len(s) = L /\ \A i \in DOMAIN c : c[i] \in Param \/ c[i] = s[i]
  BY <1>4, <1>5, <1>7, <1>8
<1> QED BY <1>3, <1>9 DEF c, s, L

\* As many names as places for one: none comes twice.
LEMMA NamesApart ==
  ASSUME NEW template \in String,
         Cardinality({i \in DOMAIN template : template[i] \in Param})
           = Cardinality(Names(template))
  PROVE  \A name \in Param : Once(Parse(template), name)
<1> DEFINE places == {i \in DOMAIN template : template[i] \in Param}
           f == [i \in places |-> template[i]]
           V == Segment \cup {Empty}
<1>1. template \in Seq(V) /\ Len(template) \in Nat /\ DOMAIN template = 1..Len(template)
  BY DEF String
<1>2. IsFiniteSet(places)
  <2>1. IsFiniteSet(1..Len(template)) BY <1>1, FS_Interval
  <2>2. places \subseteq 1..Len(template) BY <1>1
  <2> QED BY <2>1, <2>2, FS_Subset
<1>3. f \in Surjection(places, Names(template)) BY DEF Surjection, Names
<1> HIDE DEF f, V
<1>4. f \in Injection(places, Names(template)) BY <1>2, <1>3, FS_SurjSameCardinalityImpliesInj
<1>5. \A i, j \in places : f[i] = f[j] => i = j BY <1>4 DEF Injection, IsInjective
<1>6. ASSUME NEW name \in Param PROVE Once(Parse(template), name)
  <2>1. Once(template, name) BY <1>5, <1>6 DEF Once, f
  <2> QED BY <1>1, <2>1, WithoutOnce DEF Parse
<1> QED BY <1>6

\* With the values taken from a path, from_template builds its text.
LEMMA FilledBack ==
  ASSUME NEW p, p.segments \in Seq(Segment), NEW template \in String,
         \A name \in Param : Once(Parse(template), name), FitsTemplate(p, template)
  PROVE  Filled(template, ExtractParams(p, template)) = p.segments
<1> DEFINE c == Parse(template)
           s == p.segments
           params == ExtractParams(p, template)
           values == [i \in DOMAIN c |-> IF c[i] \in Param THEN params[c[i]] ELSE <<c[i]>>]
<1>1. c \in Seq(Segment) BY TextParts
<1>2. Len(s) = Len(c) /\ \A i \in DOMAIN c : c[i] \in Param \/ c[i] = s[i] BY DEF FitsTemplate
<1>3. params = [name \in Names(c) |-> <<s[Last({i \in DOMAIN c : c[i] = name})]>>]
  BY DEF ExtractParams
<1>4. Filled(template, params) = Joined(values, Len(c)) BY DEF Filled
<1>5. \A name \in Param : Once(c, name) OBVIOUS
<1> HIDE DEF c, s, params
<1>6. DOMAIN c = 1..Len(c) /\ Len(c) \in Nat BY <1>1
<1>7. ASSUME NEW i \in 1..Len(c) PROVE values[i] = <<s[i]>>
  <2>1. values[i] = IF c[i] \in Param THEN params[c[i]] ELSE <<c[i]>> BY <1>6
  <2>2. CASE c[i] \in Param
    <3> DEFINE name == c[i]
               places == {j \in DOMAIN c : c[j] = name}
    <3>1. places = {i} BY <1>5, <1>6, <2>2 DEF Once
    <3>2. Last({i}) \in {i}
      <4>1. {i} \subseteq 1..Len(c) /\ {i} # {} OBVIOUS
      <4> QED BY <1>6, <4>1, LastParts
    <3>3. name \in Names(c) BY <1>6, <2>2 DEF Names
    <3>4. params[name] = <<s[Last(places)]>> BY <1>3, <3>3
    <3>5. Last(places) = i BY <3>1, <3>2
    <3> HIDE DEF values, places
    <3> QED BY <2>1, <2>2, <3>4, <3>5
  <2>3. CASE c[i] \notin Param
    <3> HIDE DEF values
    <3> QED BY <1>2, <1>6, <2>1, <2>3
  <2> QED BY <2>2, <2>3
<1> HIDE DEF values
<1>8. s \in Seq(Segment) /\ \A i \in 1..Len(s) : values[i] = <<s[i]>>
  BY <1>2, <1>7 DEF s
<1>9. Joined(values, Len(s)) = s BY <1>8, JoinedSingles
<1> QED BY <1>2, <1>4, <1>9 DEF s, params

LEMMA AgreesTemplates ==
  ASSUME Agrees(path)
  PROVE  TemplatesInvert
<1> DEFINE s == path.segments
<1>1. SUFFICES
        ASSUME NEW template \in Text, IsConcrete(s), IsValid(template), ~IsPattern(template),
               {i \in DOMAIN template : template[i] \in Param} # {},
               Cardinality({i \in DOMAIN template : template[i] \in Param})
                 = Cardinality(Names(template))
        PROVE  /\ MatchesTemplate(path, template) <=> Covers(Parse(template), s)
               /\ FitsTemplate(path, template) =>
                    Equal(path, NewPath(Filled(template, ExtractParams(path, template))))
  BY DEF TemplatesInvert
<1>2. template \in String /\ s \in Seq(Segment) BY BuildingAssumption DEF Agrees, PathRecord
<1>3. Names(template) # {} BY <1>1 DEF Names
<1>4. MatchesTemplate(path, template) <=> Covers(Parse(template), s)
  BY <1>1, <1>2, <1>3, TemplateCovers
<1>5. ASSUME FitsTemplate(path, template)
      PROVE  Equal(path, NewPath(Filled(template, ExtractParams(path, template))))
  <2>1. \A name \in Param : Once(Parse(template), name) BY <1>1, <1>2, NamesApart
  <2>2. Filled(template, ExtractParams(path, template)) = s BY <1>2, <1>5, <2>1, FilledBack
  <2>3. NewPath(s).segments = s
    <3>1. Parse(s) = s BY <1>2, ParsedStays
    <3> HIDE DEF s
    <3> QED BY <3>1 DEF NewPath
  <2> QED BY <2>2, <2>3 DEF Equal
<1> QED BY <1>4, <1>5

\* TemplatesInvert: however a path was made, as long as it is plain, extract_params and
\* from_template undo each other on it for any template that names nothing twice.
THEOREM TemplatesUndone ==
  ASSUME MaxSegments <= Slots
  PROVE  BuildSpec => []TemplatesInvert
<1>1. BuildInit => Agrees(path) BY BuildInitAgrees
<1>2. Agrees(path) /\ [BuildNext]_path => Agrees(path)' BY BuildStepAgrees
<1>3. Agrees(path) => TemplatesInvert BY AgreesTemplates
<1> QED BY <1>1, <1>2, <1>3, PTL DEF BuildSpec

=============================================================================
