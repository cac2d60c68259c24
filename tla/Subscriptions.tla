--------------------------- MODULE Subscriptions ---------------------------
(***************************************************************************)
(* Local event subscriptions: register_local_event_subscription and        *)
(* unsubscribe_local of the ServiceRegistry, with the four maps they       *)
(* update one after the other, and the publication of an event, which      *)
(* takes the subscribers under a read lock and then calls one after the    *)
(* other.  Each map has a lock of its own; an action is what happens under *)
(* one of them, except that the entries of a new id, which nobody knows    *)
(* before subscribe returns it, are made together with the step before.    *)
(***************************************************************************)
EXTENDS PathTrie, FiniteSets, Functions

CONSTANTS
  Id,          \* subscription ids (new UUIDs)
  Attempt,     \* how often an id may be unsubscribed
  Publisher,   \* publications, each of one event
  Pattern,     \* the paths subscribed to
  Topic,       \* the paths published to
  Orders,      \* the orders in which a HashMap may yield the literals
  Situation,   \* the sets of patterns an instance looks at
  NoTopic

ASSUME ConstantsAssumption ==
  /\ Pattern \subseteq Seq(Segment) /\ <<>> \notin Pattern
  /\ Pattern # {} /\ IsFiniteSet(Pattern)
  /\ \A p \in Pattern : \A i \in DOMAIN p : p[i] = Multi => i = Len(p)
  /\ Topic \subseteq Seq(Literal)
  /\ \A p \in Pattern : p[1] \in Literal
  /\ Situation \subseteq SUBSET Pattern
  /\ Orders \subseteq Seq(Literal)
  /\ NoTopic \notin Pattern

Node == {NodeOf(p) : p \in Pattern}

\* The service of a topic is its first segment.
Service == {p[1] : p \in Pattern}

VARIABLES
  local_event_subscriptions,    \* a trie of lists of ids
  subscription_id_to_topic_path,
  local_events_by_service,      \* for each service a list of metadata (paths)
  subscription_id_to_service_topic_path,   \* the ids in this map
  sub,          \* the call of subscribe for each id: where it stands, the path
  unsub,        \* the calls of unsubscribe for each id
  pub,          \* each publication: where it stands, its topic, whom to call yet
  calls,        \* history: how often each callback was called
  patterns      \* which set of patterns this behaviour is about

vars == <<local_event_subscriptions, subscription_id_to_topic_path,
          local_events_by_service, subscription_id_to_service_topic_path,
          sub, unsub, pub, calls, patterns>>

maps == <<local_event_subscriptions, subscription_id_to_topic_path,
          local_events_by_service, subscription_id_to_service_topic_path>>

TypeOK ==
  \* A trie node holds a Vec of values; here it is at most one, a list of ids.
  /\ local_event_subscriptions \in [Node -> Seq(Seq(Id))]
  /\ (\A p \in Pattern : Unmixed(p)) =>
       \A n \in Node : Len(local_event_subscriptions[n]) <= 1
  /\ subscription_id_to_topic_path \in [Id -> Pattern \cup {NoTopic}]
  /\ local_events_by_service \in [Service -> Seq(Pattern)]
  /\ subscription_id_to_service_topic_path \subseteq Id
  /\ sub \in [Id -> [pc : {"none", "written", "done"}, topic : Pattern]]
  /\ unsub \in [Id \X Attempt -> [pc : {"none", "found", "done", "failed"},
                                  topic : Pattern]]
  /\ pub \in [Publisher -> [pc : {"none", "calling", "done"}, todo : Seq(Id)]]
  /\ calls \in [Id -> Nat]
  /\ patterns \in Situation

AnyPattern == CHOOSE p \in Pattern : TRUE

Init ==
  /\ local_event_subscriptions = [n \in Node |-> <<>>]
  /\ subscription_id_to_topic_path = [i \in Id |-> NoTopic]
  /\ local_events_by_service = [s \in Service |-> <<>>]
  /\ subscription_id_to_service_topic_path = {}
  /\ sub = [i \in Id |-> [pc |-> "none", topic |-> AnyPattern]]
  /\ unsub = [a \in Id \X Attempt |-> [pc |-> "none", topic |-> AnyPattern]]
  /\ pub = [u \in Publisher |-> [pc |-> "none", todo |-> <<>>]]
  /\ calls = [i \in Id |-> 0]
  /\ patterns \in Situation

-----------------------------------------------------------------------------
Replace_Keeps(trie, path, list) == SetValue(trie, path, list)

Replace(trie, path, list) == SetValue(RemoveHandlers(trie, path), path, list)

\* The list of the first match, whichever node holds it, and the new id after it
\* become the list of the path's own node.
Register(trie, path, i, literals) ==
  LET matches == FindMatches(trie, path, literals)
  IN  IF matches = <<>> THEN SetValue(trie, path, <<i>>)
      ELSE Replace(trie, path, Append(matches[1], i))

Subscribe(i, p) ==
  /\ sub[i].pc = "none"
  /\ p \in patterns
  /\ \E literals \in Orders :
       local_event_subscriptions' =
         Register(local_event_subscriptions, p, i, literals)
  /\ subscription_id_to_topic_path' = [subscription_id_to_topic_path EXCEPT ![i] = p]
  /\ sub' = [sub EXCEPT ![i] = [pc |-> "written", topic |-> p]]
  /\ UNCHANGED <<local_events_by_service, subscription_id_to_service_topic_path,
                 unsub, pub, calls, patterns>>

ListEvent_Once(i) ==
  /\ sub[i].pc = "written"
  /\ local_events_by_service' =
       [local_events_by_service EXCEPT ![sub[i].topic[1]] = <<sub[i].topic>>]
  /\ subscription_id_to_service_topic_path' =
       subscription_id_to_service_topic_path \cup {i}
  /\ sub' = [sub EXCEPT ![i].pc = "done"]
  /\ UNCHANGED <<local_event_subscriptions, subscription_id_to_topic_path,
                 unsub, pub, calls, patterns>>

\* Node::subscribe always gives metadata.  No call takes the id out of the second
\* map again.
ListEvent(i) ==
  /\ sub[i].pc = "written"
  /\ local_events_by_service' =
       [local_events_by_service EXCEPT ![sub[i].topic[1]] = Append(@, sub[i].topic)]
  /\ subscription_id_to_service_topic_path' =
       subscription_id_to_service_topic_path \cup {i}
  /\ sub' = [sub EXCEPT ![i].pc = "done"]
  /\ UNCHANGED <<local_event_subscriptions, subscription_id_to_topic_path,
                 unsub, pub, calls, patterns>>

\* local_events_by_service is a trie, too, with a list at the node of each service.
EventsMetadata(path, literals) ==
  LET trie == [node \in {<<s>> : s \in Service} |-> <<local_events_by_service[node[1]]>>]
      found == FindMatches(trie, path, literals)
  IN  Concat(found, [i \in DOMAIN found |-> i])

-----------------------------------------------------------------------------
\* The caller has the id from subscribe.  The lock of the id map is released
\* before the trie's is taken.
FindTopic(i, a) ==
  /\ sub[i].pc = "done"
  /\ unsub[<<i, a>>].pc = "none"
  /\ unsub' = [unsub EXCEPT ![<<i, a>>] =
       IF subscription_id_to_topic_path[i] = NoTopic
       THEN [@ EXCEPT !.pc = "failed"]
       ELSE [pc |-> "found", topic |-> subscription_id_to_topic_path[i]]]
  /\ UNCHANGED <<maps, sub, pub, calls, patterns>>

RemoveSubscription_First(i, a) ==
  LET path == unsub[<<i, a>>].topic
      held == At(local_event_subscriptions, NodeOf(path))
  IN
  /\ unsub[<<i, a>>].pc = "found"
  /\ held # <<>>
  /\ local_event_subscriptions' =
       IF Len(held[1]) = 1 THEN RemoveHandlers(local_event_subscriptions, path)
       ELSE Replace(local_event_subscriptions, path, Tail(held[1]))
  /\ subscription_id_to_topic_path' =
       [subscription_id_to_topic_path EXCEPT ![i] = NoTopic]
  /\ local_events_by_service' =
       [local_events_by_service EXCEPT ![path[1]] = Without(@, path)]
  /\ unsub' = [unsub EXCEPT ![<<i, a>>].pc = "done"]
  /\ UNCHANGED <<subscription_id_to_service_topic_path, sub, pub, calls, patterns>>

\* All under the write lock of the trie: the path's own list becomes that of the
\* first match without the id, and the path's metadata goes, whoever else has a
\* subscription of that path.
RemoveSubscription(i, a) ==
  LET path == unsub[<<i, a>>].topic
  IN
  /\ unsub[<<i, a>>].pc = "found"
  /\ \E literals \in Orders :
       LET matches == FindMatches(local_event_subscriptions, path, literals)
           rest == Without(matches[1], i)
       IN
       /\ matches # <<>>
       /\ local_event_subscriptions' =
            IF rest = <<>> THEN RemoveHandlers(local_event_subscriptions, path)
            ELSE Replace(local_event_subscriptions, path, rest)
  /\ IF local_event_subscriptions[NodeOf(path)] # <<>>
     THEN /\ unsub' = [unsub EXCEPT ![<<i, a>>].pc = "done"]
          /\ subscription_id_to_topic_path' =
               [subscription_id_to_topic_path EXCEPT ![i] = NoTopic]
          /\ local_events_by_service' =
               IF i \in subscription_id_to_service_topic_path
               THEN [local_events_by_service EXCEPT ![path[1]] = Without(@, path)]
               ELSE local_events_by_service
     ELSE /\ unsub' = [unsub EXCEPT ![<<i, a>>].pc = "failed"]
          /\ UNCHANGED <<subscription_id_to_topic_path, local_events_by_service>>
  /\ UNCHANGED <<subscription_id_to_service_topic_path, sub, pub, calls, patterns>>

\* "No subscriptions found for topic path".
FailToRemove(i, a) ==
  /\ unsub[<<i, a>>].pc = "found"
  /\ \E literals \in Orders :
       FindMatches(local_event_subscriptions, unsub[<<i, a>>].topic, literals) = <<>>
  /\ unsub' = [unsub EXCEPT ![<<i, a>>].pc = "failed"]
  /\ UNCHANGED <<maps, sub, pub, calls, patterns>>

-----------------------------------------------------------------------------
\* get_local_event_subscribers: the lists of all matches, one after the other.
Flatten(lists) == Joined(lists, Len(lists))

Subscribers(t) == Flatten(FindExact(local_event_subscriptions, t))

\* publish of this node, or an event of another one.
Publish(u, t) ==
  /\ pub[u].pc = "none"
  /\ pub' = [pub EXCEPT ![u] = [pc |-> "calling", todo |-> Subscribers(t)]]
  /\ UNCHANGED <<maps, sub, unsub, calls, patterns>>

CallBack_Retry(u) ==
  /\ pub[u].todo # <<>>
  /\ calls' = [calls EXCEPT ![Head(pub[u].todo)] = @ + 1]
  /\ pub' = [pub EXCEPT ![u].todo = Append(Tail(@), Head(@))]
  /\ UNCHANGED <<maps, sub, unsub, patterns>>

\* An error of the callback is logged and the next one is called.
CallBack(u) ==
  /\ pub[u].todo # <<>>
  /\ calls' = [calls EXCEPT ![Head(pub[u].todo)] = @ + 1]
  /\ pub' = [pub EXCEPT ![u].todo = Tail(@)]
  /\ UNCHANGED <<maps, sub, unsub, patterns>>

Return(u) ==
  /\ pub[u].pc = "calling"
  /\ pub[u].todo = <<>>
  /\ pub' = [pub EXCEPT ![u].pc = "done"]
  /\ UNCHANGED <<maps, sub, unsub, calls, patterns>>

Next ==
  \/ \E i \in Id : ListEvent(i) \/ \E p \in Pattern : Subscribe(i, p)
  \/ \E i \in Id, a \in Attempt :
       FindTopic(i, a) \/ RemoveSubscription(i, a) \/ FailToRemove(i, a)
  \/ \E u \in Publisher : CallBack(u) \/ Return(u)
                          \/ \E t \in Topic : Publish(u, t)

Spec == Init /\ [][Next]_vars

-----------------------------------------------------------------------------
(***************************************************************************)
(* Properties.                                                             *)
(***************************************************************************)

\* The meaning of a pattern, as the docs have it: * and {name} stand for one
\* segment, > for one or more.
Covers(p, t) ==
  LET fits(i) == p[i] = t[i] \/ p[i] \in Param \cup {Star, Template}
  IN  IF p[Len(p)] = Multi
      THEN Len(t) >= Len(p) /\ \A i \in 1..(Len(p) - 1) : fits(i)
      ELSE Len(t) = Len(p) /\ \A i \in DOMAIN p : fits(i)

\* The search for a path comes upon a node.
Meets(p, n) ==
  LET fits(i) == p[i] = n[i] \/ (p[i] = Star /\ n[i] # Multi)
  IN  IF ~IsPattern(p) THEN Covers(n, p)
      ELSE IF p[Len(p)] = Multi
      THEN Len(n) >= Len(p) - 1 /\ \A i \in 1..(Len(p) - 1) : fits(i)
      ELSE Len(n) = Len(p) /\ \A i \in DOMAIN p : fits(i)

\* To subscribe to one of the patterns, or to unsubscribe, does not come upon the
\* list of another one; a topic may well fall under both.
Separate ==
  /\ \A p \in patterns : Unmixed(p)
  /\ \A p, q \in patterns : p # q => ~Meets(p, NodeOf(q))

Gone(i) == \E a \in Attempt : unsub[<<i, a>>].pc \in {"done", "failed"}

InForce(i) ==
  sub[i].pc = "done" /\ \A a \in Attempt : unsub[<<i, a>>].pc \in {"none", "found"}

Count(i, list) == Cardinality({k \in DOMAIN list : list[k] = i})

\* The search of the trie is right: for each topic it yields all that is kept
\* under the patterns that cover it, each list once, and nothing else, however the
\* patterns overlap.
TrieFindsCovering ==
  \A t \in Topic :
    LET found == FindExact(local_event_subscriptions, t)
        kept == UNION {{n} \X DOMAIN local_event_subscriptions[n]
                         : n \in {m \in Node : Covers(m, t)}}
    IN  \E place \in Bijection(DOMAIN found, kept) :
          \A k \in DOMAIN found :
            found[k] = local_event_subscriptions[place[k][1]][place[k][2]]

\* Between the return of subscribe and the effect of unsubscribe an event of a
\* covered topic finds the subscription, and finds it once; after unsubscribe has
\* returned no event finds it.
SubscribersExact ==
  Separate =>
    \A t \in Topic :
      LET found == Subscribers(t)
      IN  \A i \in Id :
            /\ InForce(i) /\ Covers(sub[i].topic, t) => Count(i, found) = 1
            /\ Gone(i) => Count(i, found) = 0

\* "Find all local subscribers for a specific event topic": it is found at least
\* once, whatever patterns are subscribed to.
EverySubscriberFound ==
  \A t \in Topic, i \in Id :
    InForce(i) /\ Covers(sub[i].topic, t) => Count(i, Subscribers(t)) > 0

\* The metadata kept for each service: every subscription in force is there,
\* unless another one of the same path was cancelled, and whatever is there
\* stands for a subscription that is or is being made.
EventsListed ==
  Separate =>
    /\ \A i \in Id : InForce(i) =>
         \/ Count(sub[i].topic, EventsMetadata(<<sub[i].topic[1]>>, <<>>)) > 0
         \/ \E j \in Id \ {i} : Gone(j) /\ sub[j].topic = sub[i].topic
    /\ \A s \in Service, p \in Pattern :
         Count(p, EventsMetadata(<<s>>, <<>>)) > 0 =>
           \E i \in Id : sub[i].topic = p /\ sub[i].pc = "done" /\ ~Gone(i)

\* "Retrieve metadata for all events registered under a service path": those that a
\* NodeInfo is made with.  The lists are kept under <<service>>, the search is for
\* service/* and finds what is below it.
EventsAnnounced ==
  \A s \in Service, literals \in Orders :
    EventsMetadata(<<s, Star>>, literals) = local_events_by_service[s]

Live ==
  {<<i, sub[i].topic>> : i \in {j \in Id : sub[j].pc # "none" /\ ~Gone(j)}}

Promise == INSTANCE PubSub WITH
  live <- Live,
  due <- [u \in Publisher |-> {pub[u].todo[k] : k \in DOMAIN pub[u].todo}]

\* Publish and subscribe keep the promise of PubSub (Promise!Spec, for the
\* behaviours whose patterns are separate).
ImplementsPubSub ==
  (Separate => Promise!Init) /\ [][Separate => Promise!Next]_(Promise!vars)

=============================================================================
