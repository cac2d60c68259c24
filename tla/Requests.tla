------------------------------ MODULE Requests ------------------------------
(***************************************************************************)
(* How a request finds its handler on one node: local handlers first, with *)
(* the parameters named by the path they were registered under, then the   *)
(* handlers of remote services, one after the other in turn.  Each look-up *)
(* takes the lock of its trie for itself, and services register and remove *)
(* handlers at any time.                                                   *)
(*                                                                         *)
(* What happens in the handler is not looked at here (RequestResponse), a  *)
(* request is over when its handler is called or it is refused.            *)
(***************************************************************************)
EXTENDS TopicPath

CONSTANTS
  Local, Remote,  \* action handlers, of this node's services and of RemoteServices
  ServiceOf,      \* the service of a handler, a literal,
  ActionName,     \*   and the string it is registered with there
  Request,
  NoService,      \* who makes a request outside of any context
  Orders,         \* the orders a HashMap may yield literal segments in
  Wrap,           \* a usize holds 0..Wrap-1
  Situation       \* the situations an instance looks at

Handler == Local \cup Remote

\* Which handlers may be registered, where the counter may stand, which requests are
\* made, and of what.
Situations ==
  [registers : SUBSET Handler, removes : BOOLEAN, counted : SUBSET (0..(Wrap - 1)),
   requests : SUBSET Request, texts : SUBSET String]

\* A handler with an invalid path is refused before it gets anywhere (TopicPath::new);
\* an iteration over a HashMap comes to each key once.
ASSUME RequestsAssumption ==
  /\ Local \cap Remote = {} /\ IsFiniteSet(Handler)
  /\ ServiceOf \in [Handler -> Literal] /\ ActionName \in [Handler -> String]
  /\ \A h \in Handler : IsValid(<<ServiceOf[h]>> \o ActionName[h])
  /\ NoService \notin Literal
  /\ Orders \subseteq Seq(Literal)
  /\ \A order \in Orders, l \in Literal :
       \E i \in DOMAIN order : \A j \in DOMAIN order : order[j] = l <=> j = i
  /\ Wrap \in Nat \ {0}
  /\ Situation \subseteq Situations

VARIABLES
  situation,
  local_action_handlers,   \* trie of handlers with their registration paths
  remote_action_handlers,  \* trie of lists of handlers
  current_index,           \* of the RoundRobinLoadBalancer
  request                  \* where each request stands

vars == <<situation, local_action_handlers, remote_action_handlers, current_index, request>>

\* register_action and new_action_topic.
RegistrationPath == [h \in Handler |-> NewPath(<<ServiceOf[h]>> \o ActionName[h])]

PathOf(h) == RegistrationPath[h].segments

Node == {NodeOf(PathOf(h)) : h \in Handler}

SameNode(h, k) == NodeOf(PathOf(h)) = NodeOf(PathOf(k))

Elements(list) == {list[i] : i \in DOMAIN list}

\* A request that is under way keeps whether it may leave the node, and for the
\* properties the handlers that have covered its topic all the time.
Pending(step, t, only, kept) ==
  [step |-> step, topic |-> t, local_only |-> only, kept |-> kept]

IsPending(r) == request[r].step \in {"local", "remote", "selecting"}

Init ==
  /\ situation \in Situation
  /\ local_action_handlers = [n \in Node |-> <<>>]
  /\ remote_action_handlers = [n \in Node |-> <<>>]
  /\ current_index \in situation.counted
  /\ request = [r \in Request |-> [step |-> "idle"]]

-----------------------------------------------------------------------------
\* Registration.

\* Under its own path; lists of other paths may hold it, too.
IsRegistered(h) ==
  LET node == NodeOf(PathOf(h))
      lists == remote_action_handlers[node]
  IN  IF h \in Local THEN h \in Elements(local_action_handlers[node])
      ELSE h \in Elements(Joined(lists, Len(lists)))

\* The trie keeps the registration path with the handler; the handler has it here.
RegisterLocalActionHandler(h) ==
  /\ h \in Local \cap situation.registers /\ ~IsRegistered(h)
  /\ local_action_handlers' = SetValue(local_action_handlers, PathOf(h), h)
  /\ UNCHANGED <<situation, remote_action_handlers, current_index, request>>

\* The list that is added repeats the first match.
RegisterRemoteActionHandler(h) ==
  /\ h \in Remote \cap situation.registers /\ ~IsRegistered(h)
  /\ \E order \in Orders :
       LET matches == FindMatches(remote_action_handlers, PathOf(h), order)
           list == IF matches = <<>> THEN <<h>> ELSE Append(matches[1], h)
       IN  remote_action_handlers' = SetValue(remote_action_handlers, PathOf(h), list)
  /\ UNCHANGED <<situation, local_action_handlers, current_index, request>>

\* What is kept for > is out of the reach of remove_values.
RemoveValues_Below(trie, path) ==
  [n \in DOMAIN trie |->
     IF SubSeq(n, 1, Len(path) - 1) = SubSeq(path, 1, Len(path) - 1) THEN <<>> ELSE trie[n]]

RemoveValues(trie, path) ==
  IF path[Len(path)] = Multi THEN trie ELSE RemoveHandlers(trie, path)

RemoveRemoteActionHandler(h) ==
  /\ situation.removes
  /\ h \in Remote /\ IsRegistered(h)
  /\ remote_action_handlers' = RemoveValues(remote_action_handlers, PathOf(h))
  /\ request' = [r \in Request |->
       IF IsPending(r)
       THEN [request[r] EXCEPT !.kept = {k \in @ : k \in Local \/ ~SameNode(k, h)}]
       ELSE request[r]]
  /\ UNCHANGED <<situation, local_action_handlers, current_index>>

-----------------------------------------------------------------------------
\* A request in the context of a service, or outside of all contexts.

\* A string without a slash is an action of the service that asks.
CompletePath(service, text) ==
  IF service = NoService \/ Len(text) > 1 THEN text ELSE <<service>> \o text

Answers(h, t) == Len(PathOf(h)) <= Len(t) /\ SegmentsMatch(PathOf(h), t)

Covering(t) == {h \in Handler : IsRegistered(h) /\ Answers(h, t)}

Start(r, text, only) ==
  /\ r \in situation.requests
  /\ request[r].step = "idle"
  /\ request' = [request EXCEPT ![r] =
       IF IsValid(text)
       THEN Pending("local", Parse(text), only, Covering(Parse(text)))
       ELSE [step |-> "invalid"]]
  /\ UNCHANGED <<situation, local_action_handlers, remote_action_handlers, current_index>>

\* Node::request.
BeginRequest(r, service, text) == Start(r, CompletePath(service, text), FALSE)

\* Node::local_request, for the message of a peer.
BeginLocalRequest(r, text) == Start(r, text, TRUE)

LocalMatches(t, order) == FindMatches(local_action_handlers, t, order)

\* If the parameters cannot be extracted the handler runs without.
ParamsFor(t, h) ==
  LET template == RegistrationPath[h].cached_action_path
  IN  IF FitsTemplate([segments |-> t], template)
      THEN ExtractParams([segments |-> t], template)
      ELSE <<>>

RunLocal(r) ==
  /\ request[r].step = "local"
  /\ \E order \in Orders :
       LET t == request[r].topic
           matches == LocalMatches(t, order)
       IN  /\ matches # <<>>
           /\ request' = [request EXCEPT ![r] =
                [step |-> "ran_local", topic |-> t, kept |-> request[r].kept,
                 handler |-> matches[1], path_params |-> ParamsFor(t, matches[1])]]
  /\ UNCHANGED <<situation, local_action_handlers, remote_action_handlers, current_index>>

MissLocal(r) ==
  /\ request[r].step = "local"
  /\ \E order \in Orders : LocalMatches(request[r].topic, order) = <<>>
  /\ request' = [request EXCEPT ![r].step =
       IF request[r].local_only THEN "refused" ELSE "remote"]
  /\ UNCHANGED <<situation, local_action_handlers, remote_action_handlers, current_index>>

FindRemote_Unchecked(r) ==
  /\ request[r].step = "remote"
  /\ \E order \in Orders :
       LET matches == FindMatches(remote_action_handlers, request[r].topic, order)
       IN  request' = [request EXCEPT ![r] =
             [step |-> "selecting", topic |-> @.topic, kept |-> @.kept,
              handlers |-> Joined(matches, Len(matches))]]
  /\ UNCHANGED <<situation, local_action_handlers, remote_action_handlers, current_index>>

\* The list is a copy; the lock of the trie is free again.
FindRemote(r) ==
  /\ request[r].step = "remote"
  /\ \E order \in Orders :
       LET matches == FindMatches(remote_action_handlers, request[r].topic, order)
           list == Joined(matches, Len(matches))
       IN  request' = [request EXCEPT ![r] =
             IF list = <<>> THEN [@ EXCEPT !.step = "refused"]
             ELSE [step |-> "selecting", topic |-> @.topic, kept |-> @.kept,
                   handlers |-> list]]
  /\ UNCHANGED <<situation, local_action_handlers, remote_action_handlers, current_index>>

\* select_handler: where the next turn is in a list.
Index(handlers) == current_index % Len(handlers)

SelectHandler_NoStep(r) ==
  /\ request[r].step = "selecting"
  /\ LET index == Index(request[r].handlers)
     IN  request' = [request EXCEPT ![r] =
           [step |-> "ran_remote", topic |-> @.topic, kept |-> @.kept,
            index |-> index, among |-> Len(@.handlers),
            handler |-> @.handlers[index + 1]]]
  /\ UNCHANGED <<situation, local_action_handlers, remote_action_handlers, current_index>>

SelectHandler(r) ==
  /\ request[r].step = "selecting"
  /\ LET index == Index(request[r].handlers)
     IN  request' = [request EXCEPT ![r] =
           [step |-> "ran_remote", topic |-> @.topic, kept |-> @.kept,
            index |-> index, among |-> Len(@.handlers),
            handler |-> @.handlers[index + 1]]]
  /\ current_index' = (current_index + 1) % Wrap
  /\ UNCHANGED <<situation, local_action_handlers, remote_action_handlers>>

Next ==
  \/ \E h \in Handler :
       \/ RegisterLocalActionHandler(h)
       \/ RegisterRemoteActionHandler(h)
       \/ RemoveRemoteActionHandler(h)
  \/ \E r \in Request :
       \/ \E text \in situation.texts :
            \/ BeginLocalRequest(r, text)
            \/ \E service \in {ServiceOf[h] : h \in Local} \cup {NoService} :
                 BeginRequest(r, service, text)
       \/ RunLocal(r) \/ MissLocal(r) \/ FindRemote(r) \/ SelectHandler(r)

Spec == Init /\ [][Next]_vars

-----------------------------------------------------------------------------
(***************************************************************************)
(* Properties.  The names ending in _<word> above are wrong variants of    *)
(* the operator that follows them; nothing here uses them.                 *)
(***************************************************************************)

RequestState ==
  LET topics == {Parse(CompletePath(s, text)) : s \in Literal \cup {NoService},
                   text \in situation.texts}
  IN  [step : {"idle", "invalid"}]
        \cup [step : {"local", "remote", "refused"}, topic : topics,
              local_only : BOOLEAN, kept : SUBSET Handler]
        \cup [step : {"selecting"}, topic : topics, kept : SUBSET Handler,
              handlers : Seq(Remote) \ {<<>>}]
        \cup [step : {"ran_local"}, topic : topics, kept : SUBSET Handler,
              handler : Local, path_params : UNION {[N -> {<<s>> : s \in Segment}] : N \in SUBSET Param}]
        \cup [step : {"ran_remote"}, topic : topics, kept : SUBSET Handler,
              handler : Remote, among : Nat \ {0}, index : 0..(Wrap - 1)]

TypeOK ==
  /\ situation \in Situation
  /\ local_action_handlers \in [Node -> Seq(Local)]
  /\ remote_action_handlers \in [Node -> Seq(Seq(Remote))]
  /\ current_index \in 0..(Wrap - 1)
  /\ request \in [Request -> RequestState]

Ran(r) == request[r].step \in {"ran_local", "ran_remote"}

\* path_params are the named segments of the handler's own path, and no others; of a
\* name that comes twice it is one of the two.
ParamsNamed(q) ==
  LET registered == PathOf(q.handler)
  IN  /\ DOMAIN q.path_params = Names(registered)
      /\ \A name \in Names(registered) : \E i \in DOMAIN registered :
           registered[i] = name /\ q.path_params[name] = <<q.topic[i]>>

HasWildcard(h) == IsPattern(PathOf(h))

\* A remote handler of a wildcard path takes along the list of a longer one.
RemotePlain == \A k \in Remote \cap situation.registers : ~HasWildcard(k)

\* Whatever registers and goes meanwhile, a handler runs only for a topic its path
\* covers, a local one with just the parameters that path names, though handlers
\* with other names share its node of the trie; and one registered for the very
\* topic goes before one with a {name}.
ReachesHandler ==
  \A r \in Request : Ran(r) /\ IsConcrete(request[r].topic) =>
    LET q == request[r]
    IN  /\ q.handler \in Local \/ RemotePlain =>
             Answers(q.handler, q.topic)
        /\ q.handler \in Local /\ ~HasWildcard(q.handler) =>
             /\ ParamsNamed(q)
             /\ (\E k \in q.kept \cap Local : PathOf(k) = q.topic) =>
                  PathOf(q.handler) = q.topic

\* No request is refused for which there was a handler all the time, and none leaves
\* the node for which there was a local one; between the two look-ups, too.
FoundIfKept ==
  \A r \in Request :
    LET q == request[r]
        local == q.kept \cap Local
    IN  request[r].step \notin {"idle", "invalid"} /\ IsConcrete(q.topic) =>
          /\ q.step = "refused" => (IF q.local_only THEN local ELSE q.kept) = {}
          /\ q.step \in {"remote", "selecting", "ran_remote"} => local = {}

\* The actions a node tells its peers: service/* finds those of one segment, each
\* once, with {name} and without, in whatever order the children come.
ActionsMetadata(service, order) ==
  FindMatches(local_action_handlers, <<service, Star>>, order)

Registered(service) ==
  {h \in Local : ServiceOf[h] = service /\ IsRegistered(h)}

ActionsListed ==
  \A service \in Literal, order \in Orders :
    LET listed == ActionsMetadata(service, order)
    IN  /\ Elements(listed) =
             {h \in Registered(service) : Len(PathOf(h)) = 2 /\ PathOf(h)[2] # Multi}
        /\ Len(listed) = Cardinality(Elements(listed))

Picked(n, index, topics) ==
  Cardinality({r \in Request :
    /\ request[r].step = "ran_remote" /\ request[r].topic \in topics
    /\ request[r].among = n /\ request[r].index = index})

EvenAmong(n, topics) ==
  \A i, j \in 0..(n - 1) : Picked(n, i, topics) <= Picked(n, j, topics) + 1

Lengths == {request[r].among : r \in {k \in Request : request[k].step = "ran_remote"}}

Topics == {request[r].topic : r \in {k \in Request : request[k].step = "ran_remote"}}

\* However requests overlap, they are spread evenly over the places of their lists, as
\* long as all lists are of one length and the counter wraps at a multiple of it.
SpreadsEvenly ==
  \A n \in Lengths : Lengths = {n} /\ Wrap % n = 0 => EvenAmong(n, Topics)

\* "distributes requests evenly across all available handlers": those of one action.
SpreadsByTopic ==
  \A n \in Lengths : Lengths = {n} /\ Wrap % n = 0 =>
    \A t \in Topics : EvenAmong(n, {t})

\* "Retrieve metadata for all actions registered under a service path".
EveryActionListed ==
  \A service \in Literal, order \in Orders :
    Registered(service) \subseteq Elements(ActionsMetadata(service, order))

\* "First checks for an exact match with the path".
ExactFirst ==
  \A r \in Request : request[r].step = "ran_local" =>
    ((\E k \in request[r].kept \cap Local : PathOf(k) = request[r].topic) =>
       PathOf(request[r].handler) = request[r].topic)

\* "Retrieve all handlers for a specific action path": and of no other, also where the
\* path of a remote handler has a wildcard.
RemoteMeant ==
  \A r \in Request : request[r].step = "ran_remote" => Answers(request[r].handler, request[r].topic)

\* "When a match is found, extracts parameter values and stores them".
ParamsExtracted ==
  \A r \in Request : request[r].step = "ran_local" => ParamsNamed(request[r])

=============================================================================
