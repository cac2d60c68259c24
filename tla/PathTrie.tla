------------------------------ MODULE PathTrie ------------------------------
(***************************************************************************)
(* The trie that maps paths and path patterns to lists of values, as       *)
(* operators on a function from its nodes to what they hold.  A path is a  *)
(* sequence of segments; the network id, the same for all topics of one    *)
(* node, is left out, and so are the parameters of a match: its users      *)
(* take them from the path the handler was registered under.               *)
(***************************************************************************)
EXTENDS Naturals, Sequences

CONSTANTS
  Literal,      \* literal segments
  Param,        \* segments {name}
  Star, Multi,  \* the segments * and >
  Template      \* the one child for all {name} segments of a node

Segment == Literal \cup Param \cup {Star, Multi}

ASSUME SegmentAssumption ==
  /\ Literal \cap Param = {}
  /\ Star # Multi
  /\ {Star, Multi, Template} \cap (Literal \cup Param) = {}
  /\ Template \notin {Star, Multi}

IsPattern(path) == \E i \in DOMAIN path : path[i] \in {Star, Multi}

\* No {name} in a path with wildcards: the search for such a path does not come to
\* the node of the path itself.
Unmixed(path) == IsPattern(path) => \A i \in DOMAIN path : path[i] \notin Param

\* The node a path leads to.  What a node holds for > is kept in a field of its
\* own, here the node's child Multi; it is always a path's last segment.
NodeOf(path) ==
  [i \in DOMAIN path |-> IF path[i] \in Param THEN Template ELSE path[i]]

At(trie, node) == IF node \in DOMAIN trie THEN trie[node] ELSE <<>>

Child(trie, node, key) == At(trie, Append(node, key))

\* Add a value to those of a path.
SetValue(trie, path, value) ==
  [trie EXCEPT ![NodeOf(path)] = Append(@, value)]

\* remove_handler with the predicate that is always true.
RemoveHandlers(trie, path) == [trie EXCEPT ![NodeOf(path)] = <<>>]

-----------------------------------------------------------------------------
FindExact_NoMulti(trie, topic) ==
  LET find[node \in Seq(Segment \cup {Template})] ==
        IF Len(node) >= Len(topic) THEN At(trie, node)
        ELSE find[Append(node, topic[Len(node) + 1])]
               \o find[Append(node, Star)]
               \o find[Append(node, Template)]
  IN  find[<<>>]

FindExact_TemplateFirst(trie, topic) ==
  LET find[node \in Seq(Segment \cup {Template})] ==
        IF Len(node) >= Len(topic) THEN At(trie, node)
        ELSE Child(trie, node, Multi)
               \o find[Append(node, Template)]
               \o find[Append(node, topic[Len(node) + 1])]
               \o find[Append(node, Star)]
  IN  find[<<>>]

\* find_matches_internal: at each node the values for >, then what lies below
\* the literal child, the wildcard child and the template child.  A {name}
\* segment of the topic is taken as a literal and finds no literal child.
FindExact(trie, topic) ==
  LET find[node \in Seq(Segment \cup {Template})] ==
        IF Len(node) >= Len(topic) THEN At(trie, node)
        ELSE Child(trie, node, Multi)
               \o find[Append(node, topic[Len(node) + 1])]
               \o find[Append(node, Star)]
               \o find[Append(node, Template)]
  IN  find[<<>>]

Depth(trie) ==
  CHOOSE d \in {Len(n) : n \in DOMAIN trie} \cup {0} : \A n \in DOMAIN trie : Len(n) <= d

\* f[1] \o f[2] \o ... \o f[n]
Joined(f, n) ==
  LET upTo[i \in 0..n] == IF i = 0 THEN <<>> ELSE upTo[i - 1] \o f[i]
  IN  upTo[n]

\* The items of a list that are not x, in their order.
Without(list, x) ==
  Joined([i \in DOMAIN list |-> IF list[i] = x THEN <<>> ELSE <<list[i]>>], Len(list))

\* f[literals[1]] \o f[literals[2]] \o ...
Concat(f, literals) == Joined([i \in DOMAIN literals |-> f[literals[i]]], Len(literals))

\* collect_all_handlers: the node and everything below it.  The literal children
\* are keys of a HashMap; literals is the order it yields them in.
CollectAll(trie, from, literals) ==
  LET all[node \in Seq(Segment \cup {Template})] ==
        IF Len(node) >= Depth(trie) THEN At(trie, node)
        ELSE At(trie, node) \o Child(trie, node, Multi)
               \o Concat([l \in Literal |-> all[Append(node, l)]], literals)
               \o all[Append(node, Star)]
               \o all[Append(node, Template)]
  IN  all[from]

FindWildcard_NoTemplate(trie, pattern, literals) ==
  LET find[node \in Seq(Segment \cup {Template})] ==
        LET segment == pattern[Len(node) + 1]
        IN  IF Len(node) >= Len(pattern) THEN At(trie, node)
            ELSE IF segment = Multi THEN CollectAll(trie, node, literals)
            ELSE IF segment = Star
            THEN Concat([l \in Literal |-> find[Append(node, l)]], literals)
                   \o find[Append(node, Star)]
            ELSE find[Append(node, segment)]
  IN  find[<<>>]

\* collect_wildcard_matches: what is registered where the pattern leads.  A {name}
\* segment of the pattern finds no child, not even the template child.
FindWildcard(trie, pattern, literals) ==
  LET find[node \in Seq(Segment \cup {Template})] ==
        LET segment == pattern[Len(node) + 1]
        IN  IF Len(node) >= Len(pattern) THEN At(trie, node)
            ELSE IF segment = Multi THEN CollectAll(trie, node, literals)
            ELSE IF segment = Star
            THEN Concat([l \in Literal |-> find[Append(node, l)]], literals)
                   \o find[Append(node, Star)]
                   \o find[Append(node, Template)]
            ELSE find[Append(node, segment)]
  IN  find[<<>>]

FindMatches(trie, path, literals) ==
  IF IsPattern(path) THEN FindWildcard(trie, path, literals)
  ELSE FindExact(trie, path)

=============================================================================
