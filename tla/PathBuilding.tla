--------------------------- MODULE PathBuilding ---------------------------
(***************************************************************************)
(* A TopicPath as it is made from a string, a service name or a template   *)
(* and turned into others by its methods, one after the other.             *)
(***************************************************************************)
EXTENDS TopicPath

CONSTANTS
  MaxSegments,  \* the longest path looked at
  Text,         \* the strings used
  Value         \* the strings given for a {name}

ASSUME BuildingAssumption ==
  /\ MaxSegments \in Nat \ {0}
  /\ Text \subseteq String /\ Value \subseteq Text

VARIABLE path

\* new, new_service and from_template.
BuildInit ==
  \/ \E text \in Text :
         IsValid(text) /\ Len(Parse(text)) <= MaxSegments /\ path = NewPath(text)
  \/ \E name \in Literal : path = NewService(name)
  \/ \E template \in Text : \E params \in [Names(template) -> Value] :
         /\ IsValid(Filled(template, params))
         /\ Len(Parse(Filled(template, params))) <= MaxSegments
         /\ path = NewPath(Filled(template, params))

ToActionTopic(action_name) ==
  /\ Len(path.segments) <= 1
  /\ LET text == <<path.service_path>> \o action_name
     IN  /\ IsValid(text) /\ Len(Parse(text)) <= MaxSegments
         /\ path' = NewPath(text)

ToChild(segment) ==
  /\ Len(path.segments) < MaxSegments
  /\ path' = ChildOf(path, segment)

ToParent ==
  /\ Len(path.segments) > 1
  /\ path' = ParentOf(path)

BuildNext ==
  \/ \E action_name \in Text : ToActionTopic(action_name)
  \/ \E segment \in Segment : ToChild(segment)
  \/ ToParent

BuildSpec == BuildInit /\ [][BuildNext]_path

-----------------------------------------------------------------------------
(***************************************************************************)
(* Properties.                                                             *)
(***************************************************************************)

\* However a path was made, what it keeps besides its segments is what new would
\* have computed from them, as far as anything reads it.
PartsAgree ==
  LET segments == path.segments
  IN  /\ segments \in Seq(Segment) /\ Len(segments) \in 1..MaxSegments
      /\ Parse(path.text) = segments
      /\ path.is_pattern = IsPattern(segments)
      /\ path.has_templates = HasTemplates(segments)
      /\ path.service_path = segments[1]
      /\ path.cached_action_path \in {<<>>, segments}
      /\ Len(segments) > 1 => path.cached_action_path = segments
      /\ path.hash_components \in {<<>>, segments}
      /\ \A i \in DOMAIN segments :
           GetType(path.segment_type_bitmap, i - 1) = TypeOf(segments[i])

\* What a pattern covers of concrete topics, with > for any number of segments.
Covers(pattern, topic) ==
  \E n \in {Len(pattern), Len(pattern) - 1} :
    /\ IF n = Len(pattern) THEN Len(topic) = n
       ELSE pattern[n + 1] = Multi /\ Len(topic) >= n
    /\ \A i \in 1..n : pattern[i] \in {topic[i], Star} \cup Param

\* A trie that holds the path alone finds it for the topic.
TrieFinds(segments, topic) ==
  FindExact([node \in {NodeOf(segments)} |-> <<segments>>], topic) # <<>>

\* matches with its fast paths and the search of the trie, two programs for one
\* thing, agree on every concrete topic, whatever flags and bitmap the pattern was
\* built with, but for this: matches takes > for no segment, too, no template for
\* anything concrete, and plain paths as equal only if their slashes are.
MatchesMeaning ==
  \A text \in Text :
    LET topic == NewPath(text)
        covered == Covers(path.segments, topic.segments)
        isLonger == Len(path.segments) > Len(topic.segments)
    IN  IsValid(path.segments) /\ IsValid(text) /\ IsConcrete(topic.segments) =>
          /\ TrieFinds(path.segments, topic.segments) <=> covered /\ ~isLonger
          /\ Matches(path, topic) <=>
               /\ covered /\ ~path.has_templates
               /\ path.is_pattern \/ path.text = topic.text

\* extract_params and from_template undo each other, and matches_template says when:
\* for a concrete path and a template that names no parameter twice.
TemplatesInvert ==
  \A template \in Text :
    LET names == {i \in DOMAIN template : template[i] \in Param}
    IN  /\ IsConcrete(path.segments) /\ IsValid(template) /\ ~IsPattern(template)
        /\ names # {} /\ Cardinality(names) = Cardinality(Names(template))
        => /\ MatchesTemplate(path, template) <=> Covers(Parse(template), path.segments)
           /\ FitsTemplate(path, template) =>
                Equal(path, NewPath(Filled(template, ExtractParams(path, template))))

\* "Must be the last segment in a pattern": > is nowhere else, however a path was made.
MultiIsLast == IsValid(path.segments)

\* "Implement Eq to confirm TopicPath can be used as HashMap keys": paths that are
\* equal hash alike.
EqualHashesEqual ==
  \A text \in Text :
    IsValid(text) /\ Equal(path, NewPath(text)) => Hash(path) = Hash(NewPath(text))

\* "matches one or more segments to the end": never none.
MultiNeedsSegment ==
  \A text \in Text :
    LET topic == NewPath(text)
    IN  IsValid(text) /\ IsConcrete(topic.segments) /\ Matches(path, topic) =>
          Len(topic.segments) >= Len(path.segments)

\* "But "services/math" does match "services/{service_path}"".
ConcreteMatchesTemplate ==
  \A text \in Text :
    LET topic == NewPath(text)
    IN  /\ IsValid(text) /\ IsConcrete(topic.segments)
        /\ path.has_templates /\ ~path.is_pattern
        /\ Covers(path.segments, topic.segments)
        => Matches(topic, path)

=============================================================================
