----------------------------- MODULE TopicPath -----------------------------
(***************************************************************************)
(* A TopicPath and what can be made of it.  It keeps what it was parsed    *)
(* from, its segments, and things computed from them: two flags, the       *)
(* action path, the components of its hash, and a bitmap with two bits for *)
(* the type of each segment.  Each constructor fills these in its own way. *)
(*                                                                         *)
(* A string is a sequence of segments with Empty for what is between two   *)
(* slashes.  The network id, the same all over one node, is left out.      *)
(* The names ending in _<word> are wrong variants of the operator that     *)
(* follows them; nothing uses them.                                        *)
(***************************************************************************)
EXTENDS PathTrie, FiniteSets

CONSTANTS
  Empty,
  Slots   \* segments the bitmap has bits for: 32

ASSUME TopicPathAssumption ==
  /\ Empty \notin Segment
  /\ Slots \in Nat \ {0}

String == Seq(Segment \cup {Empty})

SegmentType == {"literal", "template", "single_wildcard", "multi_wildcard"}

TypeOf(segment) ==
  CASE segment = Star -> "single_wildcard"
    [] segment = Multi -> "multi_wildcard"
    [] segment \in Param -> "template"
    [] OTHER -> "literal"

\* The shift by twice the index: it wraps, where overflow checks do not stop it.
SetType(bitmap, index, segment) == [bitmap EXCEPT ![index % Slots] = TypeOf(segment)]

GetType(bitmap, index) == bitmap[index % Slots]

Last(places) == CHOOSE i \in places : \A j \in places : j <= i

\* Set for one segment after the other, the last one stays.
BitmapOf(segments) ==
  [slot \in 0..(Slots - 1) |->
     LET set == {i \in DOMAIN segments : (i - 1) % Slots = slot}
     IN  IF set = {} THEN "literal" ELSE TypeOf(segments[Last(set)])]

Parse(text) == Without(text, Empty)

IsValid(text) ==
  LET segments == Parse(text)
  IN  /\ segments # <<>>
      /\ \A i \in DOMAIN segments : segments[i] = Multi => i = Len(segments)

HasTemplates(segments) == \E i \in DOMAIN segments : segments[i] \in Param

IsConcrete(segments) == \A i \in DOMAIN segments : segments[i] \in Literal

NewPath(text) ==
  LET segments == Parse(text)
  IN  [text |-> text,
       segments |-> segments,
       is_pattern |-> IsPattern(segments),
       has_templates |-> HasTemplates(segments),
       service_path |-> segments[1],
       cached_action_path |-> IF Len(segments) <= 1 THEN <<>> ELSE segments,
       hash_components |-> segments,
       segment_type_bitmap |-> BitmapOf(segments)]

\* A name is not parsed; callers have names that are literals.
NewService(name) ==
  [text |-> <<name>>,
   segments |-> <<name>>,
   is_pattern |-> FALSE,
   has_templates |-> FALSE,
   service_path |-> name,
   cached_action_path |-> <<>>,
   hash_components |-> <<>>,
   segment_type_bitmap |-> BitmapOf(<<>>)]

-----------------------------------------------------------------------------
\* child and parent.

ChildOf(p, segment) ==
  LET joined == (IF p.cached_action_path = <<>> THEN <<p.service_path>>
                 ELSE p.cached_action_path) \o <<segment>>
  IN  [text |-> joined,
       segments |-> Append(p.segments, segment),
       is_pattern |-> p.is_pattern \/ segment \in {Star, Multi},
       has_templates |-> p.has_templates \/ segment \in Param,
       service_path |-> p.service_path,
       cached_action_path |-> joined,
       hash_components |-> <<>>,
       segment_type_bitmap |->
         SetType(p.segment_type_bitmap, Len(p.segments), segment)]

ParentOf_KeepsFlags(p) ==
  LET segments == SubSeq(p.segments, 1, Len(p.segments) - 1)
  IN  [p EXCEPT !.text = segments, !.segments = segments,
                !.cached_action_path = segments, !.hash_components = <<>>,
                !.segment_type_bitmap[(Len(p.segments) - 1) % Slots] = "literal"]

\* The flags are read from the bitmap once the last type is cleared.
ParentOf(p) ==
  LET segments == SubSeq(p.segments, 1, Len(p.segments) - 1)
      bitmap == [p.segment_type_bitmap EXCEPT ![Len(segments) % Slots] = "literal"]
      types == {GetType(bitmap, i - 1) : i \in DOMAIN segments}
  IN  [p EXCEPT !.text = segments,
                !.segments = segments,
                !.is_pattern = types \cap {"single_wildcard", "multi_wildcard"} # {},
                !.has_templates = "template" \in types,
                !.cached_action_path = segments,
                !.hash_components = <<>>,
                !.segment_type_bitmap = bitmap]

-----------------------------------------------------------------------------
\* Templates.  What is given for the names is a function on some of them.

Names(template) == {template[i] : i \in DOMAIN template} \cap Param

\* The text that from_template builds and has new parse once more.
Filled(template, params) ==
  LET segments == Parse(template)
      values == [i \in DOMAIN segments |->
                   IF segments[i] \in Param THEN params[segments[i]]
                   ELSE <<segments[i]>>]
  IN  Joined(values, Len(segments))

FitsTemplate_Prefix(p, template) ==
  LET segments == Parse(template)
  IN  /\ Len(p.segments) >= Len(segments)
      /\ \A i \in DOMAIN segments : segments[i] \in Param \/ segments[i] = p.segments[i]

FitsTemplate(p, template) ==
  LET segments == Parse(template)
  IN  /\ Len(p.segments) = Len(segments)
      /\ \A i \in DOMAIN segments : segments[i] \in Param \/ segments[i] = p.segments[i]

\* Of a name that comes twice the last value stays.
ExtractParams(p, template) ==
  LET segments == Parse(template)
  IN  [name \in Names(segments) |->
         <<p.segments[Last({i \in DOMAIN segments : segments[i] = name})]>>]

Contains(text, part) ==
  \E i \in 0..(Len(text) - Len(part)) : SubSeq(text, i + 1, i + Len(part)) = part

\* The fast path looks for a substring, here one of whole segments.
MatchesTemplate(p, template) ==
  IF ~p.has_templates /\ Names(template) = {} THEN Contains(p.text, template)
  ELSE FitsTemplate(p, template)

-----------------------------------------------------------------------------
\* matches, and PartialEq and Hash.

HasMultiWildcard(p) ==
  \E i \in DOMAIN p.segments : GetType(p.segment_type_bitmap, i - 1) = "multi_wildcard"

\* A > before the last segment makes the code panic, if it comes to look at it.
SegmentsMatch(pattern, topic) ==
  LET covers(p, t) == p = Star \/ (p = t /\ p \in Literal) \/ (p \in Param /\ t \in Literal)
      before == 1..(Len(pattern) - 1)
  IN  IF pattern[Len(pattern)] = Multi
      THEN /\ Len(topic) >= Len(pattern) - 1
           /\ \A i \in before : covers(pattern[i], topic[i])
      ELSE /\ Len(pattern) = Len(topic)
           /\ \A i \in DOMAIN pattern :
                pattern[i] = topic[i] \/ covers(pattern[i], topic[i])

Matches_EqualLength(p, t) ==
  p.text = t.text \/ (Len(p.segments) = Len(t.segments) /\ SegmentsMatch(p.segments, t.segments))

Matches(p, t) ==
  \/ p.text = t.text
  \/ /\ Len(p.segments) = Len(t.segments) \/ HasMultiWildcard(p)
     /\ p.is_pattern \/ t.is_pattern \/ p.has_templates \/ t.has_templates
     /\ p.has_templates => t.has_templates
     /\ IF t.has_templates /\ ~p.has_templates
        THEN MatchesTemplate(t, p.cached_action_path)
        ELSE SegmentsMatch(p.segments, t.segments)

Equal(p, q) == p.text = q.text \/ p.segments = q.segments

\* Written to the hasher: one component for each segment, or what those are made of.
Hash(p) ==
  IF p.hash_components # <<>> THEN <<"components", p.hash_components>>
  ELSE <<"segments", p.segments>>

=============================================================================
