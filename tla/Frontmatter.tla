---------------------------- MODULE Frontmatter -----------------------------
(***************************************************************************)
(* The relations and topics that `jiku docs new` puts into the YAML block  *)
(* at the top of a document (internal/frontmatter, Add).  A document is    *)
(* what its top says: whether there is a block and how it is written, and  *)
(* the keys that Add looks at, with their values in order.                 *)
(***************************************************************************)
EXTENDS Naturals, FiniteSets, SequencesExt

CONSTANTS
    RelationKeys,      \* under `jiku`: "clients", "projects"
    Listed,            \* bound: lists that documents have
    Added              \* bound: lists that are added

ASSUME FrontmatterAssumption ==
    /\ RelationKeys \subseteq {"clients", "projects"}
    /\ \A list \in Listed \cup Added : list \in Seq(Nat)

VARIABLES text, original, adding, came
frontVars == <<text, original, adding, came>>

Keys == RelationKeys \cup {"topics"}

\* A value that is no list, or no value.
Absent == [is |-> "absent", vals |-> <<>>]
Other == [is |-> "other", vals |-> <<>>]
ListOf(vals) == [is |-> "list", vals |-> vals]

NoKeys == [k \in Keys |-> Absent]
\* A block is a mapping written in lines from the margin ("block"), in braces, or indented.
Mappings == {"block", "braces", "indented"}

\* mapping: none for no block, an unfinished one, an empty one, and one that does not parse.
Parsed(t) == t.front \in Mappings

AppendsAll(list, vals) == list \o vals
\* The values that are missing, once each, after those that are there.
Missing(list, vals) ==
    LET have[n \in 0..Len(vals)] ==
            IF n = 0 THEN list
            ELSE IF vals[n] \in ToSet(have[n - 1]) THEN have[n - 1] ELSE Append(have[n - 1], vals[n])
    IN have[Len(vals)]

Relates(a) == \E k \in RelationKeys : a[k] # <<>>

\* block, intList: the additions as lines.
Block(a) ==
    [front |-> "block",
     jiku |-> IF Relates(a) THEN "mapping" ELSE "absent",
     keys |-> [k \in Keys |-> IF a[k] = <<>> THEN Absent ELSE ListOf(Missing(<<>>, a[k]))]]

\* Put after what is written: what is in braces, or indented, does not go on with lines from the
\* margin, and no longer parses.
Appended(t, a) == [Block(a) EXCEPT !.front = IF t.front = "block" THEN "block" ELSE "broken"]

\* Both relation keys are gone through when either is given, the topics on their own.
Touched(a) == (IF Relates(a) THEN RelationKeys ELSE {}) \cup {k \in {"topics"} : a[k] # <<>>}

\* addToSeq, of each; the mapping is written out again.
AddToSeq(t, a) ==
    [front |-> "block",
     jiku |-> IF Relates(a) THEN "mapping" ELSE t.jiku,
     keys |-> [k \in Keys |-> IF k \in Touched(a) THEN ListOf(Missing(t.keys[k].vals, a[k])) ELSE t.keys[k]]]

Stops(t, a) ==
    \/ Relates(a) /\ t.jiku = "other"
    \/ \E k \in Touched(a) : t.keys[k].is = "other"

NothingMissing(t, a) == \A k \in Touched(a) : Missing(t.keys[k].vals, a[k]) = t.keys[k].vals

Nothing(a) == \A k \in Keys : a[k] = <<>>
Blockless == {"none", "unfinished", "empty"}
\* Add looks for its keys.
Keyed(t) == t.jiku # "absent" \/ t.keys["topics"].is # "absent"

\* What Add does with what it found.
Leaves(how) == came' = how /\ UNCHANGED text
Changes(t) == came' = "changed" /\ text' = t

NothingToAdd(a) == Nothing(a) /\ Leaves("unchanged")
NewBlock(a) == ~Nothing(a) /\ text.front \in Blockless /\ Changes(Block(a))
NotAMapping(a) == ~Nothing(a) /\ text.front = "broken" /\ Leaves("refused")
AppendLines(a) == ~Nothing(a) /\ Parsed(text) /\ ~Keyed(text) /\ Changes(Appended(text, a))
AddInPlace(a) ==
    /\ ~Nothing(a) /\ Parsed(text) /\ Keyed(text)
    /\ \/ Stops(text, a) /\ Leaves("refused")
       \/ ~Stops(text, a) /\ NothingMissing(text, a) /\ Leaves("unchanged")
       \/ ~Stops(text, a) /\ ~NothingMissing(text, a) /\ Changes(AddToSeq(text, a))

\* Add, once and again.
Add(a) ==
    /\ came \in {"none", "changed"} /\ (came = "changed" => a = adding)
    /\ NothingToAdd(a) \/ NewBlock(a) \/ NotAMapping(a) \/ AppendLines(a) \/ AddInPlace(a)
    /\ adding' = a
    /\ UNCHANGED original

Texts ==
    LET values == {Absent, Other} \cup {ListOf(l) : l \in Listed} IN
    [front : {"none", "unfinished", "empty", "broken"}, jiku : {"absent"}, keys : {NoKeys}]
        \cup {t \in [front : Mappings, jiku : {"absent", "other", "mapping"}, keys : [Keys -> values]] :
                t.jiku # "mapping" => \A k \in RelationKeys : t.keys[k] = Absent}

FrontInit ==
    /\ text \in Texts /\ original = text
    /\ adding = [k \in Keys |-> <<>>] /\ came = "none"

FrontNext == \E a \in [Keys -> Added] : Add(a)

-----------------------------------------------------------------------------
(* Properties.                                                             *)

Kept(old, new, vals) ==
    /\ IsPrefix(old, new)
    /\ LET more == SubSeq(new, Len(old) + 1, Len(new)) IN
        /\ ToSet(more) = ToSet(vals) \ ToSet(old)
        /\ Len(more) = Cardinality(ToSet(more))

\* Add keeps every value that was there in its place and adds each missing one once, however it
\* writes them, and a second Add finds nothing to do (frontmatter.go:92-97, "adding only the values
\* not already there"). What is in braces or indented, with neither key, is left broken instead.
AddKeeps ==
    /\ came = "refused" /\ text.front # "broken" => text = original
    /\ came \in {"changed", "unchanged"} /\ text.front # "broken" =>
        \A k \in Keys : Kept(original.keys[k].vals, text.keys[k].vals, adding[k])
    /\ text.front = "broken" =>
        \/ original.front = "broken"
        \/ original.front \in {"braces", "indented"} /\ original.jiku = "absent"
              /\ original.keys["topics"].is = "absent"
=============================================================================
