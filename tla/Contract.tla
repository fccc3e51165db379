------------------------------ MODULE Contract ------------------------------
(***************************************************************************)
(* A list query typed at the command line: its filter expressions become a *)
(* wire filter (filter.go), which is checked against the contract the      *)
(* server publishes (describe.go) before it goes out (cmd/jiku/query.go,   *)
(* and docs.go for a module).                                              *)
(*                                                                         *)
(* A resource keeps its whitelists per variant; a variant maps each name   *)
(* it can filter by to the values it allows, {} for any value.             *)
(***************************************************************************)
EXTENDS Naturals, FiniteSets, SequencesExt

CONSTANTS
    Variants,      \* [variant |-> [name |-> allowed values]]
    IntegerNames,  \* the names whose column is an integer
    Numerals,      \* the values that read as one
    Typed,         \* what may be typed: records [name, op, vals]
    Entities,      \* what --entity-type may be, "" for nothing
    MaxTyped       \* bound: expressions on one command line

ASSUME ContractAssumption == MaxTyped \in Nat /\ \A e \in Typed : e.vals # {}

VARIABLES
    checked, resource,  \* is there a contract to check against, and what it allows
    typed,              \* history: the expressions read
    out, ranges,        \* ParseFilter's two maps: [name |-> conditions]
    verdict             \* fetching, unknown, reading, filter, malformed, refused or sent

queryVars == <<checked, resource, typed, out, ranges, verdict>>

-----------------------------------------------------------------------------
(* The contract.                                                           *)

NoNames == [n \in {} |-> {}]

\* merge, over the variants in the order the map is walked: the last one's entry stays.
Merged(order) ==
    [n \in UNION {DOMAIN v : v \in ToSet(order)} |->
        LET has == {i \in DOMAIN order : n \in DOMAIN order[i]} IN
        order[CHOOSE i \in has : \A j \in has : j <= i][n]]

\* No name merges them all, in any order; an unknown one is left without names.
ForVariant(name) ==
    IF name = "" THEN {Merged(o) : o \in {[i \in DOMAIN p |-> Variants[p[i]]] : p \in SetToSeqs(DOMAIN Variants)}}
    ELSE IF name \in DOMAIN Variants THEN {Variants[name]} ELSE {NoNames}

\* enumCandidates: a bound and a containment are not compared with the enum.
Candidates(conditions) == UNION {c.vals : c \in {x \in conditions : x.op \in {"eq", "ne"}}}

Valid(r, filter) ==
    \A n \in DOMAIN filter : n \in DOMAIN r /\ (r[n] # {} => Candidates(filter[n]) \subseteq r[n])

-----------------------------------------------------------------------------
(* ParseFilter, one turn of its loop a step.                               *)

RangeOps == {"gte", "lte", "gt", "lt"}

\* splitExpr finds a name, an operator and a value; Coerce types it, if the name is known.
WellFormed(e) ==
    /\ e.op \in {"eq", "ne", "contains"} \cup RangeOps
    /\ e.op # "contains" /\ e.name \in DOMAIN resource \cap IntegerNames => e.vals \subseteq Numerals

Condition(e) == [op |-> e.op, vals |-> e.vals]
Of(map, n) == IF n \in DOMAIN map THEN map[n] ELSE {}
With(map, e) == [n \in DOMAIN map \cup {e.name} |-> Of(map, n) \cup IF n = e.name THEN {Condition(e)} ELSE {}]

Twice(e) ==
    IF e.op \in RangeOps THEN \E b \in Of(ranges, e.name) : b.op = e.op ELSE e.name \in DOMAIN out

ReadsExpr(e) ==
    /\ verdict = "reading" /\ Len(typed) < MaxTyped
    /\ typed' = Append(typed, e)
    /\ IF ~WellFormed(e) \/ Twice(e)
         THEN verdict' = "malformed" /\ UNCHANGED <<out, ranges>>
       ELSE /\ UNCHANGED verdict
            /\ IF e.op \in RangeOps THEN ranges' = With(ranges, e) /\ UNCHANGED out
               ELSE out' = With(out, e) /\ UNCHANGED ranges
    /\ UNCHANGED <<checked, resource>>

NoConflict == FALSE
\* The ranges join the filter, unless a name has an equality too.
Conflict == DOMAIN ranges \cap DOMAIN out # {}

AllRead ==
    /\ verdict = "reading"
    /\ IF Conflict THEN verdict' = "malformed" /\ UNCHANGED out
       ELSE /\ verdict' = "filter"
            /\ out' = [n \in DOMAIN out \cup DOMAIN ranges |->
                          IF n \in DOMAIN ranges THEN ranges[n] ELSE out[n]]
    /\ UNCHANGED <<checked, resource, typed, ranges>>

Checks ==
    /\ verdict = "filter"
    /\ verdict' = IF checked /\ ~Valid(resource, out) THEN "refused" ELSE "sent"
    /\ UNCHANGED <<checked, resource, typed, out, ranges>>

Starts(r) == resource' = r /\ verdict' = "reading"
Unchecked == checked' = FALSE /\ Starts(NoNames)

\* A resource that the contract does not have: core's is refused here, a module's is sent as it is.
UnknownResource(plane) ==
    IF plane = "core" THEN checked' = TRUE /\ verdict' = "unknown" /\ UNCHANGED resource ELSE Unchecked

\* Contract.Resource, and the variant that was named; a module's lists have none.  Without a
\* contract (--no-check, no flag that needs it, or it cannot be fetched) everything is a string,
\* unchecked.
FetchContract(plane, entity) ==
    /\ verdict = "fetching"
    /\ \/ Unchecked
       \/ UnknownResource(plane)
       \/ /\ checked' = TRUE
          /\ \E r \in ForVariant(IF plane = "docs" THEN "" ELSE entity) : Starts(r)
    /\ UNCHANGED <<typed, out, ranges>>

QueryInit ==
    /\ checked = FALSE /\ resource = NoNames /\ verdict = "fetching"
    /\ typed = <<>> /\ out = NoNames /\ ranges = NoNames

QueryNext ==
    \/ \E plane \in {"core", "docs"}, entity \in Entities : FetchContract(plane, entity)
    \/ \E e \in Typed : ReadsExpr(e)
    \/ AllRead \/ Checks

-----------------------------------------------------------------------------
(* Properties.                                                             *)

\* Two conditions on one name are two different bounds of a range.
Mergeable ==
    \A i, j \in DOMAIN typed :
        i # j /\ typed[i].name = typed[j].name
            => typed[i].op \in RangeOps /\ typed[j].op \in RangeOps /\ typed[i].op # typed[j].op

\* Every condition typed is in the filter and nothing else is, whatever the order; and a command
\* line is called malformed only if an expression is, or two of them cannot both apply ("two
\* conditions on one name would otherwise leave the caller believing both applied", filter.go:28).
FilterMeansIt ==
    /\ verdict \in {"filter", "refused", "sent"} =>
         /\ Mergeable /\ \A e \in ToSet(typed) : WellFormed(e)
         /\ out = [n \in {e.name : e \in ToSet(typed)} |->
                      {Condition(e) : e \in {x \in ToSet(typed) : x.name = n}}]
    /\ verdict = "malformed" => ~Mergeable \/ \E e \in ToSet(typed) : ~WellFormed(e)

\* External: the server knows the variant, from the filter.
ServerAccepts(filter) == \E v \in DOMAIN Variants : Valid(Variants[v], filter)

\* "It cannot refuse a query the server would have accepted" (describe.go:244).
NeverRefuses == verdict = "refused" => ~ServerAccepts(out)
=============================================================================
