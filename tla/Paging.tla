------------------------------- MODULE Paging -------------------------------
(***************************************************************************)
(* The walk over every page of a list (iter.go) while others insert and    *)
(* delete rows, and the commands that print what it walked.  A page is cut *)
(* by the limit or by the reply's byte budget, so it may be short, or      *)
(* empty and not the last.                                                 *)
(***************************************************************************)
EXTENDS Integers, FiniteSetsExt, SequencesExt

CONSTANTS
    Rows,          \* the rows' sort keys, numbers from 1
    PageLimit,     \* List.Limit
    Acts, Empties  \* bounds: inserts, deletes and failures; pages that are empty and not the last

ASSUME PagingAssumption == Rows \subseteq Nat \ {0} /\ PageLimit \in Nat \ {0} /\ Acts \in Nat /\ Empties \in Nat

VARIABLES
    walker,                    \* who walks: a command that prints rows as they are, one that
                               \* decodes them, or one that asks for a page only
    shown,                     \* what was printed: nothing yet, an error, whole, part
    table,                     \* the rows on the server
    items, pos, cursor,        \* the page being walked, and where the next begins
    started, done, failedWalk,
    yielded,
    stayed,                    \* history: rows that were there all along
    pagingActs, empties

iterator == <<items, pos, cursor, started, done, failedWalk, yielded>>
pagingVars == <<walker, shown, table, iterator, stayed, pagingActs, empties>>

NoCursor == -1
Ended == done \/ failedWalk
Walking == walker # "page" /\ UNCHANGED <<walker, shown>>

\* Iterator.Next: the next item of the page.
Yield ==
    /\ ~Ended /\ pos < Len(items)
    /\ pos' = pos + 1
    /\ yielded' = Append(yielded, items[pos + 1])
    /\ Walking /\ UNCHANGED <<table, items, cursor, started, done, failedWalk, stayed, pagingActs, empties>>

\* The absence of a cursor is the only end.
WalkEnds ==
    /\ ~Ended /\ pos = Len(items) /\ started /\ cursor = NoCursor
    /\ done' = TRUE
    /\ Walking /\ UNCHANGED <<table, items, pos, cursor, started, failedWalk, yielded, stayed, pagingActs, empties>>

EndsWhenEmpty(page, next) == page = <<>>
\* fetch: an empty page with a cursor is not the end.
LastPage(page, next) == page = <<>> /\ next = NoCursor

From == IF started THEN cursor ELSE 0

\* The first of the rows that follow, in their order.
IsPage(page, rest) ==
    /\ \A i, j \in DOMAIN page : i < j => page[i] < page[j]
    /\ \A r \in rest \ ToSet(page), i \in DOMAIN page : page[i] < r

\* The server: what follows the cursor, up to where the page is cut, and a cursor there
\* unless nothing follows.
Fetch ==
    LET rest == {r \in table : r > From} IN
    /\ ~Ended /\ pos = Len(items) /\ (started => cursor # NoCursor /\ walker # "page")
    /\ \E page \in SeqOf(rest, PageLimit) :
        LET next == IF rest \subseteq ToSet(page) THEN NoCursor ELSE IF page = <<>> THEN From ELSE Last(page) IN
        /\ IsPage(page, rest) /\ (page = <<>> /\ rest # {} => empties < Empties)
        /\ empties' = IF page = <<>> /\ rest # {} THEN empties + 1 ELSE empties
        /\ items' = page /\ cursor' = next
        /\ done' = LastPage(page, next)
    /\ pos' = 0 /\ started' = TRUE
    /\ stayed' = IF started THEN stayed ELSE table
    /\ UNCHANGED <<walker, shown, table, failedWalk, yielded, pagingActs>>

Acting == pagingActs < Acts /\ pagingActs' = pagingActs + 1

FetchFails ==
    /\ ~Ended /\ pos = Len(items) /\ Acting
    /\ failedWalk' = TRUE
    /\ UNCHANGED <<walker, shown, table, items, pos, cursor, started, done, yielded, stayed, empties>>

-----------------------------------------------------------------------------
(* What is printed of it.                                                  *)

Prints(what) ==
    shown' = what /\ UNCHANGED <<walker, table, iterator, stayed, pagingActs, empties>>

PrintsAnyway == walker = "prints" /\ shown = "nothing" /\ Ended /\ Prints("whole")
OrTheError == Prints(IF failedWalk THEN "error" ELSE "whole")

\* queryAll and emitAll: every row, or the error.
QueryAll == walker = "prints" /\ shown = "nothing" /\ Ended /\ OrTheError

\* ListVersions: a row that cannot be decoded ends the walk.
ListVersions ==
    /\ walker = "decodes" /\ ~Ended /\ pos > 0
    /\ failedWalk' = TRUE
    /\ UNCHANGED <<walker, shown, table, items, pos, cursor, started, done, yielded, stayed, pagingActs,
                   empties>>

\* `docs history`: a count that cannot be had costs a line after the list.
HistoryCmd == walker = "decodes" /\ shown = "nothing" /\ Ended /\ OrTheError

\* List: one page, and on stderr whether there are more.
OnePage ==
    /\ walker = "page" /\ shown = "nothing" /\ (started \/ failedWalk)
    /\ Prints(IF failedWalk THEN "error" ELSE IF cursor = NoCursor THEN "whole" ELSE "part")

InsertRow(r) ==
    /\ r \notin table /\ ~Ended /\ Acting
    /\ table' = table \cup {r}
    /\ UNCHANGED <<walker, shown, iterator, stayed, empties>>

DeleteRow(r) ==
    /\ r \in table /\ ~Ended /\ Acting
    /\ table' = table \ {r} /\ stayed' = stayed \ {r}
    /\ UNCHANGED <<walker, shown, iterator, empties>>

PagingInit ==
    /\ walker \in {"prints", "decodes", "page"} /\ shown = "nothing"
    /\ table \in SUBSET Rows
    /\ items = <<>> /\ pos = 0 /\ cursor = NoCursor /\ started = FALSE /\ done = FALSE
    /\ failedWalk = FALSE /\ yielded = <<>> /\ stayed = table /\ pagingActs = 0 /\ empties = 0

PagingNext ==
    \/ Yield \/ WalkEnds \/ Fetch \/ FetchFails \/ QueryAll \/ ListVersions
    \/ HistoryCmd \/ OnePage
    \/ \E r \in Rows : InsertRow(r) \/ DeleteRow(r)

-----------------------------------------------------------------------------
\* No row is skipped or repeated (iter.go:20-22): what a command prints as the whole list holds
\* every row that was there all along, and nothing twice, whatever came and went while it walked.
SweepComplete ==
    /\ \A i, j \in DOMAIN yielded : i < j => yielded[i] < yielded[j]
    /\ shown = "whole" => stayed \subseteq ToSet(yielded \o SubSeq(items, pos + 1, Len(items)))
=============================================================================
