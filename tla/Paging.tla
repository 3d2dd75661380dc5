------------------------------- MODULE Paging -------------------------------
(* The lists and their pages (sort.rs; query and points of the emission,     *)
(* emitter, entity and notification repositories; their routes).  A page and *)
(* its total are two statements, a listing is many pages, and rows are       *)
(* inserted, attributed, moved and deleted between them.                     *)
EXTENDS Integers, FiniteSets

CONSTANTS
    Ids,         \* row ids: their order is none of the program's making
    Rows,        \* rows that are inserted: the column a list is sorted by, owner and place
    Null,        \* no value in that column
    Limits,      \* page sizes a client asks for
    MaxLimit,    \* MAX_LIMIT
    MaxPoints,   \* MAX_POINTS
    Directions,  \* subset of {"asc", "desc"}
    MaxChanges   \* bound: changes of the table by others

PagingAssumption ==
    /\ Ids \subseteq Nat /\ IsFiniteSet(Ids)
    /\ \A row \in Rows : DOMAIN row = {"key", "owned", "located"} /\ row.key \in Nat \cup {Null}
    /\ Limits \subseteq Int /\ MaxLimit \in Nat \ {0} /\ MaxPoints \in Nat \ {0}

VARIABLES
    table,    \* function: the rows there are, with sort key, owner and location
    changes,  \* how often others have changed it
    reader    \* a client: what it asked for, and what it has been shown

vars == <<table, changes, reader>>

\* The WHERE clause: all rows, those no emitter owns (unassigned), those with a place.
Matching(filter) ==
    {id \in DOMAIN table : CASE filter = "all" -> TRUE
                             [] filter = "unassigned" -> ~table[id].owned
                             [] filter = "located" -> table[id].located}

Idle == [at |-> "idle"]

Init ==
    /\ \E spare \in Ids : table \in [Ids \ {spare} -> Rows]
    /\ changes = 0 /\ reader = Idle

-----------------------------------------------------------------------------
(* The order of a list.                                                      *)

KeyBefore(dir, a, b) ==
    \/ a # Null /\ b = Null
    \/ a # Null /\ b # Null /\ IF dir = "asc" THEN a < b ELSE a > b

\* The rows that are certainly before another one.
Before(rows, dir, id) ==
    {r \in rows : \/ KeyBefore(dir, table[r].key, table[id].key)
                  \/ /\ table[r].key = table[id].key
                     /\ IF dir = "asc" THEN r < id ELSE r > id}

\* Mutant: no id decides between equal keys.
BeforeByKey(rows, dir, id) == {r \in rows : KeyBefore(dir, table[r].key, table[id].key)}

\* ORDER BY key dir NULLS LAST, id dir (resolve_order_by).
Ahead(rows, dir, id) == Before(rows, dir, id)

\* Every page Postgres may give: which of the rows it does not order come first is its choice.
Pages(rows, dir, limit, offset) ==
    LET Rank(id) == Cardinality(Ahead(rows, dir, id))
        Tied(id) == {r \in rows : Rank(r) = Rank(id)}
        First(id) == Rank(id)
        Last(id) == Rank(id) + Cardinality(Tied(id)) - 1
        sure == {id \in rows : offset <= First(id) /\ Last(id) < offset + limit}
        maybe == {id \in rows : First(id) < offset + limit /\ Last(id) >= offset}
        size == Cardinality({i \in 0..(Cardinality(rows) - 1) : offset <= i /\ i < offset + limit})
    IN  {page \in SUBSET maybe : sure \subseteq page /\ Cardinality(page) = size}

-----------------------------------------------------------------------------
(* A listing: the client asks for page after page until one is not full.      *)

Clamp(n) == IF n < 1 THEN 1 ELSE IF n > MaxLimit THEN MaxLimit ELSE n

\* The first request, with its COUNT.
Open ==
    /\ reader = Idle
    /\ \E filter \in {"all", "unassigned"}, dir \in Directions, asked \in Limits :
          reader' = [at |-> "select", filter |-> filter, dir |-> dir, limit |-> Clamp(asked),
                     offset |-> 0, total |-> Cardinality(Matching(filter)),
                     shown |-> {}, stayed |-> Matching(filter), left |-> FALSE, quiet |-> TRUE]
    /\ UNCHANGED <<table, changes>>

\* The SELECT of the page: a later statement.
Select ==
    /\ reader.at = "select"
    /\ \E page \in Pages(Matching(reader.filter), reader.dir, reader.limit, reader.offset) :
          reader' = [reader EXCEPT
                       !.at = IF Cardinality(page) < reader.limit THEN "listed" ELSE "next",
                       !.shown = @ \cup page]
    /\ UNCHANGED <<table, changes>>

\* The next page, with its COUNT.
Turn ==
    /\ reader.at = "next"
    /\ reader' = [reader EXCEPT !.at = "select", !.offset = @ + reader.limit,
                                !.total = Cardinality(Matching(reader.filter))]
    /\ UNCHANGED <<table, changes>>

-----------------------------------------------------------------------------
(* The heatmap.                                                              *)

Counted == Cardinality(Matching("located"))

\* EmissionRepo::points counts.
Count ==
    /\ reader = Idle
    /\ reader' = [at |-> "counted", filter |-> "located", total |-> Counted, quiet |-> TRUE]
    /\ UNCHANGED <<table, changes>>

\* It selects, and the route compares.
Fetch ==
    /\ reader.at = "counted"
    /\ LET there == Matching("located") IN
       \E page \in Pages(there, "desc", MaxPoints, 0) :
          reader' = [at |-> "mapped", quiet |-> reader.quiet, shown |-> page, there |-> there,
                     truncated |-> reader.total > Cardinality(page)]
    /\ UNCHANGED <<table, changes>>

\* The client has its answer.
Close == reader.at \in {"listed", "mapped"} /\ reader' = Idle /\ UNCHANGED <<table, changes>>

-----------------------------------------------------------------------------
(* The others.                                                               *)

\* What a change of the table means to a listing: some rows stay throughout, and where they are
\* in its order; some leave it, or sink in it, which brings those behind them forward.
Changed(new) ==
    LET Stays(id) == id \in DOMAIN new /\ (reader.filter = "all" \/ ~new[id].owned)
        Sinks(id) == Stays(id) /\ KeyBefore(reader.dir, table[id].key, new[id].key)
    IN  /\ changes < MaxChanges /\ changes' = changes + 1
        /\ table' = new
        /\ reader' = CASE reader.at \in {"select", "next"} ->
                           [reader EXCEPT
                              !.quiet = FALSE,
                              !.stayed = {id \in @ : Stays(id) /\ new[id].key = table[id].key},
                              !.left = @ \/ \E id \in Matching(reader.filter) : ~Stays(id) \/ Sinks(id)]
                       [] reader.at = "counted" -> [reader EXCEPT !.quiet = FALSE]
                       [] OTHER -> reader

\* An ingest, live or forwarded late: the key is anything.
Insert ==
    \E id \in Ids \ DOMAIN table, row \in Rows :
       Changed([i \in DOMAIN table \cup {id} |-> IF i = id THEN row ELSE table[i]])

\* bulk-delete of a selection, and clear.
Delete ==
    \E ids \in {{id} : id \in DOMAIN table} \cup {DOMAIN table} :
       ids # {} /\ Changed([i \in DOMAIN table \ ids |-> table[i]])

\* An emission gets, or loses, its emitter.
Attribute ==
    \E id \in DOMAIN table : Changed([table EXCEPT ![id].owned = ~@])

\* An emitter is heard, or edited: the column it is sorted by (last_seen_at, touch_seen) changes.
Touch ==
    \E id \in DOMAIN table, row \in Rows :
       row.key # table[id].key /\ Changed([table EXCEPT ![id].key = row.key])

Next ==
    \/ Open \/ Select \/ Turn \/ Close \/ Count \/ Fetch
    \/ Insert \/ Delete \/ Attribute \/ Touch

Spec == Init /\ [][Next]_vars

-----------------------------------------------------------------------------
\* A listing that ran to its end has shown every row that matched all along and kept its place
\* in the order, wherever new rows arrived among the others and others rose past it (emitters
\* that are heard, in the list of those heard last), so long as none left the list or sank in
\* it: the pages of one listing are one order ("a stable id tiebreaker is appended so paging is
\* deterministic", sort.rs).  A row that rises meanwhile may never be shown.  Where nothing
\* changed at all a listing has shown as many as it was told there are.
EveryRowIsShown ==
    reader.at = "listed" =>
        /\ ~reader.left => reader.stayed \subseteq reader.shown
        /\ reader.quiet => reader.total = Cardinality(reader.shown)

\* When nothing changed between its two statements, the map says that it left points out just
\* when it did, and shows as many as it may.
TruncatedIsTrue ==
    reader.at = "mapped" /\ reader.quiet =>
        /\ reader.truncated <=> reader.shown # reader.there
        /\ reader.truncated => Cardinality(reader.shown) = MaxPoints

=============================================================================
