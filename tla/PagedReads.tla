----------------------------- MODULE PagedReads -----------------------------
(***************************************************************************)
(* Reads that go page by page while the collection grows: the events of a  *)
(* stream (getStreamHistory() and replayEvents() of src/events.ts), the    *)
(* streams of an account (src/factory.ts and list() of src/streams.ts) and *)
(* the indexer's collections (fetchAll() and fetchAllAuto()).              *)
(*                                                                         *)
(* An item is its position in the collection, which only grows.  The one   *)
(* who reads asks for the next page until told that there is none.         *)
(***************************************************************************)
EXTENDS Integers, Sequences, FiniteSets, SequencesExt, FiniteSetsExt, Selections

CONSTANTS
    MaxItems,           \* bound: the collection
    WalkLimit,          \* items of a page
    ListCap,            \* MAX_LIST_LIMIT
    WalkPages           \* maxPages

ASSUME WalkAssumption == WalkLimit \in Nat \ {0} /\ ListCap \in Nat \ {0} /\ WalkPages \in Nat

\* "both" lists the streams an account sent or another received, "sender" those
\* it sent.
Walks == {"history", "replay", "sender", "both", "auto", "all"}

Traits == {"sent", "received", "both", "other"}

VARIABLES
    walk,               \* which reader
    items,              \* the collection: what the reader may ask of an item
    cursors,            \* the node answers with a cursor
    walkedTo,           \* position the next page starts after
    horizon,            \* size of the collection when the walk began
    read,               \* items handed to the caller
    walkPages,
    walkEnd             \* "more", "done", "failed"

walkVars == <<walk, items, cursors, walkedTo, horizon, read, walkPages, walkEnd>>

Wanted(i) ==
    CASE walk \in {"history", "sender"} -> items[i] \in {"sent", "both"}
      [] walk = "both" -> items[i] \in {"sent", "received", "both"}
      [] OTHER -> TRUE

WalkInit ==
    /\ walk \in Walks
    /\ items \in UNION {[1 .. n -> Traits] : n \in 0 .. MaxItems - 1}
    /\ cursors \in BOOLEAN
    /\ walkedTo = 0
    /\ horizon = Len(items)
    /\ read = <<>>
    /\ walkPages = 0
    /\ walkEnd = "more"

\* Streams are created and events emitted while somebody reads.
ItemAdded ==
    /\ Len(items) < MaxItems
    /\ \E t \in Traits : items' = Append(items, t)
    /\ UNCHANGED <<walk, cursors, walkedTo, horizon, read, walkPages, walkEnd>>

\* The next items of the whole collection, and the positions of n of them.
NodePage(from, limit) == SubSeq(items, from + 1, Min({Len(items), from + limit}))
Came(n) == walkedTo + 1 .. walkedTo + n

Page(n, handed, more) ==
    /\ walkPages' = walkPages + 1
    /\ walkedTo' = walkedTo + n
    /\ read' = read \o handed
    /\ walkEnd' = IF more THEN "more" ELSE "done"
    /\ UNCHANGED <<walk, items, cursors, horizon>>

\* A mistake for the runs to notice: the cursor is withheld when the filter
\* leaves less than a page.
HistoryByEntries ==
    /\ walk = "history" /\ walkEnd = "more"
    /\ LET n == Len(NodePage(walkedTo, WalkLimit))
           entries == Ascending({i \in Came(n) : Wanted(i)})
       IN  Page(n, entries, Len(entries) >= WalkLimit)

\* getStreamHistory(): a page of raw events, filtered; the cursor, or else the
\* paging token of the last event, only after a full page.
HistoryPage ==
    /\ walk = "history" /\ walkEnd = "more"
    /\ LET n == Len(NodePage(walkedTo, WalkLimit))
       IN  Page(n, Ascending({i \in Came(n) : Wanted(i)}), n >= WalkLimit)

\* replayEvents(): what came up to toLedger, once each; it goes on after a full
\* page of a node with cursors.
ReplayPage ==
    /\ walk = "replay" /\ walkEnd = "more" /\ walkPages < WalkPages
    /\ LET n == Len(NodePage(walkedTo, WalkLimit))
           pastRange == walkedTo + n > horizon
           due == {i \in Came(n) : i <= horizon /\ i \notin ToSet(read)}
       IN  Page(n, Ascending(due), ~pastRange /\ cursors /\ n >= WalkLimit)

\* The factory's index of an account, in the order of creation.
Index(traits) == Ascending({i \in DOMAIN items : items[i] \in traits})
OffsetPage(index, offset, limit) == SubSeq(index, offset + 1, Min({Len(index), offset + limit}))
ClampListLimit(n) == Min({n, ListCap})

\* streamsBySender(): hasMore after a full page.
SenderPage ==
    /\ walk = "sender" /\ walkEnd = "more"
    /\ LET ids == OffsetPage(Index({"sent", "both"}), walkedTo, ClampListLimit(WalkLimit))
       IN  Page(Len(ids), ids, Len(ids) = ClampListLimit(WalkLimit))

\* list() of a sender and a recipient: both indices from their beginning up to
\* one item past the page, merged, and the page cut out of that.
Merged(window) ==
    Ascending(ToSet(OffsetPage(Index({"sent", "both"}), 0, window))
                \cup ToSet(OffsetPage(Index({"received", "both"}), 0, window)))

BothPage ==
    /\ walk = "both" /\ walkEnd = "more"
    /\ LET limit == ClampListLimit(WalkLimit)
           merged == Merged(ClampListLimit(walkedTo + limit + 1))
       IN  Page(limit, OffsetPage(merged, walkedTo, limit), Len(merged) > walkedTo + limit)

\* fetchAllAuto() and fetchAll(): the indexer says whether there is a next page.
IndexerPage ==
    /\ walk \in {"auto", "all"} /\ walkEnd = "more" /\ walkPages < WalkPages
    /\ LET n == Len(NodePage(walkedTo, WalkLimit))
       IN  Page(n, Ascending(Came(n)), Len(items) > walkedTo + n)

\* An indexer that names the page it was asked for as the next: fetchAllAuto()
\* fails, and fetchAll() reads it again.
CursorUnchanged ==
    /\ walk \in {"auto", "all"} /\ walkEnd = "more" /\ walkedTo > 0 /\ walkPages < WalkPages
    /\ read' = read \o Ascending(Came(Len(NodePage(walkedTo, WalkLimit))))
    /\ walkPages' = walkPages + 1
    /\ walkEnd' = IF walk = "auto" THEN "failed" ELSE "more"
    /\ UNCHANGED <<walk, items, cursors, walkedTo, horizon>>

\* The limits on pages of the readers that loop by themselves.
TooManyPages ==
    /\ walk \in {"replay", "auto", "all"} /\ walkEnd = "more" /\ walkPages >= WalkPages
    /\ walkEnd' = "failed"
    /\ UNCHANGED <<walk, items, cursors, walkedTo, horizon, read, walkPages>>

WalkNext ==
    \/ HistoryPage \/ ReplayPage \/ SenderPage \/ BothPage \/ IndexerPage
    \/ CursorUnchanged \/ TooManyPages \/ ItemAdded

WalkSpec == WalkInit /\ [][WalkNext]_walkVars

-----------------------------------------------------------------------------
\* Where the code reads all there is: the window of list() is within
\* MAX_LIST_LIMIT, and replayEvents() has a node with cursors.
Unclipped ==
    /\ walk = "both" => walkedTo + 1 <= ListCap
    /\ walk = "replay" => cursors

\* A walk that is over has handed over, in order and without repeating one, the
\* items wanted that there were when it began, although the collection grew; a
\* replay has handed over no more than those.
WalkExact ==
    /\ walkEnd = "done" /\ Unclipped /\ walk # "all" =>
          /\ \A j, k \in DOMAIN read : j < k => read[j] < read[k]
          /\ {i \in 1 .. horizon : Wanted(i)} \subseteq ToSet(read)
          /\ \A i \in ToSet(read) : Wanted(i)
          /\ walk = "replay" => ToSet(read) \subseteq 1 .. horizon
    /\ walkEnd = "done" /\ walk = "all" => 1 .. horizon \subseteq ToSet(read)
=============================================================================
