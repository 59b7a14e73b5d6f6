------------------------- MODULE TransactionHistory -------------------------
(***************************************************************************)
(* The dashboard's transaction history: transactionHistoryReducer() and    *)
(* the selectors that read its state.  The selectors share a memo of the   *)
(* filtered rows, and a page is taken from a heap that keeps the newest.   *)
(***************************************************************************)
EXTENDS Integers, Selections

CONSTANTS
    PayloadMax,   \* bound on the entries of a payload
    LatestTime,   \* timestamps are 0 .. LatestTime
    HistorySizes  \* page sizes that are asked for

ASSUME HistoryConstants ==
    /\ {PayloadMax, LatestTime} \subseteq Nat
    /\ HistorySizes \subseteq Nat \ {0}

VARIABLES
    transactions,   \* the rows of state.transactions
    array,          \* identity of that array
    filters,        \* filters.status: a status or "ALL"
    historyPage, pageSize,
    historyLoading, historyError,
    memo            \* selectorCache: of which array, which signature, the rows

historyVars == <<transactions, array, filters, historyPage, pageSize, historyLoading, historyError, memo>>

DefaultPageSize == 10
Statuses == {"CONFIRMED", "PENDING"}
NoMemo == [array |-> -1, signature |-> "none", filtered |-> <<>>]

HistoryInit ==
    /\ transactions = <<>> /\ array = 0
    /\ filters = "ALL"
    /\ historyPage = 0 /\ pageSize = DefaultPageSize
    /\ historyLoading = FALSE /\ historyError = FALSE
    /\ memo = NoMemo

\* normalizeTransactions(): entries without any id are dropped, and of those
\* with the same id the first is kept.
Normalized(payload) ==
    LET Known(n) == payload[n].id # 0
        First(n) == \A m \in 1 .. n - 1 : payload[m].id # payload[n].id
    IN  Picked(payload, {n \in DOMAIN payload : Known(n) /\ First(n)})

\* An answer: some rows in any order, perhaps one without id and one twice.
Payloads ==
    UNION {{[n \in 1 .. size |->
                [id |-> IF n = odd THEN twice ELSE n, at |-> times[n],
                 status |-> IF n % 2 = 1 THEN "CONFIRMED" ELSE "PENDING"]] :
            times \in [1 .. size -> 0 .. LatestTime], odd \in {0, 2}, twice \in {0, 1}} :
           size \in 0 .. PayloadMax}

Filtered(rows, status) == Picked(rows, {n \in DOMAIN rows : status \in {"ALL", rows[n].status}})

TotalPages(rows, size) ==
    IF Len(rows) <= size THEN 1 ELSE (Len(rows) + size - 1) \div size
ClampPage(p, total) == IF p < 0 THEN 0 ELSE IF p > total - 1 THEN total - 1 ELSE p

\* A mistake for the runs to notice: the entry is that of the array alone.
SelectorEntryOfArray ==
    IF memo.array = array THEN memo
    ELSE [array |-> array, signature |-> filters,
          filtered |-> Filtered(transactions, filters)]

\* The entry of selectorCache, computed anew for another array or signature.
SelectorEntry ==
    IF memo.array = array /\ memo.signature = filters THEN memo
    ELSE [array |-> array, signature |-> filters,
          filtered |-> Filtered(transactions, filters)]

-----------------------------------------------------------------------------
\* topKByTimestampDesc(): a heap of the positions of k rows, the oldest on top.
IsLowerPriority(rows, m, n) == rows[m].at < rows[n].at \/ (rows[m].at = rows[n].at /\ m > n)

Swapped(heap, i, j) == [heap EXCEPT ![i] = heap[j], ![j] = heap[i]]

\* One turn of a loop that moves the entry at i, up to its parent or down to the
\* smaller of the two below it, unless it stays where it is.
Raised(rows, heap, i) ==
    IF i = 1 \/ IsLowerPriority(rows, heap[i \div 2], heap[i]) THEN [heap |-> heap, i |-> i]
    ELSE [heap |-> Swapped(heap, i, i \div 2), i |-> i \div 2]
Under(rows, heap, i) == {c \in {2 * i, 2 * i + 1} : c <= Len(heap) /\ IsLowerPriority(rows, heap[c], heap[i])}
Lowered(rows, heap, i) ==
    LET below == Under(rows, heap, i)
        smallest == CHOOSE c \in below : \A d \in below : ~IsLowerPriority(rows, heap[d], heap[c])
    IN  IF below = {} THEN [heap |-> heap, i |-> i]
        ELSE [heap |-> Swapped(heap, i, smallest), i |-> smallest]

\* An entry does not move more often than there are entries.
Sifted(rows, heap, i, up) ==
    LET turn[n \in 0 .. Len(heap)] ==
            IF n = 0 THEN [heap |-> heap, i |-> i]
            ELSE IF up THEN Raised(rows, turn[n - 1].heap, turn[n - 1].i)
            ELSE Lowered(rows, turn[n - 1].heap, turn[n - 1].i)
    IN  turn[Len(heap)].heap

Offered(rows, k, heap, n) ==
    IF Len(heap) < k THEN Sifted(rows, Append(heap, n), Len(heap) + 1, TRUE)
    ELSE IF IsLowerPriority(rows, heap[1], n) THEN Sifted(rows, [heap EXCEPT ![1] = n], 1, FALSE)
    ELSE heap

Kept(rows, k) ==
    LET heap[n \in 0 .. Len(rows)] == IF n = 0 THEN <<>> ELSE Offered(rows, k, heap[n - 1], n)
    IN  heap[Len(rows)]

\* Sorted at the end: before the i-th stand i - 1 that are newer.
TopK(rows, k) ==
    LET kept == {Kept(rows, k)[n] : n \in DOMAIN Kept(rows, k)}
    IN  [i \in DOMAIN Kept(rows, k) |->
            rows[CHOOSE n \in kept : Cardinality({m \in kept : IsLowerPriority(rows, n, m)}) = i - 1]]

\* selectVisibleTransactions() for page p
Visible(p) ==
    LET filtered == SelectorEntry.filtered
        start == ClampPage(p, TotalPages(filtered, pageSize)) * pageSize
        top == TopK(filtered, start + pageSize)
    IN  SubSeq(top, start + 1, IF Len(top) < start + pageSize THEN Len(top) ELSE start + pageSize)

-----------------------------------------------------------------------------
Loaded == <<transactions, array>>

LoadStart ==
    /\ historyLoading' = TRUE /\ historyError' = FALSE
    /\ UNCHANGED <<Loaded, filters, historyPage, pageSize, memo>>

\* The page is clamped to the rows before they are filtered.
LoadSuccess(payload) ==
    /\ transactions' = Normalized(payload)
    /\ array' = 1 - array   \* a new array; the memo of the last one is not kept
    /\ memo' = IF memo.array = array' THEN NoMemo ELSE memo
    /\ historyLoading' = FALSE /\ historyError' = FALSE
    /\ historyPage' = ClampPage(historyPage, TotalPages(transactions', pageSize))
    /\ UNCHANGED <<filters, pageSize>>

LoadFailure ==
    /\ historyLoading' = FALSE /\ historyError' = TRUE
    /\ UNCHANGED <<Loaded, filters, historyPage, pageSize, memo>>

SetFilter(f) ==
    /\ filters' = f /\ historyPage' = 0
    /\ UNCHANGED <<Loaded, pageSize, historyLoading, historyError, memo>>

\* SET_PAGE looks at the filtered rows, through the memo.
SetPage(p) ==
    /\ historyPage' = ClampPage(p, TotalPages(SelectorEntry.filtered, pageSize))
    /\ memo' = SelectorEntry
    /\ UNCHANGED <<Loaded, filters, pageSize, historyLoading, historyError>>

SetPageSize(size) ==
    /\ pageSize' = size /\ historyPage' = 0
    /\ UNCHANGED <<Loaded, filters, historyLoading, historyError, memo>>

ResetHistory ==
    /\ transactions' = <<>> /\ array' = 1 - array
    /\ memo' = IF memo.array = array' THEN NoMemo ELSE memo
    /\ filters' = "ALL" /\ historyPage' = 0 /\ pageSize' = DefaultPageSize
    /\ historyLoading' = FALSE /\ historyError' = FALSE

\* A render calls the selectors.
RenderHistory ==
    /\ memo' = SelectorEntry
    /\ UNCHANGED <<Loaded, filters, historyPage, pageSize, historyLoading, historyError>>

HistoryNext ==
    \/ LoadStart \/ LoadFailure \/ ResetHistory \/ RenderHistory
    \* a bound: what is loaded later is the first row of what was loaded before
    \/ \E payload \in IF transactions = <<>> THEN Payloads ELSE {SubSeq(transactions, 1, 1)} :
          LoadSuccess(payload)
    \/ \E f \in Statuses \cup {"ALL"} : SetFilter(f)
    \/ \E p \in -1 .. PayloadMax : SetPage(p)
    \/ \E size \in HistorySizes : SetPageSize(size)

HistorySpec == HistoryInit /\ [][HistoryNext]_historyVars

-----------------------------------------------------------------------------
\* The rows that pass the filter, the newest first and those of one time in the
\* order in which they were loaded.
Passing == Filtered(transactions, filters)
NewestFirst ==
    LET Before(m, n) == Passing[m].at > Passing[n].at \/ (Passing[m].at = Passing[n].at /\ m < n)
    IN  [i \in DOMAIN Passing |->
            Passing[CHOOSE n \in DOMAIN Passing : Cardinality({m \in DOMAIN Passing : Before(m, n)}) = i - 1]]

(* The pages (transaction-history.ts:676) are the slices of that list, as  *)
(* many as it needs, so that paging through it shows each row once; and no *)
(* page is empty while there are rows.                                     *)
PagesExact ==
    LET total == TotalPages(Passing, pageSize)
        End(p) == IF (p + 1) * pageSize < Len(Passing) THEN (p + 1) * pageSize ELSE Len(Passing)
    IN  /\ \A p \in 0 .. total - 1 : Visible(p) = SubSeq(NewestFirst, p * pageSize + 1, End(p))
        /\ Len(Passing) <= total * pageSize
        /\ Passing # <<>> => Visible(historyPage) # <<>>
=============================================================================
