------------------------------- MODULE ResultPages -------------------------------
(***************************************************************************)
(* The pages of a result (engines/duckdb/src/pages.rs): the batches a      *)
(* statement streams (jobs.rs, `execute_snapshot`) are cut to the row      *)
(* limit and sliced into page files, whose number of rows the first batch  *)
(* fixes, and any window of rows is read back from them.  A row is its     *)
(* number; of what it holds only the size is kept: 1, or LongSize if it    *)
(* has a cell too long to be shown whole.                                  *)
(***************************************************************************)
EXTENDS Integers, SequencesExt, FiniteSetsExt

CONSTANTS
    PageRows,   \* DEFAULT_PAGE_ROWS
    PageBytes,  \* MAX_PAGE_BYTES
    BatchRows,  \* bound: rows of a batch
    LongSize,   \* size of a row with a long cell
    BrowseLimit, \* row_limit
    ByteQuota   \* maximum_result_bytes

VARIABLES
    stage,      \* "running", "finished", "published", "overQuota" or "failed"
    sizes,      \* of the rows handed to the writer
    cut,        \* browse_limit_reached
    skipped,    \* rows of the statement that were not handed over (history)
    perPage,    \* page_rows; 0 before the first batch
    buffered,   \* slices <<first, last>> of the page being filled
    pages,      \* the page files, sequences of slices
    bytes       \* bytes_written

pageVars == <<stage, sizes, cut, skipped, perPage, buffered, pages, bytes>>

Bytes(seq) == FoldLeft(+, 0, seq)
RowsOf(slices) == Bytes([i \in DOMAIN slices |-> slices[i][2] - slices[i][1] + 1])
\* The rows that are in a slice.
Sliced == IF buffered # <<>> THEN Last(buffered)[2] ELSE IF pages # <<>> THEN Last(Last(pages))[2] ELSE 0
Batches == UNION {[1..n -> {1, LongSize}] : n \in 0..BatchRows}

--------------------------------------------------------------------------------
(* Writing.                                                                *)

PagesInit ==
    /\ stage = "running" /\ sizes = <<>> /\ cut = FALSE /\ skipped = 0 /\ perPage = 0
    /\ buffered = <<>> /\ pages = <<>> /\ bytes = 0

\* The rows a page gets: by the average size of the first batch's rows, where a batch that
\* was cut still counts the memory of all of it.
ByBytes(batch, take) == Max({Min({PageRows, PageBytes \div Max({Bytes(batch) \div take, 1})}), 1})
EachTime(batch, take) == ByBytes(batch, take)      \* mutant: every batch sets it anew
AtFirst(batch, take) == IF perPage = 0 THEN ByBytes(batch, take) ELSE perPage

\* A batch arrives when the one before is in slices.
Stream(batch) ==
    LET take == Min({Len(batch), BrowseLimit - Len(sizes)}) IN
    /\ stage = "running" /\ ~cut /\ Sliced = Len(sizes)
    /\ cut' = (take < Len(batch) \/ Len(sizes) = BrowseLimit)
    /\ skipped' = Len(batch) - take
    /\ sizes' = sizes \o SubSeq(batch, 1, take)
    /\ perPage' = (IF take = 0 THEN perPage ELSE AtFirst(batch, take))
    /\ UNCHANGED <<stage, buffered, pages, bytes>>

\* flush: the file stays where it is even if it is the one too many.
Flush(slices, next) ==
    /\ bytes' = bytes + Bytes(SubSeq(sizes, Head(slices)[1], Last(slices)[2]))
    /\ pages' = Append(pages, slices) /\ buffered' = <<>>
    /\ stage' = (IF bytes' > ByteQuota THEN "overQuota" ELSE next)

\* append, one turn of its loop.
Slice ==
    LET from == Sliced + 1
        to == Min({Len(sizes), Sliced + perPage - RowsOf(buffered)})
        slices == Append(buffered, <<from, to>>)
    IN  /\ stage = "running" /\ Sliced < Len(sizes)
        /\ IF RowsOf(slices) >= perPage THEN Flush(slices, stage)
           ELSE buffered' = slices /\ UNCHANGED <<stage, pages, bytes>>
        /\ UNCHANGED <<sizes, cut, skipped, perPage>>

\* finish: the last page is rarely full, and there may be none.
Finish ==
    /\ stage = "running" /\ Sliced = Len(sizes)
    /\ IF buffered # <<>> THEN Flush(buffered, "finished")
       ELSE stage' = "finished" /\ UNCHANGED <<buffered, pages, bytes>>
    /\ UNCHANGED <<sizes, cut, skipped, perPage>>

\* publish
Publish ==
    /\ stage = "finished" /\ stage' = "published"
    /\ UNCHANGED <<sizes, cut, skipped, perPage, buffered, pages, bytes>>

\* The statement, a file or the directory fails.
Fail ==
    /\ stage \in {"running", "finished"} /\ stage' = "failed"
    /\ UNCHANGED <<sizes, cut, skipped, perPage, buffered, pages, bytes>>

PagesNext ==
    \/ \E batch \in Batches : Stream(batch)
    \/ Slice \/ Finish \/ Publish \/ Fail

PagesSpec == PagesInit /\ [][PagesNext]_pageVars

--------------------------------------------------------------------------------
(* Reading.                                                                *)

Total == Len(sizes)
Numbers(from, to) == [k \in 1..(to - from + 1) |-> from + k - 1]

\* convert_batch: the cells of these rows, and which of them, counted from the first, were
\* too long (indices are those of the code, from 0).
Convert(from, to) ==
    [rows |-> Numbers(from, to), marks |-> {k \in 0..(to - from) : sizes[from + k] = LongSize}]

\* One batch of a page file, whose rows are numbered by where it is in the file.  A page's
\* rows are at `start + seen`, which is what the file holds if pages are all full.
ReadSlice(read, slice, end) ==
    LET first == read.start + read.seen
        count == slice[2] - slice[1] + 1
        from == Max({read.cursor, first})
        to == Min({end, first + count})
        part == Convert(slice[1] + from - first, slice[1] + to - first - 1)
        passed == [read EXCEPT !.seen = @ + count]
    IN  IF from >= to THEN passed
        ELSE [passed EXCEPT !.cursor = to, !.rows = @ \o part.rows, !.marks = @ \cup part.marks]

\* read_page_window: page after page until the end is reached; a page that is missing
\* is an error.
Window(offset, maxRows) ==
    LET end == Min({offset + maxRows, Total})
        first == offset \div perPage
        begun == [cursor |-> offset, rows |-> <<>>, marks |-> {}, start |-> 0, seen |-> 0]
        \* what is read when `n` more pages are
        After[n \in Nat] ==
            IF n = 0 THEN begun
            ELSE LET before == After[n - 1]
                     index == first + n - 1
                 IN  IF before.cursor >= end THEN before
                     ELSE FoldLeft(LAMBDA read, slice : ReadSlice(read, slice, end),
                                   [before EXCEPT !.start = perPage * index, !.seen = 0], pages[index + 1])
    IN  IF Total = 0 \/ maxRows = 0 \/ offset >= end THEN [begun EXCEPT !.cursor = Max({end, offset})]
        ELSE After[Max({Len(pages) - first, 0})]

--------------------------------------------------------------------------------
(* Properties.                                                             *)

\* What is told of a published result is so: every window, wherever it begins and however
\* long it is, has exactly its rows in their order, across pages and the batches in them;
\* no page has more rows than a page has, the quota holds, and a total that is told to be
\* exact is that of the statement.
WindowIsExact ==
    stage = "published" =>
        /\ \A offset \in 0..(Total + 1), maxRows \in 1..(Total + 1) :
              LET read == Window(offset, maxRows) IN
              /\ read.rows = Numbers(offset + 1, Min({offset + maxRows, Total}))
              /\ read.cursor >= Min({offset + maxRows, Total})
        /\ \A i \in DOMAIN pages : RowsOf(pages[i]) <= perPage
        /\ bytes <= ByteQuota /\ bytes = Bytes(sizes)
        /\ Total <= BrowseLimit /\ (~cut => skipped = 0)

\* "NULL values and truncated large cells are marked" (docs/user/USER-GUIDE.md): the grid
\* marks row k of the page it shows if `truncatedCells` names k (ResultGrid.tsx).
TruncatedCellsAreMarked ==
    stage = "published" =>
        \A page \in 0..(Total \div PageRows) :
            LET read == Window(page * PageRows, PageRows) IN
            read.marks = {k \in 0..(Len(read.rows) - 1) : sizes[read.rows[k + 1]] = LongSize}
================================================================================
