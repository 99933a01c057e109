------------------------------- MODULE ResultCache -------------------------------
(***************************************************************************)
(* The desktop's cache of decoded pages (src-tauri/src/results/mod.rs) and *)
(* the directories of results under it (src-tauri/src/storage/mod.rs).     *)
(* Commands run on threads of their own; each takes the cache's lock and   *)
(* gives it back around its one request to the engine, so that what the    *)
(* engine answered may be old when it is put into the cache.  Directories  *)
(* are removed by the engine when a result is released, and by the desktop *)
(* when it starts or is told to clear the cache: what it lists by then is  *)
(* removed afterwards, whatever the engine has made of it in between.      *)
(***************************************************************************)
EXTENDS SequencesExt, FiniteSetsExt

CONSTANTS
    Results,    \* ids of results
    Earlier,    \* those published before
    Offsets,    \* of the pages of a result
    Readers,    \* commands get_result_page and release_result
    Clearers,   \* those that may be clear_cache
    MaxTotalPages,  \* MAX_TOTAL_PAGES
    EngineUpsets,   \* bound: engines lost
    MayRestart,     \* whether the application is lost too
    Startup,        \* the thread that cleans up after a start
    ArtifactBytes,  \* sizes a result may have
    CacheBudget     \* RESULT_MAX_BYTES

VARIABLES
    writing,    \* results of statements that are running
    disk,       \* the directories, the one changed longest ago first: records [id, tmp, bytes]
    found,      \* what each clean-up listed, with whether it has expired
    mixed,      \* results published between the release and the list of a clean-up (history)
    overfull,   \* a clean-up that could remove everything left too much of its list (history)
    kept,       \* results the engine has
    gone,       \* results it had
    released,   \* those whose release was told to be done (history)
    entries,    \* keys of the cached pages
    order,      \* keys, the one used longest ago first
    reader,     \* of each command: records [at, key]
    overlapped, \* results with a page that was on its way while they were released (history)
    upsets

diskVars == <<writing, disk, found, mixed, overfull>>
cacheVars == <<diskVars, kept, gone, released, entries, order, reader, overlapped, upsets>>

Keys == Results \X Offsets
NoKey == <<"none", "none">>
Everything == <<"everything", "all">>   \* clear_cache
Cleaners == Readers \cup {Startup}
Idle == [at |-> "idle", key |-> NoKey]
Set(r, at, key) == reader' = [reader EXCEPT ![r] = [at |-> at, key |-> key]]
Without(seq, P(_)) == SelectSeq(seq, LAMBDA key : ~P(key))
\* A clean-up that has released what the engine had, and has not listed the disk yet.
Cleaning(r) ==
    \/ reader[r].at = "listing"
    \/ reader[r].at = "clearing" /\ reader[r].key = Everything
DiskWithout(ids) == SelectSeq(disk, LAMBDA dir : dir.id \notin ids)
Readable(result) == \E dir \in ToSet(disk) : dir.id = result /\ ~dir.tmp
OnTheWay(results) == {result \in results : \E r \in Readers : reader[r].at = "read" /\ reader[r].key[1] = result}

CacheInit ==
    /\ kept = Earlier /\ gone = {} /\ released = {} /\ entries = {} /\ order = <<>>
    /\ reader = [r \in Cleaners |-> Idle] /\ overlapped = {} /\ upsets = 0
    /\ writing = {} /\ found = [r \in Cleaners |-> <<>>]
    /\ disk = SetToSeq([id : Earlier, tmp : {FALSE}, bytes : {1}])
    /\ mixed = {} /\ overfull = FALSE

\* A statement writes its pages to a directory of its own,
Begin(result, bytes) ==
    /\ result \notin kept \cup gone \cup writing
    /\ writing' = writing \cup {result}
    /\ disk' = Append(disk, [id |-> result, tmp |-> TRUE, bytes |-> bytes])
    /\ UNCHANGED <<found, mixed, overfull, kept, gone, released, entries, order, reader, overlapped, upsets>>
\* which is renamed when they are complete, if it is still there.
Publish(result) ==
    LET Own(dir) == dir.id = result
        own == SelectSeq(disk, Own)
    IN  /\ result \in writing /\ writing' = writing \ {result}
        /\ IF own = <<>>
              THEN gone' = gone \cup {result} /\ UNCHANGED <<disk, mixed, kept>>
              ELSE /\ kept' = kept \cup {result} /\ UNCHANGED gone
                   /\ disk' = Append(DiskWithout({result}), [Head(own) EXCEPT !.tmp = FALSE])
                   /\ mixed' = IF \E r \in Cleaners : Cleaning(r) THEN mixed \cup {result} ELSE mixed
        /\ UNCHANGED <<found, overfull, released, entries, order, reader, overlapped, upsets>>

\* entry_get: a hit moves to the end of the order.
Touched(key) == Append(Without(order, LAMBDA k : k = key), key)
Hit(r, key) ==
    /\ reader[r].at = "idle" /\ key \in entries
    /\ order' = Touched(key)
    /\ UNCHANGED <<diskVars, kept, gone, released, entries, reader, overlapped, upsets>>
Miss(r, key) ==
    /\ reader[r].at = "idle" /\ key \notin entries
    /\ Set(r, "asking", key)
    /\ UNCHANGED <<diskVars, kept, gone, released, entries, order, overlapped, upsets>>

\* The engine reads the page of a result that it has, and knows no other.
Read(r) ==
    /\ reader[r].at = "asking"
    /\ IF reader[r].key[1] \in kept /\ Readable(reader[r].key[1]) THEN Set(r, "read", reader[r].key) ELSE reader' = [reader EXCEPT ![r] = Idle]
    /\ UNCHANGED <<diskVars, kept, gone, released, entries, order, overlapped, upsets>>
\* It could not be asked, or could not read the file.
ReadFails(r) ==
    /\ reader[r].at \in {"asking", "releasing", "releasingAll"}
    /\ reader' = [reader EXCEPT ![r] = Idle]
    /\ UNCHANGED <<diskVars, kept, gone, released, entries, order, overlapped, upsets>>

\* entry_put: another command may have read the same page meanwhile.
PutTwice(key) == Append(order, key)             \* mutant: not looked for in the order
PutOnce(key) == IF key \in entries THEN Touched(key) ELSE Append(order, key)
\* cache_put: those used longest ago make room.
Put(r) ==
    LET key == reader[r].key
        put == PutOnce(key)
        excess == Max({Len(put) - MaxTotalPages, 0})
    IN  /\ reader[r].at = "read"
        /\ order' = SubSeq(put, excess + 1, Len(put))
        /\ entries' = (entries \cup {key}) \ ToSet(SubSeq(put, 1, excess))
        /\ reader' = [reader EXCEPT ![r] = Idle]
        /\ UNCHANGED <<diskVars, kept, gone, released, overlapped, upsets>>

\* release: first the engine, then the cache.
AskRelease(r, result) ==
    /\ reader[r].at = "idle" /\ Set(r, "releasing", <<result, "all">>)
    /\ UNCHANGED <<diskVars, kept, gone, released, entries, order, overlapped, upsets>>
Release(r) ==
    /\ reader[r].at = "releasing"
    /\ reader[r].key[1] \in kept
    /\ kept' = kept \ {reader[r].key[1]} /\ gone' = gone \cup {reader[r].key[1]}
    /\ disk' = DiskWithout({reader[r].key[1]})
    /\ Set(r, "evicting", reader[r].key)
    /\ UNCHANGED <<writing, found, mixed, overfull, released, entries, order, overlapped, upsets>>
\* evict_result
Evict(r) ==
    LET result == reader[r].key[1]
        Of(key) == key[1] = result
    IN  /\ reader[r].at = "evicting"
        /\ entries' = {key \in entries : ~Of(key)} /\ order' = Without(order, Of)
        /\ released' = released \cup {result}
        /\ overlapped' = overlapped \cup OnTheWay({result})
        /\ reader' = [reader EXCEPT ![r] = Idle]
        /\ UNCHANGED <<diskVars, kept, gone, upsets>>

\* release_all, of itself or as the first half of clear_cache, which waits on one thread.
AskReleaseAll(r, key) ==
    /\ reader[r].at = "idle"
    /\ key = Everything => r \in Clearers /\ \A q \in Readers : reader[q].key # Everything
    /\ Set(r, "releasingAll", key)
    /\ UNCHANGED <<diskVars, kept, gone, released, entries, order, overlapped, upsets>>
\* The records go first; a directory that cannot be removed is left without one.
ReleaseAll(r) ==
    /\ reader[r].at = "releasingAll"
    /\ kept' = {} /\ gone' = gone \cup kept
    /\ \E stuck \in SUBSET kept : disk' = DiskWithout(kept \ stuck)
    /\ Set(r, "clearing", reader[r].key)
    /\ UNCHANGED <<writing, found, mixed, overfull, released, entries, order, overlapped, upsets>>
Clear(r) ==
    /\ reader[r].at = "clearing"
    /\ entries' = {} /\ order' = <<>>
    /\ released' = released \cup gone
    /\ overlapped' = overlapped \cup OnTheWay(gone)
    /\ IF reader[r].key = Everything THEN Set(r, "listing", Everything) ELSE reader' = [reader EXCEPT ![r] = Idle]
    /\ UNCHANGED <<diskVars, kept, gone, upsets>>

\* cleanup_results: the directories, sorted by age; the oldest may have expired, which
\* does not matter when everything is to go.
Inspected(expired) == [i \in DOMAIN disk |-> [dir |-> disk[i], old |-> i <= expired]]
List(r) ==
    /\ reader[r].at = "listing"
    /\ \E expired \in 0..(IF r = Startup THEN Len(disk) ELSE 0) : found' = [found EXCEPT ![r] = Inspected(expired)]
    /\ Set(r, "sweeping", reader[r].key)
    /\ UNCHANGED <<writing, disk, mixed, overfull, kept, gone, released, entries, order, overlapped, upsets>>
Bytes(dirs) == FoldLeft(LAMBDA sum, dir : sum + dir.bytes, 0, dirs)
\* Everything, or what has expired, or the oldest while the rest is too large; what cannot
\* be removed goes on counting.
Removed(all, list, stuck) ==
    FoldLeft(LAMBDA done, item :
               IF ~(all \/ item.old \/ done.retained > CacheBudget) THEN done
               ELSE IF item.dir \in stuck \/ item.dir \notin ToSet(disk) THEN [done EXCEPT !.failed = TRUE]
               ELSE [done EXCEPT !.retained = @ - item.dir.bytes, !.dirs = @ \cup {item.dir}],
             [retained |-> Bytes([i \in DOMAIN list |-> list[i].dir]), dirs |-> {}, failed |-> FALSE], list)
Sweep(r) ==
    /\ reader[r].at = "sweeping"
    /\ \E stuck \in SUBSET ToSet(disk) :
          LET done == Removed(reader[r].key = Everything, found[r], stuck)
              listed == {found[r][i].dir : i \in DOMAIN found[r]}
          IN  /\ disk' = SelectSeq(disk, LAMBDA dir : dir \notin done.dirs)
              /\ overfull' = (overfull \/ (~done.failed /\ Bytes(SelectSeq(disk', LAMBDA dir : dir \in listed)) > CacheBudget))
    /\ found' = [found EXCEPT ![r] = <<>>] /\ reader' = [reader EXCEPT ![r] = Idle]
    /\ UNCHANGED <<writing, mixed, kept, gone, released, entries, order, overlapped, upsets>>

\* The engine is lost with all it has; the pages the cache has can still be read.
LoseEngine ==
    /\ upsets < EngineUpsets /\ upsets' = upsets + 1
    /\ kept' = {} /\ gone' = gone \cup kept \cup writing /\ writing' = {}
    /\ UNCHANGED <<disk, found, mixed, overfull, released, entries, order, reader, overlapped>>
\* The application is lost too; the next one begins with a clean-up in the background.
Restart ==
    /\ MayRestart /\ upsets < EngineUpsets /\ upsets' = upsets + 1
    /\ kept' = {} /\ gone' = gone \cup kept \cup writing /\ writing' = {}
    /\ entries' = {} /\ order' = <<>>
    /\ reader' = [[r \in Cleaners |-> Idle] EXCEPT ![Startup].at = "listing"]
    /\ found' = [r \in Cleaners |-> <<>>]
    /\ UNCHANGED <<disk, mixed, overfull, released, overlapped>>

CacheNext ==
    \/ LoseEngine \/ Restart
    \/ \E result \in Results : Publish(result) \/ \E bytes \in ArtifactBytes : Begin(result, bytes)
    \/ \E r \in Cleaners : List(r) \/ Sweep(r)
    \/ \E r \in Readers :
          \/ \E key \in Keys : Hit(r, key) \/ Miss(r, key)
          \/ \E result \in Results : AskRelease(r, result)
          \/ Read(r) \/ ReadFails(r) \/ Put(r) \/ Release(r) \/ Evict(r)
          \/ AskReleaseAll(r, NoKey) \/ AskReleaseAll(r, Everything) \/ ReleaseAll(r) \/ Clear(r)

CacheSpec == CacheInit /\ [][CacheNext]_cacheVars

--------------------------------------------------------------------------------
(* The property.                                                           *)

\* Whatever commands overlap, the order has every cached page once and nothing else, no
\* more pages are cached than the limit, and a page of a result whose release was told to
\* be done is there only if it was on its way to the cache at that time.  A result the
\* engine has keeps its directory, unless it was published under a clean-up that had yet to
\* list the disk; and what a clean-up leaves of its list is within the budget, unless
\* something could not be removed.
CacheIsExact ==
    /\ IsInjective(order) /\ ToSet(order) = entries /\ Len(order) <= MaxTotalPages
    /\ \A key \in entries : key[1] \in released => key[1] \in overlapped
    /\ \A result \in kept : result \in mixed \/ Readable(result)
    /\ ~overfull
================================================================================
