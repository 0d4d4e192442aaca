------------------------------- MODULE Ledger -------------------------------
(***************************************************************************)
(* util/src/ledger.ts: the append-only JSONL ledger every durable log of   *)
(* the system is made of.  Files roll over by day and by size; a hot cache *)
(* answers limited queries; a retention sweep and a compaction run across  *)
(* awaits, so appends come between their steps; the process may restart.   *)
(* A row is its append number, the key a compaction dedupes it by and the  *)
(* day it was appended on.  A write either leaves the whole row or throws; *)
(* reading and removing the directory do not fail.                         *)
(***************************************************************************)
EXTENDS Integers, Sequences, FiniteSets, SequencesExt, Selection

CONSTANTS Keys,
          Cap,         \* rollover.maxEntriesPerFile
          Retention,   \* rollover.retentionDays
          HotSize,     \* hotCacheMaxSize
          Fails,       \* whether a write may fail
          MaxDay, MaxIndex, MaxAppends   \* bounds: the clock, overflow files, rows

ASSUME LedgerConstants ==
  /\ Cap \in Nat \ {0} /\ Retention \in Nat \ {0} /\ HotSize \in Nat \ {0}
  /\ Fails \in BOOLEAN
  /\ MaxDay \in Nat \ {0} /\ MaxIndex \in 1 .. 9 /\ MaxAppends \in Nat

VARIABLES compacts,    \* whether the owner of the ledger compacts it
          today,       \* the UTC date
          disk,        \* what each file holds
          writer,      \* currentDay, rolloverIndex, currentFile, currentEntries
          hot,         \* the hot cache, oldest first
          sweeps,      \* retention sweeps under way: the newest day each removes
          compaction,  \* the compaction under way
          appended,    \* append numbers used
          acked,       \* history: rows whose append returned
          cleared      \* history: rows that a clear removed

ledgerVars == <<compacts, today, disk, writer, hot, sweeps, compaction, appended, acked, cleared>>

Days == 1 .. MaxDay
Files == Days \X (0 .. MaxIndex)    \* <day>.jsonl is index 0, <day>-<n>.jsonl index n
NoFile == <<0, 0>>
Row == [id : 1 .. MaxAppends, key : Keys, at : Days]
NewWriter == [day |-> 0, index |-> 0, file |-> NoFile, entries |-> 0]
NoCompaction == [pc |-> "idle", kept |-> <<>>]

First(s, n) == SubSeq(s, 1, IF Len(s) < n THEN Len(s) ELSE n)
Newest(s, n) == Reverse(First(Reverse(s), n))

LedgerInit ==
  /\ compacts \in BOOLEAN
  /\ today = 1 /\ disk = [f \in Files |-> <<>>]
  /\ writer = NewWriter /\ hot = <<>>
  /\ sweeps = {} /\ compaction = NoCompaction
  /\ appended = 0 /\ acked = {} /\ cleared = {}

-----------------------------------------------------------------------------
(* Reading.                                                                  *)

\* The files of a day as sort() lists their names: '-' comes before '.', so the
\* overflow files come before the file they overflowed from.
DayRows(d) == FlattenSeq([k \in 1 .. MaxIndex + 1 |-> disk[<<d, k % (MaxIndex + 1)>>]])

\* Mutant: the newest files first.
ScanNewestFirst == FlattenSeq([d \in Days |-> DayRows(MaxDay + 1 - d)])
\* scanDisk: every file, in the order of the sorted names.
Scan == FlattenSeq([d \in Days |-> DayRows(d)])

\* query({ limit }): the cache when it holds enough, else the disk; the oldest
\* rows of either.
Limited(n) == IF Len(hot) >= n THEN First(hot, n) ELSE First(Scan, n)

\* lastByKey: the last row of each key, where the key first appeared.
LastByKey(rows) ==
  LET last(k) == Max({i \in DOMAIN rows : rows[i].key = k})
      firsts == Selected(rows, {i \in DOMAIN rows : \A j \in 1 .. i - 1 : rows[j].key # rows[i].key})
  IN  [j \in DOMAIN firsts |-> rows[last(firsts[j].key)]]

-----------------------------------------------------------------------------
(* Writing.                                                                  *)

\* Daily rollover.
Dated == IF writer.day = today THEN writer ELSE [writer EXCEPT !.day = today, !.index = 0]

\* A file the writer was not on counts from nothing.
OpenedFile ==
  LET f == <<Dated.day, Dated.index>>
  IN  IF Dated.file = f THEN Dated ELSE [Dated EXCEPT !.file = f, !.entries = 0]

\* Mutant: rolled over one row late.
PositionedLate ==
  IF OpenedFile.entries > Cap
  THEN [OpenedFile EXCEPT !.index = @ + 1, !.file = <<OpenedFile.day, OpenedFile.index + 1>>, !.entries = 0]
  ELSE OpenedFile
\* Per-file rollover: where the next row goes.
Positioned ==
  IF OpenedFile.entries >= Cap
  THEN [OpenedFile EXCEPT !.index = @ + 1, !.file = <<OpenedFile.day, OpenedFile.index + 1>>, !.entries = 0]
  ELSE OpenedFile

\* A sweep starts with the first write of a day; at noon of today the file of
\* today - Retention is already older than Retention days.
SweepsStarted == IF writer.day = today THEN sweeps ELSE sweeps \cup {today - Retention}

NextRow(k) == [id |-> appended + 1, key |-> k, at |-> today]

\* Mutant: a write that rolled over falls through to the full file too.
WrittenTwice(row) ==
  [f \in Files |-> IF f \in {Positioned.file, OpenedFile.file} THEN Append(disk[f], row) ELSE disk[f]]
Written(row) == [disk EXCEPT ![Positioned.file] = Append(@, row)]

\* append: cached, then written.
AppendRow(k) ==
  /\ appended < MaxAppends /\ Positioned.index <= MaxIndex
  /\ appended' = appended + 1 /\ acked' = acked \cup {NextRow(k)}
  /\ hot' = Newest(Append(hot, NextRow(k)), HotSize)
  /\ disk' = Written(NextRow(k))
  /\ writer' = [Positioned EXCEPT !.entries = @ + 1]
  /\ sweeps' = SweepsStarted
  /\ UNCHANGED <<compacts, today, compaction, cleared>>

\* append whose write throws: the caches have the row, no file does.
AppendThrows(k) ==
  /\ Fails /\ appended < MaxAppends /\ Positioned.index <= MaxIndex
  /\ appended' = appended + 1
  /\ hot' = Newest(Append(hot, NextRow(k)), HotSize)
  /\ writer' = Positioned
  /\ sweeps' = SweepsStarted
  /\ UNCHANGED <<compacts, today, disk, compaction, acked, cleared>>

\* rotate: the next write starts the day's first file again.
Rotate ==
  /\ writer' = [writer EXCEPT !.file = NoFile, !.entries = 0, !.index = 0]
  /\ UNCHANGED <<compacts, today, disk, hot, sweeps, compaction, appended, acked, cleared>>

\* Mutant: the file of the cutoff day's morrow goes too.
SweptLate(cutoff) == {f \in Files : f[1] <= cutoff + 1}
\* pruneOldFiles: the files its cutoff covers.
Swept(cutoff) == {f \in Files : f[1] <= cutoff}

Sweep(cutoff) ==
  /\ cutoff \in sweeps
  /\ disk' = [f \in Files |-> IF f \in Swept(cutoff) THEN <<>> ELSE disk[f]]
  /\ sweeps' = sweeps \ {cutoff}
  /\ UNCHANGED <<compacts, today, writer, hot, compaction, appended, acked, cleared>>

\* Mutant: the file that is being written stays.
EmptiedButOpen == [f \in Files |-> IF f = writer.file THEN disk[f] ELSE <<>>]
\* The removal of the ledger's directory.
Emptied == [f \in Files |-> <<>>]

\* clear: the caches and the files, but not where the writer is.
ClearLedger ==
  /\ hot' = <<>> /\ disk' = Emptied
  /\ cleared' = {r.id : r \in acked}
  /\ UNCHANGED <<compacts, today, writer, sweeps, compaction, appended, acked>>

\* A cached row expires.
Expire ==
  /\ hot # <<>> /\ hot' = Tail(hot)
  /\ UNCHANGED <<compacts, today, disk, writer, sweeps, compaction, appended, acked, cleared>>

-----------------------------------------------------------------------------
(* Compaction: read everything, remove everything, write what is kept.       *)

Read == LastByKey(Scan)

\* Mutant: only the file that is rewritten is removed.
RemovedToday == [f \in Files |-> IF f = <<today, 0>> THEN <<>> ELSE disk[f]]
Removed == [f \in Files |-> <<>>]

CompactRead ==
  /\ compacts /\ compaction.pc = "idle"
  /\ compaction' = [pc |-> "read", kept |-> Read]
  /\ UNCHANGED <<compacts, today, disk, writer, hot, sweeps, appended, acked, cleared>>

CompactRemove ==
  /\ compaction.pc = "read"
  /\ disk' = Removed
  /\ compaction' = [compaction EXCEPT !.pc = "removed"]
  /\ UNCHANGED <<compacts, today, writer, hot, sweeps, appended, acked, cleared>>

CompactWrite ==
  /\ compaction.pc = "removed"
  /\ disk' = [disk EXCEPT ![<<today, 0>>] = compaction.kept]
  /\ hot' = Newest(compaction.kept, HotSize)
  /\ writer' = [day |-> today, index |-> 0, file |-> <<today, 0>>, entries |-> Len(compaction.kept)]
  /\ compaction' = NoCompaction
  /\ UNCHANGED <<compacts, today, sweeps, appended, acked, cleared>>

-----------------------------------------------------------------------------
(* Time and restarts.                                                        *)

\* The hot window is minutes: no cached row is two days old.
Midnight ==
  /\ today < MaxDay /\ today' = today + 1
  /\ hot' = Selected(hot, {i \in DOMAIN hot : hot[i].at = today})
  /\ UNCHANGED <<compacts, disk, writer, sweeps, compaction, appended, acked, cleared>>

\* A new process opens the same directory.
Restart ==
  /\ writer' = NewWriter /\ hot' = <<>> /\ sweeps' = {} /\ compaction' = NoCompaction
  /\ UNCHANGED <<compacts, today, disk, appended, acked, cleared>>

LedgerNext ==
  \/ \E k \in Keys : AppendRow(k) \/ AppendThrows(k)
  \/ Rotate \/ ClearLedger \/ Expire \/ Midnight \/ Restart
  \/ \E cutoff \in sweeps : Sweep(cutoff)
  \/ CompactRead \/ CompactRemove \/ CompactWrite

LedgerSpec == LedgerInit /\ [][LedgerNext]_ledgerVars

-----------------------------------------------------------------------------
(* Properties.                                                               *)

OnDisk == UNION {{disk[f][i].id : i \in DOMAIN disk[f]} : f \in Files}
Ascending(s) == \A i, j \in DOMAIN s : i < j => s[i].id < s[j].id

\* Shapes, and the bounds of the cache and of a file's counter.
LedgerTypeOK ==
  /\ compacts \in BOOLEAN /\ today \in Days /\ disk \in [Files -> Seq(Row)]
  /\ writer.day \in 0 .. MaxDay /\ writer.index \in 0 .. MaxIndex
  /\ writer.file \in Files \cup {NoFile} /\ (compacts \/ writer.entries \in 0 .. Cap)
  /\ hot \in Seq(Row) /\ Len(hot) <= HotSize
  /\ sweeps \subseteq Int /\ compaction.pc \in {"idle", "read", "removed"}
  /\ acked \subseteq [id : 1 .. appended, key : Keys, at : 1 .. today] /\ cleared \subseteq 1 .. appended /\ appended <= MaxAppends

\* A row whose append returned stays on disk, through rollovers, rotations,
\* restarts and sweeps that run late, until its day is Retention days back.
\* (Of a ledger that nobody compacts; LatestIsDurable speaks of the others.)
RetentionIsHonoured ==
  [][\A i \in OnDisk : ~compacts /\ i \notin OnDisk' \cup cleared' =>
       \A f \in Files : \A j \in DOMAIN disk[f] :
         disk[f][j].id = i => disk[f][j].at <= today - Retention]_ledgerVars

\* Rows come back in the order they were appended as long as no day overflowed
\* its first file and nobody compacts, whatever restarted, rotated, was swept or
\* failed.
OrderedUntilOverflow ==
  (~compacts /\ \A d \in Days : \A n \in 1 .. MaxIndex : disk[<<d, n>>] = <<>>) => Ascending(Scan)

\* A row is in one file, once: no failed write, rollover, rotation, restart or
\* compaction leaves a second copy.
NeverTwice == Cardinality(OnDisk) = Len(Scan)

\* clear: "Clear all entries (in-memory views and files)": nothing brings them
\* back but a compaction, which the owner of the ledger may run.
ClearedIsGone == ~compacts => OnDisk \cap cleared = {}

-----------------------------------------------------------------------------
(* What a comment of the code says and the code does not do.                 *)

\* scanDisk: "Append-order scan of the rollover files (oldest first ...)".
ScanIsAppendOrder == Ascending(Scan)

\* query: "every append is written synchronously, so disk rows already contain
\* the cached ones".
DiskContainsHot == \A i \in DOMAIN hot : hot[i].id \in OnDisk

\* maxEntriesPerFile: "Per-file entry cap; rolls to `<date>-<n>.jsonl` when reached".
FileCap == \A f \in Files : Len(disk[f]) <= Cap

\* close: "Every entry is already durable on disk": when no compaction is under
\* way, the newest acknowledged row of a key is in a file until it is due to go.
LatestIsDurable ==
  compaction.pc = "idle" =>
    \A r \in acked :
      r.id \notin cleared /\ r.at > today - Retention /\ (\A q \in acked : q.key = r.key => q.id <= r.id)
        => r.id \in OnDisk

\* loadRetrospectives: "Take the newest n entries (first n since query returns
\* newest first)".
LimitedIsNewest ==
  Limited(1) # <<>> => \A r \in acked : r.id \in OnDisk => r.id <= Limited(1)[1].id
=============================================================================
