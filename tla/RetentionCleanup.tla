-------------------------- MODULE RetentionCleanup --------------------------
(***************************************************************************)
(* What is kept on disk and how it goes: a recording or the picture of a   *)
(* detection is written as a file, then its rows are added; one goroutine, *)
(* at the start and then on a timer, deletes what is older than the days   *)
(* to retain, batch by batch, and, for recordings, the oldest while the    *)
(* disk is too full.  A batch is read, its files are removed one by one,   *)
(* then its rows in one statement; each of these may fail and the process  *)
(* may end between any two of them.                                        *)
(*                                                                         *)
(* The two tables are handled alike.  A recording has a file of its own,   *)
(* the events of one detection share a time and a picture.                 *)
(***************************************************************************)
EXTENDS Naturals, FiniteSets

CONSTANTS
  Rows,           \* what is ever added to the table
  StartOf,        \* started_at of a row
  Batch,          \* rows read at once (100, and 50 on a full disk)
  Target,         \* the size to free on a full disk; every file has size 1
  MaxClock,       \* bound on the time
  MaxPassCrashes  \* bound on the crashes

ASSUME RetentionAssumption ==
  /\ StartOf \in [Rows -> Nat]
  /\ Batch \in Nat \ {0} /\ Target \in Nat \ {0}
  /\ MaxClock \in Nat /\ MaxPassCrashes \in Nat

VARIABLES
  table,          \* "recordings" or "events"
  cutoff,         \* now less the days to retain: what started before is expired
  rows, files,    \* the rows, and the rows or times whose file is there
  tried,          \* rows whose insertion has been tried
  excused,        \* files that somebody else left behind, or that resist removal
  pass,           \* the cleanup: [pc, cut, full, batch, todo, freed, begun], where
                  \* begun is history: rows there since the pass began
  crashes

rowVars == <<rows, files, tried, excused>>
cleanVars == <<table, cutoff, rowVars, pass, crashes>>

Resting == [pc |-> "rest", cut |-> 0, full |-> FALSE, batch |-> {}, todo |-> {},
            freed |-> 0, begun |-> {}]

\* The file of a row.  The path that the row holds, which the code joins to the
\* working directory, is taken to name the file that was written.
FileOf(r) == IF table = "events" THEN <<"picture", StartOf[r]>> ELSE <<"mp4", r>>
RowsOf(f) == {r \in Rows : FileOf(r) = f}

CleanInit ==
  /\ table \in {"recordings", "events"}
  /\ cutoff = 0
  /\ rows = {} /\ files = {} /\ tried = {} /\ excused = {}
  /\ pass = Resting
  /\ crashes = 0

----------------------------------------------------------------------------
(* onRecordMP4 and onEvents, DelRecording and DelEvent *)

\* The file is written once, before its first row.
WriteFile(r) ==
  /\ RowsOf(FileOf(r)) \cap tried = {} /\ FileOf(r) \notin files
  /\ files' = files \cup {FileOf(r)}
  /\ UNCHANGED <<table, cutoff, rows, tried, excused, pass, crashes>>

Excuse(r) == excused \cup ({FileOf(r)} \cap files)

\* The row is added, or the failure is logged and answered as a success: the file stays.
Inserted(r) ==
  \/ rows' = rows \cup {r} /\ UNCHANGED excused
  \/ excused' = Excuse(r) /\ UNCHANGED rows

AddRow(r) ==
  /\ r \notin tried
  /\ FileOf(r) \in files \/ RowsOf(FileOf(r)) \cap tried # {}
  /\ tried' = tried \cup {r} /\ Inserted(r)
  /\ UNCHANGED <<table, cutoff, files, pass, crashes>>

\* The API deletes the row alone.
DeleteByUser(r) ==
  /\ r \in rows
  /\ rows' = rows \ {r} /\ excused' = Excuse(r)
  /\ pass' = [pass EXCEPT !.begun = @ \ {r}]
  /\ UNCHANGED <<table, cutoff, files, tried, crashes>>

----------------------------------------------------------------------------
(* The pass over expired rows. *)

PassBegins ==
  /\ pass.pc = "rest"
  /\ pass' = [Resting EXCEPT !.pc = "find", !.cut = cutoff, !.begun = rows]
  /\ UNCHANGED <<table, cutoff, rowVars, crashes>>

\* Mutant: what could not be removed is left out.
MutExpiredRows == {r \in rows : StartOf[r] < pass.cut /\ FileOf(r) \notin excused}

ExpiredRows == {r \in rows : StartOf[r] < pass.cut}

\* Batches of at most Batch of the rows.
BatchesOf(S) ==
  {b \in SUBSET S : Cardinality(b) = IF Cardinality(S) < Batch THEN Cardinality(S) ELSE Batch}

\* Mutant: the rows of the batch are not noted.
MutTake(b) == [pass EXCEPT !.pc = "remove", !.todo = b]

Take(b) == [pass EXCEPT !.pc = "remove", !.batch = b, !.todo = b]

FindExpired ==
  /\ pass.pc = "find" /\ ExpiredRows # {}
  /\ \E b \in BatchesOf(ExpiredRows) : pass' = Take(b)
  /\ UNCHANGED <<table, cutoff, rowVars, crashes>>

\* Nothing is left, or the query failed: recordings go on with a disk that is full.
ExpiredDone ==
  /\ pass.pc = "find"
  /\ pass' \in {Resting} \cup {[pass EXCEPT !.pc = "oldest", !.full = TRUE] : t \in {table} \cap {"recordings"}}
  /\ UNCHANGED <<table, cutoff, rowVars, crashes>>

\* Mutant: the rows go before their files.
MutFilesGone == TRUE

FilesGone == pass.todo = {}

\* What a full disk has gained, up to the target.
Freed == IF pass.full /\ pass.freed < Target THEN pass.freed + 1 ELSE pass.freed

\* A file that is not there (IsNotExist) counts as removed, and on a full disk as
\* freed; one that resists is counted and logged.
RemoveFile(r) ==
  /\ pass.pc = "remove" /\ r \in pass.todo
  /\ \/ /\ files' = files \ {FileOf(r)}
        /\ excused' = excused \ {FileOf(r)}
        /\ pass' = [pass EXCEPT !.todo = @ \ {r}, !.freed = Freed]
     \/ /\ FileOf(r) \in files
        /\ pass' = [pass EXCEPT !.todo = @ \ {r}]
        /\ excused' = Excuse(r)
        /\ UNCHANGED files
  /\ UNCHANGED <<table, cutoff, rows, tried, crashes>>

\* Below the threshold again, or the next batch.
AfterBatch ==
  IF pass.full THEN {[pass EXCEPT !.pc = "oldest", !.batch = {}], Resting}
  ELSE {[pass EXCEPT !.pc = "find", !.batch = {}]}

DeleteRows ==
  /\ pass.pc = "remove" /\ FilesGone
  /\ rows' = rows \ pass.batch
  /\ pass' \in {[p EXCEPT !.begun = @ \ pass.batch] : p \in AfterBatch}
  /\ UNCHANGED <<table, cutoff, files, tried, excused, crashes>>

\* The statement fails: on a full disk that is not even logged.
DeleteFails ==
  /\ pass.pc = "remove" /\ FilesGone
  /\ pass' \in AfterBatch
  /\ UNCHANGED <<table, cutoff, rowVars, crashes>>

----------------------------------------------------------------------------
(* The pass over a disk that is full. *)

\* Mutant: the rows come in any order.
MutOldest(b) == TRUE

Oldest(b) == \A r \in b, o \in rows \ b : StartOf[r] <= StartOf[o]

FindOldest ==
  /\ pass.pc = "oldest" /\ pass.freed < Target /\ rows # {}
  /\ \E b \in BatchesOf(rows) : Oldest(b) /\ pass' = Take(b)
  /\ UNCHANGED <<table, cutoff, rowVars, crashes>>

\* Enough is freed, no row is left, or the query failed.
OldestDone ==
  /\ pass.pc = "oldest"
  /\ pass' = Resting
  /\ UNCHANGED <<table, cutoff, rowVars, crashes>>

----------------------------------------------------------------------------
\* The process ends; the next one begins with a pass.
CrashPass ==
  /\ pass.pc # "rest"
  /\ crashes < MaxPassCrashes /\ crashes' = crashes + 1
  /\ pass' = Resting
  /\ UNCHANGED <<table, cutoff, rowVars>>

DayPasses ==
  /\ cutoff < MaxClock /\ cutoff' = cutoff + 1
  /\ UNCHANGED <<table, rowVars, pass, crashes>>

Clean ==
  PassBegins \/ ExpiredDone \/ (\E r \in Rows : RemoveFile(r))
    \/ DeleteRows \/ DeleteFails \/ OldestDone

CleanNext ==
  \/ \E r \in Rows : WriteFile(r) \/ AddRow(r) \/ DeleteByUser(r)
  \/ Clean \/ FindExpired \/ FindOldest
  \/ CrashPass \/ DayPasses

CleanSpec == CleanInit /\ [][CleanNext]_cleanVars

----------------------------------------------------------------------------
\* The table, the files and the pass keep their types.
CleanTypeOK ==
  /\ table \in {"recordings", "events"}
  /\ cutoff \in 0..MaxClock /\ crashes \in 0..MaxPassCrashes
  /\ rows \subseteq tried /\ tried \subseteq Rows
  /\ files \subseteq {FileOf(r) : r \in Rows} /\ excused \subseteq {FileOf(r) : r \in Rows}
  /\ pass.pc \in {"rest", "find", "remove", "oldest"} /\ pass.full \in BOOLEAN
  /\ pass.cut \in 0..MaxClock /\ pass.freed \in Nat
  /\ pass.batch \subseteq Rows /\ pass.todo \subseteq pass.batch /\ pass.begun \subseteq Rows

\* A file never outlives its rows, not even when the process ends in the middle
\* of a batch, unless it resisted its removal, its row was not stored, or a user
\* deleted that row; provided that the row's path finds the file, since one that is
\* not found counts as removed (batchDeleteRecordings, cleanupExpiredEvents).
CleanNoOrphans ==
  \A f \in files \ excused :
    RowsOf(f) \subseteq tried => RowsOf(f) \cap rows # {}

\* A row that is not expired is deleted only from a full disk, and only when no
\* older recording that was there when the pass began is left outside its batch,
\* whatever arrived meanwhile and whichever batch failed before (cleanupByDiskUsage).
CleanOldestFirst ==
  [][\A r \in (rows \ rows') \cap pass.batch :
       \/ StartOf[r] < pass.cut
       \/ \A o \in (rows' \cap pass.begun) \ pass.batch : StartOf[o] >= StartOf[r]]_cleanVars

\* What has expired is deleted in the end, also when files resist, batches fail
\* for a while and the process ends in the middle of one.
CleanExpiredGo ==
  \A r \in Rows : (r \in rows /\ StartOf[r] < cutoff) ~> r \notin rows
=============================================================================
