------------------------------ MODULE LevelDB ------------------------------
(***************************************************************************)
(* The database under Firestore's mutation queue: DBImpl and VersionSet of *)
(* the vendored leveldb.  Threads write batches through a queue whose head *)
(* logs for a group; a full memtable is flushed to a table file and tables *)
(* are merged by one background thread; MANIFEST names the files and the   *)
(* log that count.  The process or the machine may stop at any step, I/O   *)
(* may fail, and opening the database replays what is on disk.             *)
(*                                                                         *)
(* mutex_ is held between the points where the code unlocks it, so what a  *)
(* thread does from lock to unlock is one step.  A batch is a number, its  *)
(* entry the pair of its sequence number and itself; every batch writes    *)
(* keys of its own in a range all tables share, so merging drops nothing   *)
(* (LevelDBCompaction is about what it drops) and levels 1.. are one.      *)
(***************************************************************************)
EXTENDS Integers, Sequences, FiniteSets, FiniteSetsExt, SequencesExt

CONSTANTS
    Writers,        \* threads that call Write
    WriteBuffer,    \* entries of a full memtable: write_buffer_size
    MaxGroup,       \* batches of the largest group: max_size
    L0Compaction,   \* kL0_CompactionTrigger
    L0Stop,         \* kL0_StopWritesTrigger
    MaxBatches,     \* bounds: calls of Write,
    MaxStops,       \*   crashes and closes,
    MaxErrors       \*   and I/O errors

ASSUME TriggerAssumption ==
    /\ L0Compaction \in Nat \ {0} /\ L0Stop \in Nat
    /\ L0Compaction <= L0Stop
    /\ WriteBuffer \in Nat \ {0} /\ MaxGroup \in Nat \ {0}

VARIABLES
    logs,       \* *.log: records, how many of them are synced, a failed append
    tables,     \* *.ldb: the entries of each
    manifest,   \* what MANIFEST amounts to: files per level, log number, next
                \*   file number, last sequence
    damage,     \* a failed append to MANIFEST: "none", "torn", "corrupt"
    vs,         \* VersionSet: the same in memory
    db,         \* DBImpl: memtables, log in use, pending_outputs_, bg_error_, ...
    bg,         \* the background thread
    writers,    \* writers_
    writer,     \* the Write call of each thread
    calls,      \* bound and history: batches handed out, stops, I/O errors,
    promised,   \*   batches that must survive a crash of the process,
    synced      \*   and those that must survive one of the machine

diskVars == <<logs, tables, manifest, damage>>
memVars == <<vs, db, bg, writers, writer>>
vars == <<diskVars, memVars, calls, promised, synced>>

NewLog == [records |-> <<>>, synced |-> 0, torn |-> FALSE]

NoEdit == [add0 |-> {}, add1 |-> {}, del |-> {}, logNumber |-> 0, nextFile |-> 0, lastSequence |-> 0]

IdleBg == [flush |-> "none", flushOut |-> 0, merge |-> "none", mergeOut |-> 0,
           mergeIn |-> {}, edit |-> NoEdit]

\* imm_ is the set of the memtables it points to; recover is Recover's list of logs.
ClosedDb == [status |-> "closed", mem |-> {}, imm |-> {}, logfile |-> 0,
             recover |-> {}, pending |-> {}, bgError |-> FALSE, scheduled |-> FALSE, shutting |-> FALSE]

IdleWriter == [pc |-> "idle", batch |-> 0, sync |-> FALSE, group |-> 0]

\* NewDB: a manifest that names no file, and no log yet.
Init ==
    /\ logs = <<>>
    /\ tables = <<>>
    /\ manifest = [l0 |-> {}, l1 |-> {}, logNumber |-> 0, nextFile |-> 2, lastSequence |-> 0]
    /\ damage = "none"
    /\ vs = manifest
    /\ db = ClosedDb
    /\ bg = IdleBg
    /\ writers = <<>>
    /\ writer = [w \in Writers |-> IdleWriter]
    /\ calls = [batches |-> 0, stops |-> 0, errors |-> 0]
    /\ promised = {}
    /\ synced = {}

-----------------------------------------------------------------------------
(***************************************************************************)
(* Files.                                                                  *)
(***************************************************************************)
With(f, n, v) == [m \in DOMAIN f \cup {n} |-> IF m = n THEN v ELSE f[m]]
Only(f, S) == [m \in DOMAIN f \cap S |-> f[m]]

Files(v) == v.l0 \cup v.l1

\* The entries of a log record: SetSequence numbers a group from `first'.
Entries(r) == {<<r.first + i - 1, r.batches[i]>> : i \in DOMAIN r.batches}

EntriesOf(R) == UNION {Entries(r) : r \in R}

\* What log::Reader is certain to return: a record behind a failed append may lie
\* in a block that the reader drops.
Doubtful(R) == {r \in R : r.doubtful}
CertainEntries(records) == EntriesOf(ToSet(records) \ Doubtful(ToSet(records)))

\* What an open reads for certain if the process stops now.
LiveLogs == {n \in DOMAIN logs : n >= manifest.logNumber}
TableEntries == UNION {tables[f] : f \in Files(manifest) \cap DOMAIN tables}
Recoverable == TableEntries \cup UNION {CertainEntries(logs[n].records) : n \in LiveLogs}

\* The same if the machine stops: the synced part of each log.
MachineRecoverable ==
    TableEntries \cup
    UNION {CertainEntries(SubSeq(logs[n].records, 1, logs[n].synced)) : n \in LiveLogs}

Batches(E) == {e[2] : e \in E}

\* Builder::Apply and SaveTo, with the numbers of the edit.
Apply(v, e) ==
    [l0 |-> (v.l0 \ e.del) \cup e.add0, l1 |-> (v.l1 \ e.del) \cup e.add1,
     logNumber |-> e.logNumber, nextFile |-> e.nextFile, lastSequence |-> e.lastSequence]

\* LogAndApply's version of a successful edit; the counters of VersionSet are its own.
Install(v, e) == [Apply(v, e) EXCEPT !.nextFile = v.nextFile, !.lastSequence = v.lastSequence]

\* (Mutant: outputs being written are not kept.)
ObsoleteIgnoringPending(v, pending) ==
    /\ tables' = Only(tables, Files(v))
    /\ logs' = Only(logs, {n \in DOMAIN logs : n >= v.logNumber})

\* DeleteObsoleteFiles: only files of a version, outputs being written and logs
\* from log_number on are kept.
DeleteObsoleteFiles(v, pending) ==
    /\ tables' = Only(tables, Files(v) \cup pending)
    /\ logs' = Only(logs, {n \in DOMAIN logs : n >= v.logNumber})

-----------------------------------------------------------------------------
(***************************************************************************)
(* Waiting and scheduling.                                                 *)
(***************************************************************************)
\* (Mutant: nobody is signalled.)
SignalNobody == writer

\* bg_cv_.SignalAll: threads in MakeRoomForWrite look again.
SignalAll == [w \in Writers |->
    IF writer[w].pc = "waitBg" THEN [writer[w] EXCEPT !.pc = "front"] ELSE writer[w]]

\* MaybeScheduleCompaction, as the value of bg_compaction_scheduled_.
Scheduled(d, v) ==
    \/ d.scheduled
    \/ /\ ~d.shutting
       /\ ~d.bgError
       /\ d.imm # {} \/ Cardinality(v.l0) >= L0Compaction

MaybeSchedule(d, v) == [d EXCEPT !.scheduled = Scheduled(d, v)]

\* BackgroundCall returns: the thread may be scheduled again at once.
BackgroundDone(d, v) ==
    /\ bg' = IdleBg
    /\ db' = MaybeSchedule([d EXCEPT !.scheduled = FALSE], v)
    /\ writer' = SignalAll

IoError == calls.errors < MaxErrors /\ calls' = [calls EXCEPT !.errors = @ + 1]

\* RecordBackgroundError; the signal is part of the step that uses it.
Failed(d) == [d EXCEPT !.bgError = TRUE]

-----------------------------------------------------------------------------
(***************************************************************************)
(* Write.                                                                  *)
(***************************************************************************)
IsFront(w) == writers # <<>> /\ Head(writers) = w /\ writer[w].pc = "front"

\* A thread enters Write; unless it is the only one, it waits on its own condition.
Write(w, sync) ==
    /\ db.status = "open" /\ ~db.shutting
    /\ writer[w].pc = "idle"
    /\ calls.batches < MaxBatches
    /\ calls' = [calls EXCEPT !.batches = @ + 1]
    /\ writers' = Append(writers, w)
    /\ writer' = [writer EXCEPT ![w] =
                    [pc |-> IF writers = <<>> THEN "front" ELSE "asleep",
                     batch |-> calls.batches + 1, sync |-> sync, group |-> 0]]
    /\ UNCHANGED <<diskVars, vs, db, bg, promised, synced>>

\* (Mutant: a sync write joins the group of a write that does not sync.)
BuildBatchGroupAnySync ==
    Max({n \in 1..MaxGroup : n <= Len(writers)})

\* BuildBatchGroup: how many writers the head logs for.
BuildBatchGroup ==
    Max({n \in 1..MaxGroup :
           /\ n <= Len(writers)
           /\ \A i \in 2..n : writer[writers[i]].sync => writer[Head(writers)].sync})

\* The head has room and a group, and unlocks to log it.
Logging(w) == [writer EXCEPT ![w].pc = "logging", ![w].group = BuildBatchGroup]

\* (Mutant: the next writer is not woken.)
PopWritersOnly(n) ==
    /\ writers' = SubSeq(writers, n + 1, Len(writers))
    /\ writer' = [w \in Writers |-> IF \E i \in 1..n : writers[i] = w THEN IdleWriter
                                   ELSE writer[w]]

\* The first n writers return, and the next one is woken.
PopWriters(n) ==
    LET rest == SubSeq(writers, n + 1, Len(writers)) IN
    /\ writers' = rest
    /\ writer' = [w \in Writers |->
                    IF \E i \in 1..n : writers[i] = w THEN IdleWriter
                    ELSE IF rest # <<>> /\ w = Head(rest) THEN [writer[w] EXCEPT !.pc = "front"]
                    ELSE writer[w]]

MemFull == Cardinality(db.mem) >= WriteBuffer

\* MakeRoomForWrite: an earlier background error.
RoomError(w) ==
    /\ IsFront(w)
    /\ db.bgError
    /\ PopWriters(1)
    /\ UNCHANGED <<diskVars, vs, db, bg, calls, promised, synced>>

\* There is room. (The 1 ms by which a write is delayed when level 0 grows
\* changes nothing but the timing.)
RoomNow(w) ==
    /\ IsFront(w)
    /\ ~db.bgError
    /\ ~MemFull
    /\ writer' = Logging(w)
    /\ UNCHANGED <<diskVars, vs, db, bg, writers, calls, promised, synced>>

\* The previous memtable is still being flushed, or level 0 is full: bg_cv_.Wait().
RoomWait(w) ==
    /\ IsFront(w)
    /\ ~db.bgError
    /\ MemFull
    /\ db.imm # {} \/ Cardinality(vs.l0) >= L0Stop
    /\ writer' = [writer EXCEPT ![w].pc = "waitBg"]
    /\ UNCHANGED <<diskVars, vs, db, bg, writers, calls, promised, synced>>

MayRoll(w) ==
    /\ IsFront(w)
    /\ ~db.bgError
    /\ MemFull
    /\ db.imm = {}
    /\ Cardinality(vs.l0) < L0Stop

\* A new log and a new memtable; the old one becomes imm_.
RoomRoll(w) ==
    /\ MayRoll(w)
    /\ vs' = [vs EXCEPT !.nextFile = @ + 1]
    /\ logs' = With(logs, vs.nextFile, NewLog)
    /\ db' = MaybeSchedule([db EXCEPT !.mem = {}, !.imm = {db.mem}, !.logfile = vs.nextFile], vs)
    /\ writer' = Logging(w)
    /\ UNCHANGED <<tables, manifest, damage, bg, writers, calls, promised, synced>>

\* The new log cannot be created: ReuseFileNumber, and the write fails.
RoomRollFails(w) ==
    /\ MayRoll(w)
    /\ IoError
    /\ PopWriters(1)
    /\ UNCHANGED <<diskVars, vs, db, bg, promised, synced>>

\* The record of the group being logged.
Record(w) ==
    [first |-> vs.lastSequence + 1,
     batches |-> [i \in 1..writer[w].group |-> writer[writers[i]].batch],
     doubtful |-> logs[db.logfile].torn]

Group(w) == {writers[i] : i \in 1..writer[w].group}

\* AddRecord, Sync if the head asked for it, InsertInto, SetLastSequence; the
\* whole group returns OK. Behind a failed append nothing is promised.
Logged(w) ==
    LET r == Record(w)
        log == logs[db.logfile]
        count == Len(log.records) + 1 IN
    /\ writer[w].pc = "logging"
    /\ logs' = [logs EXCEPT ![db.logfile].records = Append(@, r),
                            ![db.logfile].synced = IF writer[w].sync THEN count ELSE @]
    /\ db' = [db EXCEPT !.mem = @ \cup Entries(r)]
    /\ vs' = [vs EXCEPT !.lastSequence = @ + writer[w].group]
    /\ IF r.doubtful THEN UNCHANGED <<promised, synced>>
       ELSE /\ promised' = promised \cup {writer[v].batch : v \in Group(w)}
            /\ synced' = synced \cup {writer[v].batch : v \in {u \in Group(w) : writer[u].sync}}
    /\ PopWriters(writer[w].group)
    /\ UNCHANGED <<tables, manifest, damage, bg, calls>>

\* (Mutant: the sequence numbers of a failed write are used again.)
LogFailsKeepingSequence(w) ==
    /\ writer[w].pc = "logging"
    /\ IoError
    /\ \E whole \in {<<>>, <<[Record(w) EXCEPT !.doubtful = TRUE]>>} :
         logs' = [logs EXCEPT ![db.logfile].records = @ \o whole,
                              ![db.logfile].torn = TRUE]
    /\ PopWriters(writer[w].group)
    /\ UNCHANGED <<tables, manifest, damage, vs, db, bg, promised, synced>>

\* AddRecord fails: any part of the record may be in the file, the group gets the
\* error, its sequence numbers are used up, and the database goes on.
LogFails(w) ==
    /\ writer[w].pc = "logging"
    /\ IoError
    /\ \E whole \in {<<>>, <<[Record(w) EXCEPT !.doubtful = TRUE]>>} :
         logs' = [logs EXCEPT ![db.logfile].records = @ \o whole,
                              ![db.logfile].torn = TRUE]
    /\ vs' = [vs EXCEPT !.lastSequence = @ + writer[w].group]
    /\ PopWriters(writer[w].group)
    /\ UNCHANGED <<tables, manifest, damage, db, bg, promised, synced>>

\* Sync fails: the record is there and not applied; RecordBackgroundError makes
\* all later writes fail (nobody waits on bg_cv_ while the head logs).
SyncFails(w) ==
    /\ writer[w].pc = "logging"
    /\ writer[w].sync
    /\ IoError
    /\ logs' = [logs EXCEPT ![db.logfile].records = Append(@, Record(w))]
    /\ vs' = [vs EXCEPT !.lastSequence = @ + writer[w].group]
    /\ db' = Failed(db)
    /\ PopWriters(writer[w].group)
    /\ UNCHANGED <<tables, manifest, damage, bg, promised, synced>>

-----------------------------------------------------------------------------
(***************************************************************************)
(* The background thread: BackgroundCall.                                  *)
(***************************************************************************)
BgIdle == bg.flush = "none" /\ bg.merge = "none"

\* Shutting down, or after an error: nothing is done.
BackgroundNothing ==
    /\ db.scheduled /\ BgIdle
    /\ db.shutting \/ db.bgError
    /\ BackgroundDone(db, vs)
    /\ UNCHANGED <<diskVars, vs, writers, calls, promised, synced>>

\* CompactMemTable begins, first thing or between two keys of a merge:
\* WriteLevel0Table takes a file number and unlocks to build the table.
FlushBegins ==
    /\ db.scheduled
    /\ bg.flush = "none"
    /\ ~db.shutting
    /\ \/ bg.merge = "none" /\ ~db.bgError
       \/ bg.merge \in {"build", "built"}
    /\ db.imm # {}
    /\ vs' = [vs EXCEPT !.nextFile = @ + 1]
    /\ bg' = [bg EXCEPT !.flush = "build", !.flushOut = vs.nextFile]
    /\ db' = [db EXCEPT !.pending = @ \cup {vs.nextFile}]
    /\ UNCHANGED <<diskVars, writers, writer, calls, promised, synced>>

\* The background thread goes on after a flush: back to the merge, or done.
AfterFlush(d, v) ==
    \/ bg.merge = "none" /\ BackgroundDone(d, v)
    \/ /\ bg.merge # "none"
       /\ bg' = [bg EXCEPT !.flush = "none"]
       /\ db' = d
       /\ writer' = SignalAll

Unpend(n) == [db EXCEPT !.pending = @ \ {n}]

\* PickLevelForMemTableOutput: all ranges overlap, so below level 0 only in an
\* empty database.
FlushEdit ==
    LET base == Files(vs) = {} IN
    [NoEdit EXCEPT !.add0 = IF base THEN {} ELSE {bg.flushOut},
                   !.add1 = IF base THEN {bg.flushOut} ELSE {},
                   !.logNumber = db.logfile,
                   !.nextFile = vs.nextFile,
                   !.lastSequence = vs.lastSequence]

\* BuildTable has written and synced the table; LogAndApply begins and unlocks.
FlushBuilt ==
    /\ bg.flush = "build"
    /\ ~db.shutting
    /\ tables' = With(tables, bg.flushOut, UNION db.imm)
    /\ db' = Unpend(bg.flushOut)
    /\ bg' = [bg EXCEPT !.flush = "install", !.edit = FlushEdit]
    /\ UNCHANGED <<logs, manifest, damage, vs, writers, writer, calls, promised, synced>>

\* The table is built but the database is being closed.
FlushAborted ==
    /\ bg.flush = "build"
    /\ db.shutting
    /\ tables' = With(tables, bg.flushOut, UNION db.imm)
    /\ AfterFlush(Failed(Unpend(bg.flushOut)), vs)
    /\ UNCHANGED <<logs, manifest, damage, vs, writers, calls, promised, synced>>

\* BuildTable fails and has deleted its file.
FlushFails ==
    /\ bg.flush = "build"
    /\ IoError
    /\ AfterFlush(Failed(Unpend(bg.flushOut)), vs)
    /\ UNCHANGED <<diskVars, vs, writers, promised, synced>>

\* An edit reaches MANIFEST. Behind a torn record it makes the file unreadable,
\* and with it the whole database.
EditWritten ==
    /\ manifest' = Apply(manifest, bg.edit)
    /\ damage' = IF damage = "none" THEN "none" ELSE "corrupt"
    /\ IF damage = "none" THEN UNCHANGED <<promised, synced>>
       ELSE promised' = {} /\ synced' = {}

\* LogAndApply fails: the record is not there, is there whole, or in part.
EditFails ==
    /\ IoError
    /\ \/ UNCHANGED <<manifest, damage, promised, synced>>
       \/ EditWritten
       \/ /\ damage' = IF damage = "none" THEN "torn" ELSE "corrupt"
          /\ IF damage = "none" THEN UNCHANGED <<promised, synced>>
             ELSE promised' = {} /\ synced' = {}
          /\ UNCHANGED manifest

\* LogAndApply succeeds: the version is installed, imm_ dropped, and files that
\* no longer count are deleted.
FlushInstalled ==
    LET v == Install(vs, bg.edit) IN
    /\ bg.flush = "install"
    /\ EditWritten
    /\ vs' = v
    /\ AfterFlush([db EXCEPT !.imm = {}], v)
    /\ IF db.bgError THEN UNCHANGED <<logs, tables>> ELSE DeleteObsoleteFiles(v, db.pending)
    /\ UNCHANGED <<writers, calls>>

FlushInstallFails ==
    /\ bg.flush = "install"
    /\ EditFails
    /\ AfterFlush(Failed(db), vs)
    /\ UNCHANGED <<logs, tables, vs, writers>>

\* PickCompaction takes all overlapping files; DoCompactionWork opens its first
\* output and unlocks.
MergeBegins ==
    /\ db.scheduled /\ BgIdle
    /\ ~db.shutting /\ ~db.bgError
    /\ db.imm = {}
    /\ Cardinality(vs.l0) >= L0Compaction
    /\ vs' = [vs EXCEPT !.nextFile = @ + 1]
    /\ bg' = [bg EXCEPT !.merge = "build", !.mergeOut = vs.nextFile, !.mergeIn = Files(vs)]
    /\ db' = [db EXCEPT !.pending = @ \cup {vs.nextFile}]
    /\ tables' = With(tables, vs.nextFile, {})
    /\ UNCHANGED <<logs, manifest, damage, writers, writer, calls, promised, synced>>

\* FinishCompactionOutputFile: written, synced, and read back through the cache.
MergeBuilt ==
    /\ bg.merge = "build" /\ bg.flush = "none"
    /\ ~db.shutting
    /\ bg.mergeOut \in DOMAIN tables
    /\ tables' = [tables EXCEPT ![bg.mergeOut] = UNION {tables[f] : f \in bg.mergeIn}]
    /\ bg' = [bg EXCEPT !.merge = "built"]
    /\ UNCHANGED <<logs, manifest, damage, vs, db, writers, writer, calls, promised, synced>>

\* (Mutant: the edit of a merge records the log in use.)
MergeInstallsNewLog ==
    /\ bg.merge = "built" /\ bg.flush = "none"
    /\ ~db.shutting
    /\ bg' = [bg EXCEPT !.merge = "install",
                        !.edit = [NoEdit EXCEPT !.add1 = {bg.mergeOut}, !.del = bg.mergeIn,
                                                !.logNumber = db.logfile,
                                                !.nextFile = vs.nextFile,
                                                !.lastSequence = vs.lastSequence]]
    /\ UNCHANGED <<diskVars, vs, db, writers, writer, calls, promised, synced>>

\* InstallCompactionResults: AddInputDeletions, AddFile, LogAndApply, which unlocks.
MergeInstalls ==
    /\ bg.merge = "built" /\ bg.flush = "none"
    /\ ~db.shutting
    /\ bg' = [bg EXCEPT !.merge = "install",
                        !.edit = [NoEdit EXCEPT !.add1 = {bg.mergeOut}, !.del = bg.mergeIn,
                                                !.logNumber = vs.logNumber,
                                                !.nextFile = vs.nextFile,
                                                !.lastSequence = vs.lastSequence]]
    /\ UNCHANGED <<diskVars, vs, db, writers, writer, calls, promised, synced>>

\* CleanupCompaction, DeleteObsoleteFiles (which does nothing after an error).
MergeInstalled ==
    LET v == Install(vs, bg.edit)
        d == Unpend(bg.mergeOut) IN
    /\ bg.merge = "install"
    /\ EditWritten
    /\ vs' = v
    /\ BackgroundDone(d, v)
    /\ IF db.bgError THEN UNCHANGED <<logs, tables>> ELSE DeleteObsoleteFiles(v, d.pending)
    /\ UNCHANGED <<writers, calls>>

MergeInstallFails ==
    /\ bg.merge = "install"
    /\ EditFails
    /\ BackgroundDone(Failed(Unpend(bg.mergeOut)), vs)
    /\ UNCHANGED <<logs, tables, vs, writers>>

\* An output cannot be written, or the database is being closed.
MergeFails ==
    /\ bg.merge \in {"build", "built"} /\ bg.flush = "none"
    /\ \/ db.shutting /\ UNCHANGED calls
       \/ ~db.shutting /\ IoError
    /\ BackgroundDone(Failed(Unpend(bg.mergeOut)), vs)
    /\ UNCHANGED <<diskVars, vs, writers, promised, synced>>

-----------------------------------------------------------------------------
(***************************************************************************)
(* Stopping and opening.                                                   *)
(***************************************************************************)
Stopped ==
    /\ db' = ClosedDb
    /\ bg' = IdleBg
    /\ writers' = <<>>
    /\ writer' = [w \in Writers |-> IdleWriter]
    /\ UNCHANGED <<tables, vs>>

\* What the steps under way may have left on disk: the group being logged, and
\* the edit being recorded, are there or not.
MaybeLogged ==
    {logs} \cup {[logs EXCEPT ![db.logfile].records = Append(@, Record(w))] :
                   w \in {v \in Writers : writer[v].pc = "logging"}}

MaybeEdited ==
    \/ UNCHANGED <<manifest, damage>>
    \/ /\ bg.flush = "install" \/ bg.merge = "install"
       /\ manifest' = Apply(manifest, bg.edit)
       /\ damage' = IF damage = "none" THEN "none" ELSE "corrupt"
    \/ /\ db.status = "opening"
       /\ manifest' = Apply(manifest, bg.edit)
       /\ damage' = "none"

\* A database whose MANIFEST has become unreadable promises nothing.
Unreadable(S) == IF damage' = "corrupt" THEN {} ELSE S

MayStop == calls.stops < MaxStops /\ calls' = [calls EXCEPT !.stops = @ + 1]

CrashStep ==
    /\ db.status # "closed"
    /\ MayStop
    /\ MaybeEdited
    /\ Stopped

\* The process dies; what it has written to files stays.
ProcessCrash ==
    /\ CrashStep
    /\ logs' \in MaybeLogged
    /\ promised' = Unreadable(promised)
    /\ synced' = Unreadable(synced)

\* The machine goes down: each log keeps what was synced and any further records
\* up to some point (each file on its own). Tables are synced before they count.
MachineCrash ==
    /\ CrashStep
    /\ \E l \in MaybeLogged, cut \in [DOMAIN logs -> 0..MaxBatches] :
        /\ \A n \in DOMAIN l : cut[n] \in l[n].synced..Len(l[n].records)
        /\ logs' = [n \in DOMAIN l |-> [l[n] EXCEPT !.records = SubSeq(@, 1, cut[n]),
                                                    !.synced = cut[n]]]
    /\ promised' = Unreadable(synced \cup (promised \cap Batches(TableEntries)))
    /\ synced' = Unreadable(synced)

\* VersionSet::Recover: what MANIFEST says; a number is taken for the next MANIFEST.
VersionRecovered == [manifest EXCEPT !.nextFile = @ + 1]

\* DB::Open begins: MANIFEST is read, and the logs that count are listed.
Open ==
    /\ db.status = "closed"
    /\ damage # "corrupt"
    /\ Files(manifest) \subseteq DOMAIN tables
    /\ vs' = VersionRecovered
    /\ db' = [ClosedDb EXCEPT !.status = "recovering", !.recover = LiveLogs]
    /\ UNCHANGED <<diskVars, bg, writers, writer, calls, promised, synced>>

\* RecoverLogFile on the oldest log left, and MarkFileNumberUsed: if it has entries,
\* they become a table of level 0.
RecoverLogFile(n, entries) ==
    LET used == IF entries = {} THEN vs.nextFile ELSE vs.nextFile + 1 IN
    /\ db.status = "recovering"
    /\ n \in db.recover /\ \A m \in db.recover : n <= m
    /\ vs' = [vs EXCEPT !.nextFile = IF used <= n THEN n + 1 ELSE used,
                        !.lastSequence = Max({@} \cup {e[1] : e \in entries})]
    /\ IF entries = {} THEN UNCHANGED <<tables, bg>>
       ELSE /\ tables' = With(tables, vs.nextFile, entries)
            /\ bg' = [bg EXCEPT !.edit.add0 = @ \cup {vs.nextFile}]
    /\ db' = [db EXCEPT !.recover = @ \ {n}]
    /\ UNCHANGED <<logs, manifest, damage, writers, writer>>

LogRead(n) ==
    /\ \E dropped \in SUBSET Doubtful(ToSet(logs[n].records)) :
         RecoverLogFile(n, EntriesOf(ToSet(logs[n].records) \ dropped))
    /\ UNCHANGED <<calls, promised, synced>>

\* An error on opening a log is ignored, as if the log were empty (paranoid_checks
\* is off).
LogUnreadable(n) ==
    LET gone == Batches(EntriesOf(ToSet(logs[n].records))) IN
    /\ RecoverLogFile(n, {})
    /\ IoError
    /\ promised' = promised \ gone
    /\ synced' = synced \ gone

\* All logs are read: a new one is created, and the LogAndApply that starts a new
\* MANIFEST begins.
LogCreated ==
    /\ db.status = "recovering"
    /\ db.recover = {}
    /\ logs' = With(logs, vs.nextFile, NewLog)
    /\ vs' = [vs EXCEPT !.nextFile = @ + 1]
    /\ db' = [db EXCEPT !.status = "opening", !.logfile = vs.nextFile]
    /\ bg' = [bg EXCEPT !.edit.logNumber = vs.nextFile, !.edit.nextFile = vs.nextFile + 1,
                        !.edit.lastSequence = vs.lastSequence]
    /\ UNCHANGED <<tables, manifest, damage, writers, writer, calls, promised, synced>>

\* The new MANIFEST is synced and CURRENT renamed to it.
OpenInstalled ==
    LET v == Install(vs, bg.edit) IN
    /\ db.status = "opening"
    /\ manifest' = Apply(manifest, bg.edit)
    /\ damage' = "none"
    /\ vs' = v
    /\ db' = MaybeSchedule([db EXCEPT !.status = "open"], v)
    /\ bg' = IdleBg
    /\ DeleteObsoleteFiles(v, {})
    /\ UNCHANGED <<writers, writer, calls, promised, synced>>

\* A table, the log or MANIFEST cannot be written; the old MANIFEST stays in force.
OpenFails ==
    /\ db.status \in {"recovering", "opening"}
    /\ IoError
    /\ Stopped
    /\ UNCHANGED <<logs, manifest, damage, promised, synced>>

\* ~DBImpl, which no caller may race with a write.
Close ==
    /\ db.status = "open" /\ ~db.shutting
    /\ writers = <<>>
    /\ MayStop
    /\ db' = [db EXCEPT !.shutting = TRUE]
    /\ UNCHANGED <<diskVars, vs, bg, writers, writer, promised, synced>>

\* Background work is over.
Closed ==
    /\ db.shutting
    /\ ~db.scheduled
    /\ Stopped
    /\ UNCHANGED <<logs, manifest, damage, calls, promised, synced>>

WriterStep(w) ==
    \/ RoomError(w) \/ RoomNow(w) \/ RoomWait(w) \/ RoomRoll(w) \/ RoomRollFails(w)
    \/ Logged(w) \/ LogFails(w) \/ SyncFails(w)

BackgroundStep ==
    \/ BackgroundNothing
    \/ FlushBegins \/ FlushBuilt \/ FlushAborted \/ FlushFails
    \/ FlushInstalled \/ FlushInstallFails
    \/ MergeBegins \/ MergeBuilt \/ MergeInstalls \/ MergeInstalled
    \/ MergeInstallFails \/ MergeFails

Next ==
    \/ \E w \in Writers : (\E sync \in BOOLEAN : Write(w, sync)) \/ WriterStep(w)
    \/ BackgroundStep
    \/ ProcessCrash \/ MachineCrash
    \/ Open \/ (\E n \in db.recover : LogRead(n) \/ LogUnreadable(n)) \/ LogCreated
    \/ OpenInstalled \/ OpenFails
    \/ Close \/ Closed

Spec == Init /\ [][Next]_vars

\* Threads run, and I/O ends one way or the other.
Fairness == (\A w \in Writers : WF_vars(WriterStep(w))) /\ WF_vars(BackgroundStep)

FairSpec == Spec /\ Fairness

-----------------------------------------------------------------------------
(***************************************************************************)
(* Properties.                                                             *)
(***************************************************************************)
LevelTypeOK ==
    /\ DOMAIN logs \subseteq Nat /\ DOMAIN tables \subseteq Nat
    /\ db.status \in {"closed", "recovering", "opening", "open"}
    /\ \A w \in Writers : writer[w].pc \in {"idle", "asleep", "front", "waitBg", "logging"}
    /\ \A i \in DOMAIN writers : (writer[writers[i]].pc = "asleep") <=> (i > 1)
    /\ synced \subseteq promised /\ promised \subseteq 1..calls.batches

\* "if it is just the process that crashes (i.e., the machine does not reboot), no
\* writes will be lost even if sync==false" (options.h): whatever step the process
\* dies at, an open finds every write that was acknowledged. Not promised are
\* writes logged behind a failed append (the reader may drop the block), writes
\* in a log that an open cannot read (the error is ignored and the log deleted),
\* and a database whose MANIFEST got a record behind a torn one.
AcknowledgedSurvive == promised \subseteq Batches(Recoverable)

\* A write with sync set that was acknowledged survives the machine, too, whoever
\* logged it.
SyncedSurvive == synced \subseteq Batches(MachineRecoverable)

AllEntries ==
    TableEntries \cup (UNION {EntriesOf(ToSet(logs[n].records)) : n \in LiveLogs})
       \cup db.mem \cup (UNION db.imm)

\* A sequence number names one batch, over crashes, failed writes and replays,
\* and none in use is above LastSequence when the next group is numbered.
SequencesFresh ==
    /\ \A d, e \in AllEntries : d[1] = e[1] => d = e
    /\ db.status = "open" => \A e \in AllEntries : e[1] <= vs.lastSequence

\* Tables that a version names, on disk or in memory, are not deleted: no open
\* ends with "missing files", no read and no merge misses its input.
NamedTablesExist ==
    /\ Files(manifest) \subseteq DOMAIN tables
    /\ db.status = "open" => Files(vs) \cup bg.mergeIn \subseteq DOMAIN tables

\* A call of Write returns: the head of the queue gets room or an error, whoever
\* it logs for is told, and the next one is woken.
WritesReturn == \A w \in Writers : writer[w].pc # "idle" ~> writer[w].pc = "idle"
=============================================================================
