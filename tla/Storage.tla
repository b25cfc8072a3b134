------------------------------- MODULE Storage -------------------------------
(***************************************************************************)
(* The database connection and its two spin locks.                         *)
(*                                                                         *)
(* storage_manager.c opens the database on demand (storage_getDBC) and     *)
(* closes it after a quiet time (storage_trySync2Disk), both under its own *)
(* lock, gLock.  db_ctrl.c has one connection and one statement under a    *)
(* second lock, dLock, which dbc_execSelectSQL takes and only              *)
(* dbc_endSelectSQL gives back: the caller owns it while it reads rows.    *)
(* Several threads call, and the guards before the locks are taken are     *)
(* read without them.                                                      *)
(*                                                                         *)
(* The many queries and inserts of storage_manager.c are of five shapes:   *)
(*   read    one select, e.g. storage_getCoinsCount                        *)
(*   rows    a select that calls storage_getDBC again for every row        *)
(*   write   an insert through a prepared statement                        *)
(*   exec    dbc_executeSQL on its own, e.g. storage_deleteCoinInfo        *)
(*   client  storage_getClientInfo, with its one-entry cache               *)
(* and three closing ones: sync, trySync and clean.                        *)
(***************************************************************************)
EXTENDS Naturals

CONSTANTS
  Threads,   \* the threads that call
  Free,      \* owner of a lock nobody holds
  CallsOf,   \* for every thread, the calls it may make
  Faults,    \* TRUE: a file may not open, a table, a row or an encoding fail
  MaxCalls,  \* bound on the number of calls
  MaxRows,   \* bound on the rows of a list
  MaxGen,    \* bound on the database files created when one does not open
  MaxCrash   \* bound on the number of power losses

Queries == {"read", "rows", "write", "exec", "client"}
Closers == {"sync", "trySync", "clean"}

ASSUME ConstantsAssumption ==
  /\ Free \notin Threads
  /\ CallsOf \in [Threads -> SUBSET (Queries \cup Closers)]
  /\ Faults \in BOOLEAN
  /\ MaxCalls \in Nat /\ MaxRows \in Nat /\ MaxGen \in Nat /\ MaxCrash \in Nat

VARIABLES
  gLock, dLock,   \* owners of G_lock of storage_manager.c and of db_ctrl.c
  inited,         \* mDBInited
  wclock,         \* mWriteClock: "none", "fresh", or "old" after 3 seconds
  conn,           \* mSQLCon: 0, or the number of the file it was opened on
  handles,        \* connections SQLite has open, reachable or not
  stmt,           \* mSqlstmt: the thread that prepared it, or Free
  cache,          \* mClientCache: the file its entry was read from, or 0
  late,           \* observation: it was filled after that file had been closed
  gen, exists,    \* number of the current database file, and is it there
  tables,         \* its tables: "none", "some" or "all"
  cut,            \* observation: making them was broken off
  pc, call,       \* per thread: where it is, and in which call
  back,           \* where storage_getDBC returns to
  how,            \* storage_init: "old" file, "new" one, or open "again"
  seen,           \* the file a client row was read from, not yet cached
  fetched,        \* rows a list has fetched
  dirty,          \* observation: how rows were written on the open connection
  lost,           \* observation: a call returned with dLock held
  calls, crashes  \* counted by the bounds

locks  == <<gLock, dLock>>
dbase  == <<gen, exists, tables, cut>>
client == <<cache, late>>
state  == <<inited, wclock, client>>
link   == <<conn, handles, dirty>>
heap   == <<seen, fetched>>
history == <<lost, calls, crashes>>
vars == <<locks, dbase, state, link, stmt, pc, call, back, how, heap, history>>

Goto(t, l) == pc' = [pc EXCEPT ![t] = l]

-----------------------------------------------------------------------------
(* db_ctrl.c.                                                              *)

\* The part of dbc_close between LOCK and UNLOCK.
CloseConn ==
  /\ handles' = handles - (IF conn = 0 THEN 0 ELSE 1)
  /\ conn' = 0
  /\ stmt' = Free
  /\ dirty' = {}

\* Mutant of DbcClose: the connection is closed without the lock.
DbcCloseNoLock(t) == CloseConn

DbcClose(t) == dLock = Free /\ CloseConn

\* dbc_open: the pointer is cleared before the lock is taken.
OpenClear(t) ==
  /\ pc[t] = "open"
  /\ conn' = 0
  /\ Goto(t, "openClose")
  /\ UNCHANGED <<locks, dbase, state, handles, dirty, stmt, call, back, how,
                 heap, history>>

OpenClose(t) ==
  /\ pc[t] = "openClose"
  /\ DbcClose(t)
  /\ Goto(t, "openCon")
  /\ UNCHANGED <<locks, dbase, state, call, back, how, heap, history>>

OpenCon(t) ==
  /\ pc[t] = "openCon"
  /\ conn' = gen
  /\ handles' = handles + 1
  /\ exists' = TRUE
  /\ Goto(t, "pragma")
  /\ UNCHANGED <<locks, gen, tables, cut, state, dirty, stmt, call, back, how,
                 heap, history>>

\* unlink of DB_PATH: the next opening makes another file.
NewFile == gen' = gen + 1 /\ exists' = FALSE /\ tables' = "none" /\ cut' = FALSE

\* Mutants of OpenFails: reinit is not set for the new file; the lock is kept
\* when the second attempt fails.
OpenFailsNoReinit(t) ==
  /\ Faults
  /\ pc[t] = "openCon"
  /\ how[t] = "new" /\ gen < MaxGen
  /\ NewFile
  /\ how' = [how EXCEPT ![t] = "old"]
  /\ Goto(t, "open")
  /\ UNCHANGED <<locks, state, link, stmt, call, back, heap, history>>

OpenFailsKeepsLock(t) ==
  /\ Faults
  /\ pc[t] = "openCon"
  /\ Goto(t, "idle")
  /\ UNCHANGED <<locks, dbase, state, link, stmt, call, back, how, heap, history>>

\* The file does not open: storage_init deletes it and tries once more; then
\* storage_getDBC returns NULL, which ends the call, or skips the row.
OpenFails(t) ==
  /\ Faults
  /\ pc[t] = "openCon"
  /\ \/ /\ how[t] = "again"
        /\ gLock' = Free
        /\ Goto(t, IF back[t] = "step" THEN "step" ELSE "idle")
        /\ UNCHANGED <<dbase, how>>
     \/ /\ how[t] # "again" /\ gen < MaxGen
        /\ NewFile
        /\ how' = [how EXCEPT ![t] = "again"]
        /\ Goto(t, "open")
        /\ UNCHANGED gLock
  /\ UNCHANGED <<dLock, state, link, stmt, call, back, heap, history>>

SelectCheck(t) ==
  /\ pc[t] = "select"
  /\ Goto(t, IF conn = 0 THEN "idle" ELSE "selectLock")
  /\ UNCHANGED <<locks, dbase, state, link, stmt, call, back, how, heap, history>>

\* dbc_execSelectSQL behind LOCK.  A connection closed in the meantime makes
\* it return with the lock held; a statement that does not compile gives the
\* lock back.
SelectLock(t) ==
  /\ pc[t] = "selectLock"
  /\ dLock = Free
  /\ \/ /\ conn = 0
        /\ dLock' = t /\ lost' = TRUE
        /\ Goto(t, "idle")
        /\ UNCHANGED stmt
     \/ /\ conn # 0 /\ tables # "none"
        /\ dLock' = t /\ stmt' = t
        /\ Goto(t, "step")
        /\ UNCHANGED lost
     \/ /\ conn # 0 /\ tables # "all"
        /\ Goto(t, "idle")
        /\ UNCHANGED <<dLock, stmt, lost>>
  /\ UNCHANGED <<gLock, dbase, state, link, call, back, how, heap, calls, crashes>>

\* Mutant of EndSelect: no UNLOCK.
EndSelectNoUnlock(t) ==
  /\ pc[t] = "end"
  /\ stmt' = Free
  /\ Goto(t, "idle")
  /\ UNCHANGED <<locks, dbase, state, link, call, back, how, heap, history>>

\* dbc_endSelectSQL.
EndSelect(t) ==
  /\ pc[t] = "end"
  /\ stmt' = Free
  /\ dLock' = Free
  /\ Goto(t, CASE call[t] = "write" -> "clock"
               [] call[t] = "client" /\ seen[t] # 0 -> "cacheSet"
               [] OTHER -> "idle")
  /\ UNCHANGED <<gLock, dbase, state, link, call, back, how, heap, history>>

ExecCheck(t) ==
  /\ pc[t] = "exec"
  /\ Goto(t, IF conn = 0 THEN "idle" ELSE "execLock")
  /\ UNCHANGED <<locks, dbase, state, link, stmt, call, back, how, heap, history>>

\* dbc_executeSQL behind LOCK: rows are deleted or changed, if there are any.
\* No caller sets the write clock.
ExecLock(t) ==
  /\ pc[t] = "execLock"
  /\ dLock = Free
  /\ dirty' \in {dirty} \cup (IF conn = 0 THEN {} ELSE {dirty \cup {"executed"}})
  /\ Goto(t, "idle")
  /\ UNCHANGED <<locks, dbase, state, conn, handles, stmt, call, back, how, heap,
                 history>>

-----------------------------------------------------------------------------
(* storage_manager.c: opening.                                             *)

\* Where a call goes on once it has the connection.
AfterGetDBC(k) ==
  CASE k = "exec"   -> "exec"
    [] k = "client" -> "cache"
    [] OTHER        -> "select"

\* storage_getDBC: "step" is the row loop of a select, which holds dLock.
GetDBC(t) ==
  /\ pc[t] \in {"getDBC", "fetchDBC"}
  /\ gLock = Free
  /\ LET next == IF pc[t] = "fetchDBC" THEN "step" ELSE AfterGetDBC(call[t]) IN
     IF inited
       THEN Goto(t, next) /\ UNCHANGED <<gLock, wclock, back, how>>
       ELSE /\ gLock' = t
            /\ wclock' = "none"
            /\ back' = [back EXCEPT ![t] = next]
            /\ how' = [how EXCEPT ![t] = IF exists THEN "old" ELSE "new"]
            /\ Goto(t, "open")
  /\ UNCHANGED <<dLock, dbase, inited, client, link, stmt, call, heap, history>>

\* The PRAGMA of storage_dbOpen, then storage_dbInit for a new file.
Pragma(t) ==
  /\ pc[t] = "pragma"
  /\ dLock = Free
  /\ Goto(t, IF how[t] = "old" THEN "inited" ELSE "table")
  /\ UNCHANGED <<locks, dbase, state, link, stmt, call, back, how, heap, history>>

CreateTable(t) ==
  /\ pc[t] = "table"
  /\ dLock = Free
  /\ tables' = IF tables = "none" THEN "some" ELSE "all"
  /\ Goto(t, IF tables = "none" THEN "table" ELSE "inited")
  /\ UNCHANGED <<locks, gen, exists, cut, state, link, stmt, call, back, how, heap,
                 history>>

\* storage_dbInit returns at the first CREATE TABLE that fails; storage_init
\* ignores it and takes the database for opened.
CreateFails(t) ==
  /\ Faults
  /\ pc[t] = "table"
  /\ dLock = Free
  /\ cut' = TRUE
  /\ Goto(t, "inited")
  /\ UNCHANGED <<locks, gen, exists, tables, state, link, stmt, call, back, how,
                 heap, history>>

Inited(t) ==
  /\ pc[t] = "inited"
  /\ inited' = TRUE
  /\ gLock' = Free
  /\ Goto(t, back[t])
  /\ UNCHANGED <<dLock, dbase, wclock, client, link, stmt, call, back, how, heap,
                 history>>

-----------------------------------------------------------------------------
(* The calls.                                                              *)

Start(t) ==
  /\ pc[t] = "idle"
  /\ \E k \in CallsOf[t] \ {"trySync"} :
       /\ call' = [call EXCEPT ![t] = k]
       /\ Goto(t, IF k \in Queries THEN "getDBC"
                   ELSE IF k = "clean" THEN "cleanLock" ELSE "sync")
  /\ calls < MaxCalls /\ calls' = calls + 1
  /\ seen' = [seen EXCEPT ![t] = 0]
  /\ fetched' = [fetched EXCEPT ![t] = 0]
  /\ UNCHANGED <<locks, dbase, state, link, stmt, back, how, lost, crashes>>

\* storage_trySync2Disk, once a second from shutdownLoop.
TrySync(t) ==
  /\ pc[t] = "idle"
  /\ "trySync" \in CallsOf[t]
  /\ wclock = "old"
  /\ call' = [call EXCEPT ![t] = "trySync"]
  /\ Goto(t, "sync")
  /\ UNCHANGED <<locks, dbase, state, link, stmt, back, how, heap, history>>

\* A row of a list: it is read by a function that calls storage_getDBC first.
FetchRow(t) ==
  /\ pc[t] = "step"
  /\ call[t] = "rows" /\ fetched[t] < MaxRows
  /\ fetched' = [fetched EXCEPT ![t] = @ + 1]
  /\ Goto(t, "fetchDBC")
  /\ UNCHANGED <<locks, dbase, state, link, stmt, call, back, how, seen, history>>

\* The one row of a count, or the end of a list.
LastRow(t) ==
  /\ pc[t] = "step"
  /\ call[t] \in {"rows", "read"}
  /\ Goto(t, "end")
  /\ UNCHANGED <<locks, dbase, state, link, stmt, call, back, how, heap, history>>

\* The client is in the table, or is not.
ClientRow(t) ==
  /\ pc[t] = "step"
  /\ call[t] = "client"
  /\ \E s \in {0, conn} : seen' = [seen EXCEPT ![t] = s]
  /\ Goto(t, "end")
  /\ UNCHANGED <<locks, dbase, state, link, stmt, call, back, how, fetched,
                 history>>

InsertRow(t) ==
  /\ pc[t] = "step"
  /\ call[t] = "write"
  /\ dirty' = dirty \cup {"inserted"}
  /\ Goto(t, "end")
  /\ UNCHANGED <<locks, dbase, state, conn, handles, stmt, call, back, how, heap,
                 history>>

\* dbc_execStmt fails: it gives the statement back, and the caller returns
\* before it notes the time.
InsertFails(t) ==
  /\ Faults
  /\ pc[t] = "step"
  /\ call[t] = "write"
  /\ stmt' = Free
  /\ dLock' = Free
  /\ Goto(t, "idle")
  /\ UNCHANGED <<gLock, dbase, state, link, call, back, how, heap, history>>

\* A value that cannot be encoded: the function returns with the statement
\* prepared and the lock held.
EncodeFails(t) ==
  /\ Faults
  /\ pc[t] = "step"
  /\ call[t] = "write"
  /\ lost' = TRUE
  /\ Goto(t, "idle")
  /\ UNCHANGED <<locks, dbase, state, link, stmt, call, back, how, heap, calls,
                 crashes>>

\* Mutant of WriteClock: the time of the write is not noted.
WriteClockMissing(t) ==
  /\ pc[t] = "clock"
  /\ Goto(t, "idle")
  /\ UNCHANGED <<locks, dbase, state, link, stmt, call, back, how, heap, history>>

WriteClock(t) ==
  /\ pc[t] = "clock"
  /\ wclock' = "fresh"
  /\ Goto(t, "idle")
  /\ UNCHANGED <<locks, dbase, inited, client, link, stmt, call, back, how, heap,
                 history>>

\* storage_getClientInfo looks at the cache first, without a lock, and fills
\* it last, without a lock.
CacheLook(t) ==
  /\ pc[t] = "cache"
  /\ \/ cache # 0 /\ Goto(t, "idle")
     \/ Goto(t, "select")
  /\ UNCHANGED <<locks, dbase, state, link, stmt, call, back, how, heap, history>>

CacheSet(t) ==
  /\ pc[t] = "cacheSet"
  /\ cache' = seen[t]
  /\ late' = (conn # seen[t])
  /\ Goto(t, "idle")
  /\ UNCHANGED <<locks, dbase, inited, wclock, link, stmt, call, back, how, heap,
                 history>>

\* storage_syncData2Disk.
SyncCheck(t) ==
  /\ pc[t] = "sync"
  /\ Goto(t, IF inited THEN "syncLock" ELSE "idle")
  /\ UNCHANGED <<locks, dbase, state, link, stmt, call, back, how, heap, history>>

\* LOCK in storage_syncData2Disk and storage_cleanAllData.
CloserLock(t) ==
  /\ pc[t] \in {"syncLock", "cleanLock"}
  /\ gLock = Free
  /\ gLock' = t
  /\ inited' = FALSE /\ wclock' = "none"
  /\ Goto(t, IF pc[t] = "syncLock" THEN "syncClose" ELSE "cleanClose")
  /\ UNCHANGED <<dLock, dbase, client, link, stmt, call, back, how, heap, history>>

SyncClose(t) ==
  /\ pc[t] = "syncClose"
  /\ DbcClose(t)
  /\ cache' = 0 /\ late' = FALSE
  /\ gLock' = Free
  /\ Goto(t, "idle")
  /\ UNCHANGED <<dLock, dbase, inited, wclock, call, back, how, heap, history>>

\* Mutant of CleanClose: the file is unlinked under an open connection.
CleanCloseSkipped(t) ==
  /\ pc[t] = "cleanClose"
  /\ Goto(t, "unlink")
  /\ UNCHANGED <<locks, dbase, state, link, stmt, call, back, how, heap, history>>

CleanClose(t) ==
  /\ pc[t] = "cleanClose"
  /\ DbcClose(t)
  /\ Goto(t, "unlink")
  /\ UNCHANGED <<locks, dbase, state, call, back, how, heap, history>>

\* Mutant of Unlink: the cache survives the file.
UnlinkKeepsCache(t) ==
  /\ pc[t] = "unlink"
  /\ NewFile
  /\ gLock' = Free
  /\ Goto(t, "idle")
  /\ UNCHANGED <<dLock, state, link, stmt, call, back, how, heap, history>>

Unlink(t) ==
  /\ pc[t] = "unlink"
  /\ NewFile
  /\ cache' = 0 /\ late' = FALSE
  /\ gLock' = Free
  /\ Goto(t, "idle")
  /\ UNCHANGED <<dLock, inited, wclock, link, stmt, call, back, how, heap, history>>

-----------------------------------------------------------------------------
\* Three seconds pass since the last write.
Tick ==
  /\ wclock = "fresh"
  /\ wclock' = "old"
  /\ UNCHANGED <<locks, dbase, inited, client, link, stmt, pc, call, back, how,
                 heap, history>>

Fresh(x) == [t \in Threads |-> x]

Init ==
  /\ gLock = Free /\ dLock = Free /\ stmt = Free
  /\ inited = FALSE /\ wclock = "none" /\ cache = 0 /\ late = FALSE
  /\ conn = 0 /\ handles = 0 /\ dirty = {}
  /\ pc = Fresh("idle") /\ call = Fresh("read") /\ back = Fresh("idle")
  /\ how = Fresh("old") /\ seen = Fresh(0) /\ fetched = Fresh(0)
  /\ gen = 1 /\ exists = FALSE /\ tables = "none" /\ cut = FALSE
  /\ lost = FALSE /\ calls = 0 /\ crashes = 0

\* A new file that has not got its tables yet.
Making(t) == pc[t] \in {"pragma", "table"} /\ how[t] # "old"

\* Power loss: the file stays, with the tables it had.
Crash ==
  /\ crashes < MaxCrash
  /\ crashes' = crashes + 1 /\ lost' = FALSE
  /\ gLock' = Free /\ dLock' = Free /\ stmt' = Free
  /\ inited' = FALSE /\ wclock' = "none" /\ cache' = 0 /\ late' = FALSE
  /\ conn' = 0 /\ handles' = 0 /\ dirty' = {}
  /\ pc' = Fresh("idle") /\ call' = Fresh("read") /\ back' = Fresh("idle")
  /\ how' = Fresh("old") /\ seen' = Fresh(0) /\ fetched' = Fresh(0)
  /\ cut' = (cut \/ \E t \in Threads : Making(t))
  /\ UNCHANGED <<gen, exists, tables, calls>>

Run(t) ==
  \/ GetDBC(t) \/ OpenClear(t) \/ OpenClose(t) \/ OpenCon(t) \/ OpenFails(t)
  \/ Pragma(t) \/ CreateTable(t) \/ CreateFails(t) \/ Inited(t)
  \/ SelectCheck(t) \/ SelectLock(t) \/ FetchRow(t) \/ LastRow(t)
  \/ ClientRow(t) \/ InsertRow(t) \/ InsertFails(t) \/ EncodeFails(t)
  \/ EndSelect(t) \/ WriteClock(t) \/ CacheLook(t) \/ CacheSet(t)
  \/ ExecCheck(t) \/ ExecLock(t)
  \/ SyncCheck(t) \/ CloserLock(t) \/ SyncClose(t) \/ CleanClose(t) \/ Unlink(t)

Next ==
  \/ \E t \in Threads : Start(t) \/ TrySync(t) \/ Run(t)
  \/ Tick \/ Crash

Spec == Init /\ [][Next]_vars

\* A call that has begun goes on, the clock runs, shutdownLoop wakes up every
\* second; nobody has to start anything else.
FairSpec ==
  /\ Spec
  /\ WF_vars(Tick)
  /\ \A t \in Threads : WF_vars(Run(t)) /\ WF_vars(TrySync(t))

-----------------------------------------------------------------------------
(* Properties.                                                             *)

Opening  == {"open", "openClose", "openCon", "pragma", "table", "inited"}
Closing  == {"syncClose", "cleanClose", "unlink"}
InSelect == {"step", "fetchDBC", "end"}
WantsG   == {"getDBC", "fetchDBC", "syncLock", "cleanLock"}
WantsD   == {"openClose", "pragma", "table", "selectLock", "execLock",
             "syncClose", "cleanClose"}
Labels   == Opening \cup Closing \cup InSelect \cup WantsG \cup WantsD
            \cup {"idle", "select", "exec", "cache", "cacheSet", "clock", "sync"}

\* Every variable has its type.
TypeOK ==
  /\ gLock \in Threads \cup {Free} /\ dLock \in Threads \cup {Free}
  /\ stmt \in Threads \cup {Free}
  /\ inited \in BOOLEAN /\ exists \in BOOLEAN /\ cut \in BOOLEAN /\ late \in BOOLEAN
  /\ dirty \in SUBSET {"inserted", "executed"}
  /\ wclock \in {"none", "fresh", "old"}
  /\ tables \in {"none", "some", "all"}
  /\ conn \in Nat /\ handles \in Nat /\ cache \in Nat /\ gen \in Nat
  /\ pc \in [Threads -> Labels]
  /\ call \in [Threads -> Queries \cup Closers]
  /\ back \in [Threads -> {"idle", "step", "exec", "cache", "select"}]
  /\ how \in [Threads -> {"old", "new", "again"}]
  /\ seen \in [Threads -> Nat] /\ fetched \in [Threads -> Nat]
  /\ lost \in BOOLEAN /\ calls \in Nat /\ crashes \in Nat

\* A thread that reads or writes rows uses its own statement, on a connection
\* that is open, whatever the other threads open, close and erase meanwhile.
StmtOwned ==
  \A t \in Threads : pc[t] \in InSelect => stmt = t /\ dLock = t /\ conn # 0

\* dbc_open drops no connection, although it clears the pointer before it
\* closes; and nobody is left connected to a file that was erased.
ConnSeesFile ==
  IF conn = 0 THEN handles = 0 ELSE handles = 1 /\ conn = gen

\* A database given out for opened has its tables, also when it was erased and
\* made anew, unless a CREATE TABLE of this very file failed, which the code
\* ignores, or the power went while they were made, which it does not notice.
InitedComplete == inited => tables = "all" \/ cut

Blocked(t) == \/ pc[t] \in WantsG /\ gLock # Free
              \/ pc[t] \in WantsD /\ dLock # Free

\* All calls are stuck only when dLock was kept by a call that returned, as it
\* found the connection closed or could not encode a row, or when a row loop
\* asks for gLock: no other order of the calls deadlocks.
StuckOnlyByFetchOrLeak ==
  /\ \E t \in Threads : Blocked(t)
  /\ \A t \in Threads : Blocked(t) \/ pc[t] = "idle"
  => lost \/ (dLock # Free /\ pc[dLock] = "fetchDBC")

\* The cached client is one of the current database, whoever reads clients while
\* another thread closes or erases it.  The exception is a reader overtaken
\* between its row and the cache, which is filled without a lock.
CacheCurrent == cache \in {0, gen} \/ late

\* A lock is gone for good: a call returned with dLock held, or a row loop waits
\* for gLock and its owner for dLock.
Jammed == \/ lost
          \/ /\ dLock # Free /\ pc[dLock] = "fetchDBC"
             /\ gLock # Free /\ pc[gLock] \in WantsD

\* After an insert the connection is closed again, by whatever thread, with all
\* that was written on it.  What dbc_executeSQL changes does not bring this
\* about: it waits, in an open database, for an insert or a sync.
DirtyFlushed == "inserted" \in dirty ~> dirty = {} \/ Jammed

\* Every call of every thread ends, the first opening included, whoever closes the
\* database meanwhile, but for the two ways to lose a lock.
CallsEnd == \A t \in Threads : pc[t] # "idle" ~> pc[t] = "idle" \/ Jammed
=============================================================================
