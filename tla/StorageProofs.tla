---------------------------- MODULE StorageProofs ----------------------------
(***************************************************************************)
(* Theorems about Storage, for every set of threads, every choice of calls *)
(* and all bounds: a statement in use belongs to the thread that uses it,  *)
(* on an open connection, and a connection always sees the current file.   *)
(***************************************************************************)
EXTENDS Storage, TLAPS

\* The storage lock is held while a database is opened or closed.
GOwned == \A t \in Threads : pc[t] \in Opening \cup Closing => gLock = t

\* There is no connection while one is about to be opened, nor after a close.
NoConn ==
  /\ \A t \in Threads :
       pc[t] \in {"open", "openClose", "openCon", "unlink"} => conn = 0
  /\ gLock = Free /\ ~inited => conn = 0

\* storage_getDBC never opens the database from inside a row loop.
NoOpenInSelect == \A t \in Threads : pc[t] \in Opening => back[t] # "step"

Own == GOwned /\ NoConn /\ NoOpenInSelect /\ StmtOwned /\ ConnSeesFile /\ gen # 0

IInv == TypeOK /\ Own

LEMMA InitInv == Init => IInv
<1>. SUFFICES ASSUME Init PROVE IInv
  OBVIOUS
<1>1. /\ pc = [t \in Threads |-> "idle"] /\ call = [t \in Threads |-> "read"]
      /\ back = [t \in Threads |-> "idle"] /\ how = [t \in Threads |-> "old"]
      /\ seen = [t \in Threads |-> 0] /\ fetched = [t \in Threads |-> 0]
  BY DEF Init, Fresh
<1>2. "idle" \in Labels /\ "read" \in Queries /\ "idle" \notin Opening \cup Closing
      /\ "idle" \notin InSelect
  BY DEF Labels, Queries, Opening, Closing, InSelect
<1>3. TypeOK
  <2>1. /\ pc \in [Threads -> Labels] /\ call \in [Threads -> Queries \cup Closers]
        /\ back \in [Threads -> {"idle", "step", "exec", "cache", "select"}]
        /\ how \in [Threads -> {"old", "new", "again"}]
        /\ seen \in [Threads -> Nat] /\ fetched \in [Threads -> Nat]
    BY <1>1, <1>2
  <2>. QED  BY <2>1 DEF TypeOK, Init
<1>4. Own
  BY <1>1, <1>2 DEF Own, Init, GOwned, NoConn, NoOpenInSelect, StmtOwned,
     ConnSeesFile
<1>. QED  BY <1>3, <1>4 DEF IInv

\* Every step of a thread keeps the types.
LEMMA TypeStep ==
  ASSUME IInv, NEW t \in Threads, Start(t) \/ TrySync(t) \/ Run(t)
  PROVE  TypeOK'
<1>. USE DEF Goto, Labels, Opening, Closing, InSelect, WantsG, WantsD, Queries, Closers,
             NewFile
<1>0. TypeOK /\ ConnSeesFile
  BY DEF IInv, Own
<1>1. CASE GetDBC(t)
  BY <1>0, <1>1 DEF TypeOK, GetDBC, locks, dbase, client, state, link, heap, history,
     AfterGetDBC
<1>2. CASE OpenClear(t)
  BY <1>0, <1>2 DEF TypeOK, OpenClear, locks, dbase, client, state, link, heap, history
<1>3. CASE OpenClose(t)
  <2>1. handles' \in Nat
    BY <1>0, <1>3 DEF TypeOK, OpenClose, link, DbcClose, CloseConn, ConnSeesFile
  <2>. QED
    BY <1>0, <1>3, <2>1 DEF TypeOK, OpenClose, locks, dbase, client, state, link,
       heap, history, CloseConn, DbcClose
<1>4. CASE OpenCon(t)
  BY <1>0, <1>4 DEF TypeOK, OpenCon, locks, dbase, client, state, link, heap, history
<1>5. CASE OpenFails(t)
  <2>1. gen \in Nat
    BY <1>0 DEF TypeOK
  <2>2. gen' \in Nat
    BY <1>5, <2>1 DEF OpenFails, dbase
  <2>3. gLock' \in Threads \cup {Free}
    BY <1>0, <1>5 DEF TypeOK, OpenFails
  <2>4. UNCHANGED <<dLock, state, link, stmt, call, back, heap, history>>
    BY <1>5 DEF OpenFails
  <2>5. /\ exists' \in BOOLEAN /\ tables' \in {"none", "some", "all"} /\ cut' \in BOOLEAN
        /\ how' = how \/ how' = [how EXCEPT ![t] = "again"]
        /\ \E l \in {"step", "idle", "open"} : pc' = [pc EXCEPT ![t] = l]
    BY <1>0, <1>5 DEF TypeOK, OpenFails, dbase
  <2>. QED
    BY <1>0, <2>2, <2>3, <2>4, <2>5 DEF TypeOK, client, state, link, heap, history
<1>6. CASE Pragma(t)
  BY <1>0, <1>6 DEF TypeOK, Pragma, locks, dbase, client, state, link, heap, history
<1>7. CASE CreateTable(t)
  BY <1>0, <1>7 DEF TypeOK, CreateTable, locks, dbase, client, state, link, heap, history
<1>8. CASE Inited(t)
  BY <1>0, <1>8 DEF TypeOK, Inited, locks, dbase, client, state, link, heap, history
<1>9. CASE SelectCheck(t)
  BY <1>0, <1>9 DEF TypeOK, SelectCheck, locks, dbase, client, state, link, heap, history
<1>10. CASE SelectLock(t)
  <2>1. /\ dLock' \in Threads \cup {Free} /\ stmt' \in Threads \cup {Free}
        /\ lost' \in BOOLEAN
        /\ \E l \in {"idle", "step"} : pc' = [pc EXCEPT ![t] = l]
    BY <1>0, <1>10 DEF TypeOK, SelectLock
  <2>2. UNCHANGED <<gLock, dbase, state, link, call, back, how, heap, calls, crashes>>
    BY <1>10 DEF SelectLock
  <2>. QED
    BY <1>0, <2>1, <2>2 DEF TypeOK, dbase, client, state, link, heap
<1>11. CASE FetchRow(t)
  BY <1>0, <1>11 DEF TypeOK, FetchRow, locks, dbase, client, state, link, heap, history
<1>12. CASE LastRow(t)
  BY <1>0, <1>12 DEF TypeOK, LastRow, locks, dbase, client, state, link, heap, history
<1>13. CASE ClientRow(t)
  BY <1>0, <1>13 DEF TypeOK, ClientRow, locks, dbase, client, state, link, heap, history
<1>14. CASE InsertRow(t)
  BY <1>0, <1>14 DEF TypeOK, InsertRow, locks, dbase, client, state, link, heap, history
<1>15. CASE EncodeFails(t)
  BY <1>0, <1>15 DEF TypeOK, EncodeFails, locks, dbase, client, state, link, heap,
     history
<1>16. CASE EndSelect(t)
  BY <1>0, <1>16 DEF TypeOK, EndSelect, locks, dbase, client, state, link, heap, history
<1>17. CASE WriteClock(t)
  BY <1>0, <1>17 DEF TypeOK, WriteClock, locks, dbase, client, state, link, heap, history
<1>18. CASE CacheLook(t)
  BY <1>0, <1>18 DEF TypeOK, CacheLook, locks, dbase, client, state, link, heap, history
<1>19. CASE CacheSet(t)
  BY <1>0, <1>19 DEF TypeOK, CacheSet, locks, dbase, client, state, link, heap, history
<1>20. CASE ExecCheck(t)
  BY <1>0, <1>20 DEF TypeOK, ExecCheck, locks, dbase, client, state, link, heap, history
<1>21. CASE ExecLock(t)
  BY <1>0, <1>21 DEF TypeOK, ExecLock, locks, dbase, client, state, link, heap, history
<1>22. CASE SyncCheck(t)
  BY <1>0, <1>22 DEF TypeOK, SyncCheck, locks, dbase, client, state, link, heap, history
<1>23. CASE CloserLock(t)
  BY <1>0, <1>23 DEF TypeOK, CloserLock, locks, dbase, client, state, link, heap, history
<1>24. CASE SyncClose(t)
  <2>1. handles' \in Nat
    BY <1>0, <1>24 DEF TypeOK, SyncClose, link, DbcClose, CloseConn,
       ConnSeesFile
  <2>. QED
    BY <1>0, <1>24, <2>1 DEF TypeOK, SyncClose, locks, dbase, client, state, link,
       heap, history, CloseConn, DbcClose
<1>25. CASE CleanClose(t)
  <2>1. handles' \in Nat
    BY <1>0, <1>25 DEF TypeOK, CleanClose, link, DbcClose, CloseConn,
       ConnSeesFile
  <2>. QED
    BY <1>0, <1>25, <2>1 DEF TypeOK, CleanClose, locks, dbase, client, state, link,
       heap, history, CloseConn, DbcClose
<1>26. CASE Unlink(t)
  <2>1. gen' \in Nat
    BY <1>0, <1>26 DEF TypeOK, Unlink, link
  <2>. QED
    BY <1>0, <1>26, <2>1 DEF TypeOK, Unlink, locks, dbase, client, state, link, heap,
       history
<1>27. CASE Start(t)
  BY ConstantsAssumption, <1>0, <1>27 DEF TypeOK, Start, locks, dbase, client, state,
     link, heap, history
<1>28. CASE TrySync(t)
  BY <1>0, <1>28 DEF TypeOK, TrySync, locks, dbase, client, state, link, heap, history
<1>29. CASE CreateFails(t)
  BY <1>0, <1>29 DEF TypeOK, CreateFails, locks, dbase, client, state, link, heap,
     history
<1>30. CASE InsertFails(t)
  BY <1>0, <1>30 DEF TypeOK, InsertFails, locks, dbase, client, state, link, heap,
     history
<1>. QED
  BY <1>1, <1>2, <1>3, <1>4, <1>5, <1>6, <1>7, <1>8, <1>9, <1>10, <1>11,
     <1>12, <1>13, <1>14, <1>15, <1>16, <1>17, <1>18, <1>19, <1>20, <1>21,
     <1>22, <1>23, <1>24, <1>25, <1>26, <1>27, <1>28, <1>29, <1>30 DEF Run

\* Every step of a thread keeps the ownership of locks and statements.
LEMMA OwnStep ==
  ASSUME IInv, NEW t \in Threads, Start(t) \/ TrySync(t) \/ Run(t)
  PROVE  Own'
<1>. USE DEF Goto, Opening, Closing, InSelect, GOwned, NoConn, NoOpenInSelect,
             StmtOwned, ConnSeesFile, NewFile
<1>0. /\ Own /\ conn \in Nat /\ handles \in Nat /\ gen \in Nat
      /\ pc \in [Threads -> Labels]
      /\ back \in [Threads -> {"idle", "step", "exec", "cache", "select"}]
      /\ Free \notin Threads
  BY ConstantsAssumption DEF IInv, TypeOK
<1>1. CASE GetDBC(t)
  BY <1>0, <1>1 DEF Own, GetDBC, locks, dbase, client, state, link, heap, history,
     AfterGetDBC
<1>2. CASE OpenClear(t)
  BY <1>0, <1>2 DEF Own, OpenClear, locks, dbase, client, state, link, heap, history
<1>3. CASE OpenClose(t)
  BY <1>0, <1>3 DEF Own, OpenClose, locks, dbase, client, state, link, heap, history,
     CloseConn, DbcClose
<1>4. CASE OpenCon(t)
  BY <1>0, <1>4 DEF Own, OpenCon, locks, dbase, client, state, link, heap, history
<1>5. CASE OpenFails(t)
  BY <1>0, <1>5 DEF Own, OpenFails, locks, dbase, client, state, link, heap, history
<1>6. CASE Pragma(t)
  BY <1>0, <1>6 DEF Own, Pragma, locks, dbase, client, state, link, heap, history
<1>7. CASE CreateTable(t)
  BY <1>0, <1>7 DEF Own, CreateTable, locks, dbase, client, state, link, heap, history
<1>8. CASE Inited(t)
  BY <1>0, <1>8 DEF Own, Inited, locks, dbase, client, state, link, heap, history
<1>9. CASE SelectCheck(t)
  BY <1>0, <1>9 DEF Own, SelectCheck, locks, dbase, client, state, link, heap, history
<1>10. CASE SelectLock(t)
  BY <1>0, <1>10 DEF Own, SelectLock, locks, dbase, client, state, link, heap, history
<1>11. CASE FetchRow(t)
  BY <1>0, <1>11 DEF Own, FetchRow, locks, dbase, client, state, link, heap, history
<1>12. CASE LastRow(t)
  BY <1>0, <1>12 DEF Own, LastRow, locks, dbase, client, state, link, heap, history
<1>13. CASE ClientRow(t)
  BY <1>0, <1>13 DEF Own, ClientRow, locks, dbase, client, state, link, heap, history
<1>14. CASE InsertRow(t)
  BY <1>0, <1>14 DEF Own, InsertRow, locks, dbase, client, state, link, heap, history
<1>15. CASE EncodeFails(t)
  BY <1>0, <1>15 DEF Own, EncodeFails, locks, dbase, client, state, link, heap, history
<1>16. CASE EndSelect(t)
  BY <1>0, <1>16 DEF Own, EndSelect, locks, dbase, client, state, link, heap, history
<1>17. CASE WriteClock(t)
  BY <1>0, <1>17 DEF Own, WriteClock, locks, dbase, client, state, link, heap, history
<1>18. CASE CacheLook(t)
  BY <1>0, <1>18 DEF Own, CacheLook, locks, dbase, client, state, link, heap, history
<1>19. CASE CacheSet(t)
  BY <1>0, <1>19 DEF Own, CacheSet, locks, dbase, client, state, link, heap, history
<1>20. CASE ExecCheck(t)
  BY <1>0, <1>20 DEF Own, ExecCheck, locks, dbase, client, state, link, heap, history
<1>21. CASE ExecLock(t)
  BY <1>0, <1>21 DEF Own, ExecLock, locks, dbase, client, state, link, heap, history
<1>22. CASE SyncCheck(t)
  BY <1>0, <1>22 DEF Own, SyncCheck, locks, dbase, client, state, link, heap, history
<1>23. CASE CloserLock(t)
  BY <1>0, <1>23 DEF Own, CloserLock, locks, dbase, client, state, link, heap, history
<1>24. CASE SyncClose(t)
  BY <1>0, <1>24 DEF Own, SyncClose, locks, dbase, client, state, link, heap, history,
     CloseConn, DbcClose
<1>25. CASE CleanClose(t)
  BY <1>0, <1>25 DEF Own, CleanClose, locks, dbase, client, state, link, heap, history,
     CloseConn, DbcClose
<1>26. CASE Unlink(t)
  BY <1>0, <1>26 DEF Own, Unlink, locks, dbase, client, state, link, heap, history
<1>27. CASE Start(t)
  BY <1>0, <1>27 DEF Own, Start, locks, dbase, client, state, link, heap, history,
     Queries
<1>28. CASE TrySync(t)
  BY <1>0, <1>28 DEF Own, TrySync, locks, dbase, client, state, link, heap, history
<1>29. CASE CreateFails(t)
  BY <1>0, <1>29 DEF Own, CreateFails, locks, dbase, client, state, link, heap,
     history
<1>30. CASE InsertFails(t)
  BY <1>0, <1>30 DEF Own, InsertFails, locks, dbase, client, state, link, heap,
     history
<1>. QED
  BY <1>1, <1>2, <1>3, <1>4, <1>5, <1>6, <1>7, <1>8, <1>9, <1>10, <1>11,
     <1>12, <1>13, <1>14, <1>15, <1>16, <1>17, <1>18, <1>19, <1>20, <1>21,
     <1>22, <1>23, <1>24, <1>25, <1>26, <1>27, <1>28, <1>29, <1>30 DEF Run

\* The clock and a power loss.
LEMMA OtherStep == ASSUME IInv, Tick \/ Crash PROVE IInv'
<1>. USE ConstantsAssumption
     DEF Labels, Opening, Closing, InSelect, WantsG, WantsD
<1>1. CASE Tick
  BY <1>1 DEF IInv, TypeOK, Own, GOwned, NoConn, NoOpenInSelect, StmtOwned,
              ConnSeesFile, Tick, locks, dbase, client, link, heap, history
<1>2. CASE Crash
  <2>1. /\ pc' = [t \in Threads |-> "idle"] /\ call' = [t \in Threads |-> "read"]
        /\ back' = [t \in Threads |-> "idle"] /\ how' = [t \in Threads |-> "old"]
        /\ seen' = [t \in Threads |-> 0] /\ fetched' = [t \in Threads |-> 0]
    BY <1>2 DEF Crash, Fresh
  <2>2. /\ pc' \in [Threads -> Labels]
        /\ call' \in [Threads -> Queries \cup Closers]
        /\ back' \in [Threads -> {"idle", "step", "exec", "cache", "select"}]
        /\ how' \in [Threads -> {"old", "new", "again"}]
        /\ seen' \in [Threads -> Nat] /\ fetched' \in [Threads -> Nat]
    BY <2>1 DEF Queries
  <2>0. crashes' \in Nat
    BY <1>2 DEF IInv, TypeOK, Crash
  <2>3. TypeOK'
    BY <1>2, <2>0, <2>2 DEF IInv, TypeOK, Crash, dbase
  <2>4. Own'
    BY <1>2, <2>1 DEF IInv, Own, GOwned, NoConn, NoOpenInSelect, StmtOwned,
                      ConnSeesFile, Crash, dbase
  <2>. QED  BY <2>3, <2>4 DEF IInv
<1>. QED  BY <1>1, <1>2

LEMMA Invariance == IInv /\ [Next]_vars => IInv'
<1>. SUFFICES ASSUME IInv, [Next]_vars PROVE IInv'
  OBVIOUS
<1>1. ASSUME NEW t \in Threads, Start(t) \/ TrySync(t) \/ Run(t) PROVE IInv'
  BY <1>1, TypeStep, OwnStep DEF IInv
<1>2. CASE Tick \/ Crash
  BY <1>2, OtherStep
<1>3. CASE UNCHANGED vars
  BY <1>3 DEF IInv, TypeOK, Own, GOwned, NoConn, NoOpenInSelect, StmtOwned,
              ConnSeesFile, vars, locks, dbase, client, state, link, heap, history
<1>. QED  BY <1>1, <1>2, <1>3 DEF Next

LEMMA Always == Spec => []IInv
BY InitInv, Invariance, PTL DEF Spec

\* Every variable of the database layer keeps its type.
THEOREM StorageTypes == Spec => []TypeOK
<1>1. IInv => TypeOK  BY DEF IInv
<1>. QED  BY <1>1, Always, PTL

\* db_ctrl.c has one statement for all threads: whoever is between its
\* dbc_execSelectSQL and its dbc_endSelectSQL uses its own one, holds the lock
\* and has an open connection under it.
THEOREM StatementsAreOwned == Spec => []StmtOwned
<1>1. IInv => StmtOwned  BY DEF IInv, Own
<1>. QED  BY <1>1, Always, PTL

\* dbc_open clears the connection pointer before it closes the connection;
\* that loses none, because nobody opens before everybody closed.
THEOREM NoConnectionIsLost == Spec => []ConnSeesFile
<1>1. IInv => ConnSeesFile  BY DEF IInv, Own
<1>. QED  BY <1>1, Always, PTL

-----------------------------------------------------------------------------
(* Who holds a lock, and what it means for the others.                     *)

\* The storage lock is held only by a thread that opens or closes.
GHeld == gLock # Free => pc[gLock] \in Opening \cup Closing

\* Nobody takes a database for opened while it is opened, closed or erased.
NotYet == \A t \in Threads : pc[t] \in Opening \cup Closing => ~inited

\* An old file has its tables, and a new one gets them before it counts as opened;
\* a file that did not open is gone.
TablesMade ==
  ~cut =>
    /\ inited => tables = "all"
    /\ exists => tables = "all" \/ \E t \in Threads : Making(t)
    /\ \A t \in Threads :
         /\ pc[t] \in Opening /\ how[t] = "old" => tables = "all"
         /\ pc[t] = "inited" => tables = "all"
         /\ pc[t] \in {"open", "openClose", "openCon"} /\ how[t] # "old" => ~exists

\* Nobody keeps the statement's lock but those who read rows, or as the code leaks it.
DHeld == dLock # Free => pc[dLock] \in InSelect \/ lost

Guarded == GHeld /\ NotYet /\ TablesMade /\ DHeld

LEMMA GuardedInit == Init => Guarded
BY ConstantsAssumption DEF Init, Fresh, Guarded, GHeld, NotYet, TablesMade, DHeld, Opening, Closing

LEMMA DHeldStep ==
  ASSUME IInv, DHeld, NEW t \in Threads, Start(t) \/ TrySync(t) \/ Run(t)
  PROVE  DHeld'
<1>. USE DEF Goto, DHeld, InSelect
<1>0. /\ StmtOwned /\ NoOpenInSelect
      /\ pc \in [Threads -> Labels] /\ Free \notin Threads
      /\ dLock \in Threads \cup {Free} /\ lost \in BOOLEAN
  BY ConstantsAssumption DEF IInv, TypeOK, Own
<1>1. CASE SelectLock(t)
  BY <1>0, <1>1 DEF SelectLock
<1>2. CASE EndSelect(t) \/ InsertFails(t)
  BY <1>2 DEF EndSelect, InsertFails
<1>3. CASE EncodeFails(t)
  BY <1>3 DEF EncodeFails
<1>4. CASE Inited(t)
  <2>1. pc[t] \notin InSelect /\ UNCHANGED <<dLock, lost>>
        /\ pc' = [pc EXCEPT ![t] = back[t]]
    BY <1>4 DEF Inited, history
  <2>. QED  BY <1>0, <2>1
<1>5. CASE GetDBC(t)
  <2>1. UNCHANGED <<dLock, lost>>
    BY <1>5 DEF GetDBC, history
  <2>2. CASE pc[t] = "getDBC"
    BY <1>0, <1>5, <2>1, <2>2 DEF GetDBC
  <2>3. CASE pc[t] = "fetchDBC" /\ inited
    BY <1>0, <1>5, <2>1, <2>3 DEF GetDBC
  <2>4. CASE pc[t] = "fetchDBC" /\ ~inited
    <3>1. conn # 0 /\ gLock = Free
      BY <1>0, <1>5, <2>4 DEF StmtOwned, GetDBC
    <3>. QED  BY <2>4, <3>1 DEF IInv, Own, NoConn
  <2>. QED  BY <1>5, <2>2, <2>3, <2>4 DEF GetDBC
<1>6. CASE FetchRow(t) \/ LastRow(t) \/ ClientRow(t) \/ InsertRow(t)
  <2>1. UNCHANGED <<dLock, lost>> /\ \E l \in InSelect : Goto(t, l)
    BY <1>6 DEF FetchRow, LastRow, ClientRow, InsertRow, locks, history
  <2>. QED  BY <1>0, <2>1
<1>7. CASE \/ SelectCheck(t) \/ WriteClock(t) \/ CacheLook(t) \/ CacheSet(t)
           \/ ExecCheck(t) \/ ExecLock(t) \/ SyncCheck(t) \/ Start(t) \/ TrySync(t)
           \/ OpenClear(t) \/ OpenClose(t) \/ OpenCon(t) \/ OpenFails(t)
           \/ Pragma(t) \/ CreateTable(t) \/ CreateFails(t) \/ CloserLock(t)
           \/ SyncClose(t) \/ CleanClose(t) \/ Unlink(t)
  <2>1. /\ UNCHANGED <<dLock, lost>>
        /\ pc[t] \notin InSelect
        /\ \E l : Goto(t, l)
    BY <1>7 DEF SelectCheck, WriteClock, CacheLook, CacheSet, ExecCheck, ExecLock,
       SyncCheck, Start, TrySync, OpenClear, OpenClose, OpenCon, OpenFails, Pragma,
       CreateTable, CreateFails, CloserLock, SyncClose, CleanClose, Unlink, locks,
       history
  <2>. QED  BY <1>0, <2>1
<1>. QED
  BY <1>1, <1>2, <1>3, <1>4, <1>5, <1>6, <1>7 DEF Run

LEMMA GuardedStep ==
  ASSUME IInv, Guarded, NEW t \in Threads, Start(t) \/ TrySync(t) \/ Run(t)
  PROVE  Guarded'
<1>d. DHeld'
  BY DHeldStep DEF Guarded
<1>. SUFFICES (GHeld /\ NotYet /\ TablesMade)'
  BY <1>d DEF Guarded
<1>. USE DEF Goto, Opening, Closing, GHeld, NotYet, TablesMade, Making,
             locks, dbase, client, state, link, heap, history
<1>0. /\ GHeld /\ NotYet /\ TablesMade
      /\ GOwned
      /\ pc \in [Threads -> Labels]
      /\ how \in [Threads -> {"old", "new", "again"}]
      /\ back \in [Threads -> {"idle", "step", "exec", "cache", "select"}]
      /\ tables \in {"none", "some", "all"}
      /\ gLock \in Threads \cup {Free}
      /\ Free \notin Threads
      /\ inited \in BOOLEAN /\ exists \in BOOLEAN /\ cut \in BOOLEAN
  BY ConstantsAssumption DEF IInv, TypeOK, Own, Guarded
<1>1. CASE GetDBC(t)
  BY <1>0, <1>1 DEF GOwned, GetDBC, AfterGetDBC
<1>2. CASE OpenClear(t) \/ OpenClose(t)
  BY <1>0, <1>2 DEF GOwned, OpenClear, OpenClose, DbcClose, CloseConn
<1>3. CASE OpenCon(t)
  BY <1>0, <1>3 DEF GOwned, OpenCon
<1>4. CASE OpenFails(t)
  BY <1>0, <1>4 DEF GOwned, OpenFails, NewFile
<1>5. CASE Pragma(t)
  BY <1>0, <1>5 DEF GOwned, Pragma
<1>6. CASE CreateTable(t)
  BY <1>0, <1>6 DEF GOwned, CreateTable
<1>7. CASE CreateFails(t)
  BY <1>0, <1>7 DEF GOwned, CreateFails
<1>8. CASE Inited(t)
  BY <1>0, <1>8 DEF GOwned, Inited
<1>9. CASE CloserLock(t)
  BY <1>0, <1>9 DEF GOwned, CloserLock
<1>10. CASE SyncClose(t) \/ CleanClose(t)
  BY <1>0, <1>10 DEF GOwned, SyncClose, CleanClose, DbcClose, CloseConn
<1>11. CASE Unlink(t)
  BY <1>0, <1>11 DEF GOwned, Unlink, NewFile
<1>12. CASE \/ SelectCheck(t) \/ SelectLock(t) \/ FetchRow(t) \/ LastRow(t)
           \/ ClientRow(t) \/ InsertRow(t) \/ InsertFails(t) \/ EncodeFails(t)
           \/ EndSelect(t) \/ WriteClock(t) \/ CacheLook(t) \/ CacheSet(t)
           \/ ExecCheck(t) \/ ExecLock(t) \/ SyncCheck(t) \/ Start(t) \/ TrySync(t)
  <2>1. /\ UNCHANGED <<gLock, inited, exists, tables, cut, how>>
        /\ pc[t] \notin Opening \cup Closing
        /\ \E l \in Labels \ (Opening \cup Closing) : Goto(t, l)
    BY <1>0, <1>12 DEF SelectCheck, SelectLock, FetchRow, LastRow, ClientRow,
       InsertRow, InsertFails, EncodeFails, EndSelect, WriteClock, CacheLook, CacheSet,
       ExecCheck, ExecLock, SyncCheck, Start, TrySync, Labels, InSelect, WantsG, WantsD
  <2>. QED  BY <1>0, <2>1
<1>. QED
  BY <1>1, <1>2, <1>3, <1>4, <1>5, <1>6, <1>7, <1>8, <1>9, <1>10, <1>11, <1>12 DEF Run

LEMMA GuardedNext == IInv /\ Guarded /\ [Next]_vars => Guarded'
<1>. SUFFICES ASSUME IInv, Guarded, [Next]_vars PROVE Guarded'
  OBVIOUS
<1>. USE DEF Guarded, GHeld, NotYet, TablesMade, DHeld, Making
<1>1. CASE Tick
  BY <1>1 DEF Tick, locks, dbase, history
<1>2. CASE Crash
  <2>1. /\ pc' = [t \in Threads |-> "idle"] /\ gLock' = Free /\ dLock' = Free
        /\ ~inited' /\ UNCHANGED <<exists, tables>>
        /\ cut' = (cut \/ \E t \in Threads : Making(t))
    BY <1>2 DEF Crash, Fresh
  <2>. QED  BY <2>1 DEF Opening, Closing
<1>3. CASE UNCHANGED vars
  BY <1>3 DEF vars, locks, dbase, state, history
<1>. QED  BY <1>1, <1>2, <1>3, GuardedStep DEF Next

LEMMA AlwaysGuarded == Spec => [](IInv /\ Guarded)
BY InitInv, Invariance, GuardedInit, GuardedNext, PTL DEF Spec

\* A database that storage_getDBC gives out has all its tables: an old file had them, a
\* new one gets them under the lock.  The two exceptions are the code's own: a CREATE
\* TABLE of this very file failed, or the power went while its tables were made.
THEOREM OpenedIsComplete == Spec => []InitedComplete
<1>1. Guarded => InitedComplete
  BY DEF Guarded, TablesMade, InitedComplete
<1>. QED  BY <1>1, AlwaysGuarded, PTL

\* However many threads call, and in whatever order, they are stuck together only in the
\* two ways the code has: a call that returned with the statement's lock held, or a row
\* loop that asks for the storage lock.
THEOREM DeadlocksAreKnown == Spec => []StuckOnlyByFetchOrLeak
<1>1. IInv /\ Guarded => StuckOnlyByFetchOrLeak
  <2>. SUFFICES ASSUME IInv, Guarded, NEW w \in Threads, Blocked(w),
                       \A t \in Threads : Blocked(t) \/ pc[t] = "idle"
                PROVE  lost \/ (dLock # Free /\ pc[dLock] = "fetchDBC")
    BY DEF StuckOnlyByFetchOrLeak
  <2>. USE DEF Blocked, DHeld, Opening, Closing, InSelect, WantsG, WantsD
  <2>0. gLock \in Threads \cup {Free} /\ dLock \in Threads \cup {Free}
    BY DEF IInv, TypeOK
  <2>1. CASE dLock # Free
    BY <2>0, <2>1 DEF Guarded
  <2>2. CASE dLock = Free
    <3>1. gLock # Free
      BY <2>2
    <3>2. pc[gLock] \in Opening \cup Closing
      BY <3>1 DEF Guarded, GHeld
    <3>. QED  BY <2>0, <2>2, <3>1, <3>2
  <2>. QED  BY <2>1, <2>2
<1>. QED  BY <1>1, AlwaysGuarded, PTL
-----------------------------------------------------------------------------
(* The cache of the client.                                                *)

\* A cached client was read on the open connection, or the erasing thread is about
\* to clear it, or its reader was overtaken.
CacheOwned ==
  cache # 0 /\ ~late =>
    /\ cache = gen
    /\ conn = gen \/ \E t \in Threads : pc[t] = "unlink"

LEMMA CacheInit == Init => CacheOwned
BY DEF Init, CacheOwned

LEMMA CacheStep ==
  ASSUME IInv, CacheOwned, NEW t \in Threads, Start(t) \/ TrySync(t) \/ Run(t)
  PROVE  CacheOwned'
<1>. USE DEF Goto, CacheOwned, locks, dbase, client, state, link, heap, history
<1>0. /\ pc \in [Threads -> Labels] /\ gen \in Nat /\ conn \in Nat /\ cache \in Nat
      /\ GOwned /\ NoConn /\ ConnSeesFile
      /\ gen # 0 /\ Free \notin Threads
  BY ConstantsAssumption DEF IInv, TypeOK, Own
<1>1. CASE CacheSet(t)
  BY <1>0, <1>1 DEF CacheSet, ConnSeesFile
<1>2. CASE SyncClose(t)
  BY <1>2 DEF SyncClose
<1>3. CASE Unlink(t)
  BY <1>3 DEF Unlink
<1>4. CASE CleanClose(t)
  BY <1>0, <1>4 DEF CleanClose
<1>5. CASE OpenClear(t) \/ OpenClose(t) \/ OpenCon(t) \/ OpenFails(t)
  <2>1. conn = 0 /\ UNCHANGED <<cache, late>>
    BY <1>0, <1>5 DEF NoConn, OpenClear, OpenClose, OpenCon, OpenFails
  <2>2. \A u \in Threads : pc[u] # "unlink"
    BY <1>0, <1>5 DEF GOwned, Opening, Closing, OpenClear, OpenClose, OpenCon, OpenFails
  <2>. QED  BY <1>0, <2>1, <2>2
<1>6. CASE \/ GetDBC(t) \/ Pragma(t) \/ CreateTable(t) \/ CreateFails(t) \/ Inited(t)
           \/ SelectCheck(t) \/ SelectLock(t) \/ FetchRow(t) \/ LastRow(t)
           \/ ClientRow(t) \/ InsertRow(t) \/ InsertFails(t) \/ EncodeFails(t)
           \/ EndSelect(t) \/ WriteClock(t) \/ CacheLook(t) \/ ExecCheck(t)
           \/ ExecLock(t) \/ SyncCheck(t) \/ CloserLock(t) \/ Start(t) \/ TrySync(t)
  <2>1. /\ UNCHANGED <<cache, late, gen, conn>>
        /\ pc[t] # "unlink"
        /\ \E l : Goto(t, l)
    BY <1>6 DEF GetDBC, Pragma, CreateTable, CreateFails, Inited, SelectCheck,
       SelectLock, FetchRow, LastRow, ClientRow, InsertRow, InsertFails, EncodeFails,
       EndSelect, WriteClock, CacheLook, ExecCheck, ExecLock, SyncCheck, CloserLock,
       Start, TrySync
  <2>. QED  BY <1>0, <2>1
<1>. QED
  BY <1>1, <1>2, <1>3, <1>4, <1>5, <1>6 DEF Run

LEMMA CacheNext == IInv /\ CacheOwned /\ [Next]_vars => CacheOwned'
<1>. SUFFICES ASSUME IInv, CacheOwned, [Next]_vars PROVE CacheOwned'
  OBVIOUS
<1>1. CASE Tick
  BY <1>1 DEF CacheOwned, Tick, dbase, client, link
<1>2. CASE Crash
  BY <1>2 DEF CacheOwned, Crash
<1>3. CASE UNCHANGED vars
  BY <1>3 DEF CacheOwned, vars, dbase, client, state, link
<1>. QED  BY <1>1, <1>2, <1>3, CacheStep DEF Next

\* Whichever threads read clients and whichever close or erase the database, the cached
\* client is of the current file: mClientCache is used without a lock, but it is cleared
\* with the file, and only a reader overtaken between its row and the cache outlives it.
THEOREM CacheIsCurrent == Spec => []CacheCurrent
<1>1. IInv /\ CacheOwned => CacheCurrent
  BY DEF IInv, TypeOK, CacheOwned, CacheCurrent
<1>2. Spec => [](IInv /\ CacheOwned)
  BY InitInv, Invariance, CacheInit, CacheNext, PTL DEF Spec
<1>. QED  BY <1>1, <1>2, PTL

=============================================================================
