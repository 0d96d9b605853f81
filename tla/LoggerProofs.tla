---------------------------- MODULE LoggerProofs ----------------------------
(***************************************************************************)
(* For every number of archives, signals and log calls in a handler, every *)
(* size limit and set of levels: logger.c hangs and crashes only for the   *)
(* causes the properties name, and a rotation never loses a line in the    *)
(* middle.                                                                 *)
(***************************************************************************)
EXTENDS Logger, TLAPS

Holding == {"check", "rename", "reopen", "write", "unlock", "set_store", "clean_close"}

(* A handler is there from its start on; it never calls logger_init,       *)
(* logger_set_level or logger_cleanup.                                     *)
HandlerShape ==
    /\ \A l \in Activations : l > active <=> l # 0 /\ pc[l] = "idle"
    /\ \A l \in Activations \ {0} :
          pc[l] \in {"idle", "next", "lock", "check", "rename", "reopen", "write", "unlock"}
    /\ pc[0] # "next"

(* The mutex is held by whoever stands between a lock and its unlock, and  *)
(* by the writer of a message inside such a stretch, which waits for it.   *)
MutexShape ==
    /\ \A a \in Activations : pc[a] \in Holding => mutex = a
    /\ \A a \in Activations :
          mutex = a => pc[a] \in Holding \/ (pc[a] = "lock" /\ LOG_INFO >= level)
    /\ mutex = Destroyed =>
          /\ file = "null" /\ pc[0] \in {"idle", "init_open"}
          /\ \A l \in Activations \ {0} : pc[l] \in {"idle", "next"}

(* logger.file dangles in logger_init and between the two halves of a      *)
(* rotation only; a message is written to a file that is not NULL unless   *)
(* this run lost it when it reopened it.                                   *)
FileShape ==
    /\ file = "closed" =>
          pc[0] = "init_open" \/ \E a \in Activations : pc[a] \in {"rename", "reopen"}
    /\ \A a \in Activations : pc[a] \in {"rename", "reopen"} => file = "closed"
    /\ \A a \in Activations : pc[a] \in {"lock", "check", "write"} => file # "null" \/ badOpen

(* The loop variable of rotate_log_files. *)
LoopShape ==
    /\ \A a \in Activations : pc[a] = "rename" => slot >= 1
    /\ \A a \in Activations : pc[a] = "reopen" => slot = 0
    /\ badRename \in BOOLEAN /\ badOpen \in BOOLEAN

Control == TypeOK /\ HandlerShape /\ MutexShape /\ FileShape /\ LoopShape /\ CrashOnlyBy

-----------------------------------------------------------------------------
(* The main program is an activation, and activations are numbers. *)
LEMMA Levels ==
    /\ 0 \in Activations /\ Free \notin Activations /\ Destroyed \notin Activations
    /\ Free # Destroyed
    /\ \A a \in Activations : a \in Int /\ a >= 0 /\ a <= MaxNest
    /\ \A a \in Activations : a < MaxNest => a + 1 \in Activations /\ a + 1 # 0
BY LoggerAssumption DEF Activations, Free, Destroyed

(* A process that starts is in order whatever it finds on the disk. *)
LEMMA FreshControl ==
    ASSUME file' = "null", level' = LOG_DEBUG, rotate' = FALSE, mutex' = Free,
           active' = 0, pc' = [a \in Activations |-> "idle"],
           slot' = 0, todo' = 0, status' = "running", badOpen' = FALSE,
           badRename' \in BOOLEAN, DOMAIN disk' = Slots
    PROVE  Control'
<1>1. \A a \in Activations : pc'[a] = "idle"
  OBVIOUS
<1>2. 0 \in LOG_DEBUG .. LOG_FATAL /\ 0 \in 0 .. MaxLogFiles - 1 /\ 0 \in 0 .. HandlerLogs
  BY LoggerAssumption DEF LOG_DEBUG, LOG_FATAL
<1>3. pc' \in [Activations -> {"idle", "next", "init_open", "lock", "check", "rename", "reopen",
                 "write", "unlock", "set_lock", "set_store", "clean_lock", "clean_close"}]
  OBVIOUS
<1>4. TypeOK'
  BY <1>2, <1>3, Levels, Zenon DEF TypeOK, LOG_DEBUG
<1>5. HandlerShape'
  BY <1>1, Levels DEF HandlerShape
<1>6. MutexShape'
  BY <1>1, Levels DEF MutexShape, Holding
<1>7. FileShape' /\ LoopShape' /\ CrashOnlyBy'
  BY <1>1, Levels DEF FileShape, LoopShape, CrashOnlyBy
<1> QED BY <1>4, <1>5, <1>6, <1>7 DEF Control

(* One turn of the rename loop. *)
LEMMA RenameControl == ASSUME Control, Rename PROVE Control'
<1>1. /\ pc[active] = "rename" /\ active \in Activations /\ slot \in 0 .. MaxLogFiles - 1
      /\ slot >= 1 /\ slot' = slot - 1
      /\ pc' = [pc EXCEPT ![active] = IF slot = 1 THEN "reopen" ELSE "rename"]
      /\ UNCHANGED <<file, level, rotate, mutex, active, todo, status, badOpen>>
      /\ badRename' \in BOOLEAN
  BY DEF Rename, At, Goto, Control, TypeOK, LoopShape
<1>2. DOMAIN disk' = Slots
  BY DEF Rename, Control, TypeOK
<1>3. /\ slot' \in 0 .. MaxLogFiles - 1
      /\ pc'[active] \in {"rename", "reopen"}
      /\ pc'[active] = "rename" => slot' >= 1
      /\ pc'[active] = "reopen" => slot' = 0
      /\ \A a \in Activations : a # active => pc'[a] = pc[a]
      /\ mutex = active
  BY <1>1, LoggerAssumption DEF Control, TypeOK, MutexShape, Holding
<1>4. TypeOK'
  BY <1>1, <1>2, <1>3 DEF Control, TypeOK
<1>5. HandlerShape' /\ MutexShape' /\ FileShape' /\ CrashOnlyBy'
  BY <1>1, <1>3 DEF Control, HandlerShape, MutexShape, FileShape, CrashOnlyBy, Activations, Holding
<1>6. LoopShape'
  BY <1>1, <1>3 DEF Control, MutexShape, LoopShape, Activations, Holding
<1> QED BY <1>4, <1>5, <1>6 DEF Control

(* Every action keeps the control part of the invariant. *)
LEMMA ControlStep ==
    ASSUME Control, [Next]_vars
    PROVE  Control'
<1> USE LoggerAssumption, ArgumentAssumption
    DEF Control, TypeOK, HandlerShape, MutexShape, FileShape, LoopShape, CrashOnlyBy,
        Holding, At, Goto, LOG_DEBUG, LOG_INFO, LOG_FATAL
<1> USE Levels
<1>1. CASE InitCall
  BY <1>1 DEF InitCall, diskVars
<1>2. CASE InitFails
  <2>1. active = 0 /\ pc[0] = "init_open" /\ \A a \in Activations \ {0} : pc[a] = "idle"
    BY <1>2 DEF InitFails
  <2>2. /\ pc' = [pc EXCEPT ![0] = "idle"] /\ active' = 0 /\ file' = "null" /\ mutex' = mutex
        /\ status' = status /\ slot' = slot /\ badOpen' = badOpen /\ badRename' = badRename
    BY <1>2, <2>1 DEF InitFails
  <2>3. \A a \in Activations : pc'[a] = "idle"
    BY <2>1, <2>2
  <2>4. TypeOK'
    BY <1>2 DEF InitFails, Created
  <2>5. mutex \notin Activations
    BY <2>1
  <2>6. HandlerShape' /\ MutexShape'
    BY <2>2, <2>3, <2>5
  <2>7. FileShape' /\ LoopShape' /\ CrashOnlyBy'
    BY <1>2, <2>1, <2>2, <2>3 DEF InitFails
  <2> HIDE DEF TypeOK, HandlerShape, MutexShape, FileShape, LoopShape, CrashOnlyBy
  <2> QED BY <2>4, <2>6, <2>7
<1>3. ASSUME NEW lvl \in InitLevels, NEW rot \in InitRotate, InitOpen(lvl, rot) PROVE Control'
  BY <1>3 DEF InitOpen, Created
<1>4. CASE Lock
  BY <1>4 DEF Lock, diskVars
<1>5. CASE SizeCheck
  BY <1>5 DEF SizeCheck, SizeCheckFrom, diskVars
<1>6. CASE Rename
  BY <1>6, RenameControl
<1>7. CASE Reopen
  BY <1>7, ZenonT(90) DEF Reopen
<1>8. CASE Write
  BY <1>8 DEF Write
<1>9. CASE Unlock
  BY <1>9 DEF Unlock, AfterCall, diskVars
<1>10. CASE SetLevelCall
  BY <1>10 DEF SetLevelCall, diskVars
<1>11. CASE SetLevelLock
  BY <1>11 DEF SetLevelLock, diskVars
<1>12. ASSUME NEW lvl \in InitLevels, SetLevel(lvl) PROVE Control'
  BY <1>12 DEF SetLevel, diskVars
<1>13. CASE CleanupCall
  BY <1>13 DEF CleanupCall, diskVars
<1>14. CASE CleanupLock
  BY <1>14 DEF CleanupLock, CleanupLockAt, diskVars
<1>15. CASE CleanupClose
  BY <1>15 DEF CleanupClose, diskVars
<1>16. CASE Signal
  BY <1>16 DEF Signal, diskVars
<1>17. ASSUME NEW lvl \in {LOG_INFO, LOG_FATAL}, HandlerLog(lvl) PROVE Control'
  BY <1>17 DEF HandlerLog, diskVars
<1>18. CASE HandlerExit
  BY <1>18 DEF HandlerExit, diskVars
<1>19. CASE NextRun
  BY <1>19, FreshControl DEF NextRun, diskVars
<1>20. ASSUME NEW lvl \in InitLevels, LogCall(lvl) PROVE Control'
  BY <1>20 DEF LogCall, diskVars
<1>21. CASE UNCHANGED vars
  BY <1>21 DEF vars, procVars, diskVars
<1> QED
  BY <1>1, <1>2, <1>3, <1>4, <1>5, <1>6, <1>7, <1>8, <1>9, <1>10, <1>11, <1>12, <1>13, <1>14,
     <1>15, <1>16, <1>17, <1>18, <1>19, <1>20, <1>21 DEF Next, Continue

(* Control holds initially. *)
LEMMA InitControl == Init => Control
<1> SUFFICES ASSUME Init PROVE Control
  OBVIOUS
<1>1. \A a \in Activations : pc[a] = "idle"
  BY DEF Init
<1>2. 0 \in LOG_DEBUG .. LOG_FATAL /\ 0 \in 0 .. MaxLogFiles - 1 /\ 0 \in 0 .. HandlerLogs
  BY LoggerAssumption DEF LOG_DEBUG, LOG_FATAL
<1>3. pc \in [Activations -> {"idle", "next", "init_open", "lock", "check", "rename", "reopen",
                 "write", "unlock", "set_lock", "set_store", "clean_lock", "clean_close"}]
  BY DEF Init
<1>4. TypeOK
  BY <1>2, <1>3, Levels, Zenon DEF Init, TypeOK, LOG_DEBUG
<1>5. HandlerShape
  BY <1>1, Levels DEF Init, HandlerShape
<1>6. MutexShape
  BY <1>1, Levels DEF Init, MutexShape, Holding
<1>7. FileShape /\ LoopShape /\ CrashOnlyBy
  BY <1>1, Levels DEF Init, FileShape, LoopShape, CrashOnlyBy
<1> QED BY <1>4, <1>5, <1>6, <1>7 DEF Control

(* Control holds in every reachable state. *)
LEMMA AlwaysControl == Spec => []Control
<1>1. Control /\ [Next]_vars => Control'
  BY ControlStep
<1> QED BY InitControl, <1>1, PTL DEF Spec

(* The statics of logger.c stay in their ranges; the loop of               *)
(* rotate_log_files never leaves the archives.                             *)
THEOREM LoggerTypes == Spec => []TypeOK
<1>1. Control => TypeOK
  BY DEF Control
<1> QED BY <1>1, AlwaysControl, PTL

(* With any number of signals nested in any order, an activation that      *)
(* waits for ever in logger.c asks for a mutex it holds itself, with the   *)
(* message of a rotation or of logger_cleanup, when LOG_INFO is written;   *)
(* or it is a handler and one of the activations it interrupted has it.    *)
THEOREM WedgedByOwnMutex == Spec => []WedgedOnlyBy
<1>1. Control => WedgedOnlyBy
  BY DEF Control, TypeOK, HandlerShape, MutexShape, WedgedOnlyBy, Wedged, Activations, Holding
<1> QED BY <1>1, AlwaysControl, PTL

(* fprintf meets a bad FILE pointer only after a reopening failed in this  *)
(* run, or in a handler that interrupted logger_init.                      *)
THEOREM CrashedForTwoReasons == Spec => []CrashOnlyBy
<1>1. Control => CrashOnlyBy
  BY DEF Control
<1> QED BY <1>1, AlwaysControl, PTL

-----------------------------------------------------------------------------
(* The files are sequences of lines, and logger.file is open on one.       *)
DiskShape ==
    /\ disk \in [Slots -> Seq(Nat) \union {None}]
    /\ lines \in Nat
    /\ file = "open" => disk[0] # None

(* The target of each rename was emptied by the one before, except that of *)
(* the first, which drops the oldest archive; so was the log at the end.   *)
LadderShape ==
    \A a \in Activations :
        pc[a] = "reopen" \/ (pc[a] = "rename" /\ slot < MaxLogFiles - 1) =>
            badRename \/ disk[slot] = None

Files == DiskShape /\ LadderShape /\ LogContiguous

(* The lines in a file are a sequence of numbers. *)
LEMMA LinesAreNumbers ==
    ASSUME DiskShape, NEW n \in Slots
    PROVE  /\ LinesIn(n) \in Seq(Nat) /\ Len(LinesIn(n)) \in Nat
           /\ \A i \in 1 .. Len(LinesIn(n)) : LinesIn(n)[i] \in Nat
<1>1. LinesIn(n) \in Seq(Nat)
  <2>1. <<>> \in Seq(Nat)
    OBVIOUS
  <2> QED BY <2>1 DEF DiskShape, LinesIn
<1> QED BY <1>1

(* A file that is created, or removed, without a line in it changes nothing. *)
LEMMA SameLines ==
    ASSUME \A n \in Slots : LinesIn(n)' = LinesIn(n), lines' = lines,
           OldestFirst, NoneMissing
    PROVE  OldestFirst' /\ NoneMissing'
<1>1. OldestFirst'
  BY DEF OldestFirst
<1>2. \A k : OnDisk(k) => OnDisk(k)'
  BY DEF OnDisk
<1>3. NoneMissing'
  BY <1>2 DEF NoneMissing
<1> QED BY <1>1, <1>3

(* Renaming a file to a number that is free, or to the highest one, keeps  *)
(* the lines in order and drops none but the oldest.                       *)
LEMMA RenamedLines ==
    ASSUME NEW s \in Slots, s >= 1, DiskShape, OldestFirst, NoneMissing, lines' = lines,
           LinesIn(s)' = LinesIn(s - 1), LinesIn(s - 1)' = <<>>,
           \A n \in Slots \ {s, s - 1} : LinesIn(n)' = LinesIn(n),
           s = MaxLogFiles - 1 \/ LinesIn(s) = <<>>
    PROVE  OldestFirst' /\ NoneMissing'
<1> DEFINE from(n) == IF n = s THEN s - 1 ELSE n
<1>1. s - 1 \in Slots /\ s \in Int /\ \A n \in Slots : n \in Int /\ n <= MaxLogFiles - 1
  BY LoggerAssumption DEF Slots
<1>2. ASSUME NEW n \in Slots, NEW i \in 1 .. Len(LinesIn(n)')
      PROVE  /\ n # s - 1 /\ from(n) \in Slots \ {s}
             /\ LinesIn(n)' = LinesIn(from(n))
             /\ i \in 1 .. Len(LinesIn(from(n)))
  <2>1. n # s - 1
    BY <1>2, Len(<<>>) = 0
  <2> QED BY <1>1, <1>2, <2>1
<1>3. OldestFirst'
  <2> SUFFICES ASSUME NEW m \in Slots, NEW n \in Slots,
                      NEW i \in 1 .. Len(LinesIn(m)'), NEW j \in 1 .. Len(LinesIn(n)'),
                      m > n \/ (m = n /\ i < j)
               PROVE  LinesIn(m)'[i] < LinesIn(n)'[j]
    BY DEF OldestFirst
  <2>1. m # s - 1 /\ n # s - 1 /\ from(m) \in Slots /\ from(n) \in Slots
    BY <1>2
  <2>2. from(m) > from(n) \/ (from(m) = from(n) /\ i < j)
    BY <1>1, <2>1
  <2>3. LinesIn(from(m))[i] < LinesIn(from(n))[j]
    <3> HIDE DEF from
    <3> QED BY <1>2, <2>1, <2>2 DEF OldestFirst
  <2> QED BY <1>2, <2>3
<1>4. NoneMissing'
  <2> SUFFICES ASSUME NEW n \in Slots, NEW i \in 1 .. Len(LinesIn(n)')
               PROVE  /\ LinesIn(n)'[i] <= lines
                      /\ \A k \in LinesIn(n)'[i] .. lines : OnDisk(k)'
    BY DEF NoneMissing
  <2>1. PICK f \in Slots \ {s} : LinesIn(n)' = LinesIn(f) /\ i \in 1 .. Len(LinesIn(f))
    BY <1>2
  <2>2. LinesIn(f)[i] <= lines /\ \A k \in LinesIn(f)[i] .. lines : OnDisk(k)
    BY <2>1 DEF NoneMissing
  <2>3. ASSUME NEW k \in LinesIn(f)[i] .. lines PROVE OnDisk(k)'
    <3>0. PICK m \in Slots : \E j \in 1 .. Len(LinesIn(m)) : LinesIn(m)[j] = k
      BY <2>2, <2>3 DEF OnDisk
    <3>1. PICK j \in 1 .. Len(LinesIn(m)) : LinesIn(m)[j] = k
      BY <3>0
    <3>2. m # s
      <4> SUFFICES ASSUME m = s PROVE FALSE
        OBVIOUS
      <4>1. s = MaxLogFiles - 1
        BY <3>1, Len(<<>>) = 0
      <4>2. m > f
        BY <1>1, <2>1, <4>1
      <4>3. LinesIn(m)[j] < LinesIn(f)[i]
        BY <2>1, <3>1, <4>2 DEF OldestFirst
      <4>4. k \in Nat /\ LinesIn(f)[i] \in Nat
        BY <2>1, <2>3, <3>1, LinesAreNumbers
      <4> QED BY <2>3, <3>1, <4>3, <4>4
    <3>3. CASE m = s - 1
      BY <3>1, <3>3 DEF OnDisk
    <3>4. CASE m # s - 1
      BY <3>1, <3>2, <3>4 DEF OnDisk
    <3> QED BY <3>3, <3>4
  <2> QED BY <2>1, <2>2, <2>3
<1> QED BY <1>3, <1>4

(* Writing the next line at the end of the log keeps the lines in order    *)
(* and leaves no gap.                                                      *)
LEMMA WrittenLines ==
    ASSUME DiskShape, OldestFirst, NoneMissing, lines' = lines + 1,
           LinesIn(0)' = Append(LinesIn(0), lines + 1),
           \A n \in Slots \ {0} : LinesIn(n)' = LinesIn(n)
    PROVE  OldestFirst' /\ NoneMissing'
<1> DEFINE last == Len(LinesIn(0)) + 1
<1>1. 0 \in Slots /\ lines \in Nat /\ \A n \in Slots : n \in Nat
  BY LoggerAssumption DEF Slots, DiskShape
<1>2. /\ LinesIn(0) \in Seq(Nat) /\ Len(LinesIn(0)') = last /\ last \in Nat
      /\ LinesIn(0)'[last] = lines + 1
      /\ \A i \in 1 .. Len(LinesIn(0)) : LinesIn(0)'[i] = LinesIn(0)[i]
  BY <1>1, LinesAreNumbers
<1>3. ASSUME NEW n \in Slots, NEW i \in 1 .. Len(LinesIn(n)), ~(n = 0 /\ i = last)
      PROVE  i \in 1 .. Len(LinesIn(n)') /\ LinesIn(n)'[i] = LinesIn(n)[i]
  BY <1>1, <1>2, <1>3
<1>4. ASSUME NEW n \in Slots, NEW i \in 1 .. Len(LinesIn(n)'), ~(n = 0 /\ i = last)
      PROVE  /\ i \in 1 .. Len(LinesIn(n)) /\ LinesIn(n)'[i] = LinesIn(n)[i]
             /\ LinesIn(n)[i] \in Nat /\ LinesIn(n)[i] <= lines
  <2>1. i \in 1 .. Len(LinesIn(n)) /\ LinesIn(n)'[i] = LinesIn(n)[i]
    BY <1>1, <1>2, <1>4
  <2> QED BY <2>1, LinesAreNumbers DEF NoneMissing
<1>5. OldestFirst'
  <2> SUFFICES ASSUME NEW m \in Slots, NEW n \in Slots,
                      NEW i \in 1 .. Len(LinesIn(m)'), NEW j \in 1 .. Len(LinesIn(n)'),
                      m > n \/ (m = n /\ i < j)
               PROVE  LinesIn(m)'[i] < LinesIn(n)'[j]
    BY DEF OldestFirst
  <2>1. ~(m = 0 /\ i = last)
    BY <1>1, <1>2
  <2>2. CASE n = 0 /\ j = last
    BY <1>1, <1>2, <1>4, <2>1, <2>2
  <2>3. CASE ~(n = 0 /\ j = last)
    <3>1. i \in 1 .. Len(LinesIn(m)) /\ LinesIn(m)'[i] = LinesIn(m)[i]
      BY <1>4, <2>1
    <3>2. j \in 1 .. Len(LinesIn(n)) /\ LinesIn(n)'[j] = LinesIn(n)[j]
      BY <1>4, <2>3
    <3>3. LinesIn(m)[i] < LinesIn(n)[j]
      BY <3>1, <3>2 DEF OldestFirst
    <3> QED BY <3>1, <3>2, <3>3
  <2> QED BY <2>2, <2>3
<1>6. NoneMissing'
  <2>1. \A k : k = lines + 1 => OnDisk(k)'
    <3>1. last \in 1 .. Len(LinesIn(0)')
      BY <1>2
    <3> QED BY <1>1, <1>2, <3>1 DEF OnDisk
  <2>2. ASSUME NEW k, OnDisk(k) PROVE OnDisk(k)'
    <3>0. PICK n \in Slots : \E i \in 1 .. Len(LinesIn(n)) : LinesIn(n)[i] = k
      BY <2>2 DEF OnDisk
    <3>1. PICK i \in 1 .. Len(LinesIn(n)) : LinesIn(n)[i] = k
      BY <3>0
    <3>2. ~(n = 0 /\ i = last)
      BY <1>2
    <3> HIDE DEF last
    <3>3. i \in 1 .. Len(LinesIn(n)') /\ LinesIn(n)'[i] = k
      BY <1>3, <3>1, <3>2
    <3> QED BY <3>3 DEF OnDisk
  <2> SUFFICES ASSUME NEW n \in Slots, NEW i \in 1 .. Len(LinesIn(n)')
               PROVE  /\ LinesIn(n)'[i] <= lines + 1
                      /\ \A k \in LinesIn(n)'[i] .. lines + 1 : OnDisk(k)'
    BY DEF NoneMissing
  <2>3. CASE n = 0 /\ i = last
    <3>1. LinesIn(n)'[i] = lines + 1
      BY <1>2, <2>3
    <3>2. \A k \in lines + 1 .. lines + 1 : k = lines + 1
      BY <1>1
    <3> QED BY <1>1, <2>1, <3>1, <3>2
  <2>4. CASE ~(n = 0 /\ i = last)
    <3> HIDE DEF last
    <3>1. /\ i \in 1 .. Len(LinesIn(n)) /\ LinesIn(n)'[i] = LinesIn(n)[i]
          /\ LinesIn(n)[i] \in Nat /\ LinesIn(n)[i] <= lines
      BY <1>4, <2>4
    <3>2. \A k \in LinesIn(n)[i] .. lines : OnDisk(k)
      BY <3>1 DEF NoneMissing
    <3>3. \A k \in LinesIn(n)[i] .. lines + 1 : k \in LinesIn(n)[i] .. lines \/ k = lines + 1
      BY <1>1, <3>1
    <3>4. LinesIn(n)[i] <= lines + 1
      BY <1>1, <3>1
    <3> QED BY <2>1, <2>2, <3>1, <3>2, <3>3, <3>4
  <2> QED BY <2>3, <2>4
<1> QED BY <1>5, <1>6

-----------------------------------------------------------------------------
(* Two activations are never between a lock and its unlock together.       *)
LEMMA OneHolder ==
    ASSUME Control, NEW a \in Activations, NEW b \in Activations,
           pc[a] \in Holding, pc[b] \in Holding
    PROVE  a = b
  BY DEF Control, MutexShape

(* A step that leaves the files alone, opens none and starts no rename.    *)
LEMMA QuietStep ==
    ASSUME Files, UNCHANGED diskVars, file' = "open" => file = "open",
           \A a \in Activations :
               pc'[a] \in {"rename", "reopen"} => pc'[a] = pc[a] /\ slot' = slot
    PROVE  Files'
<1> USE DEF diskVars
<1>1. DiskShape'
  BY DEF Files, DiskShape
<1>2. LadderShape'
  BY DEF Files, LadderShape
<1>3. LogContiguous'
  BY DEF Files, LogContiguous, OldestFirst, NoneMissing, OnDisk, LinesIn
<1> QED BY <1>1, <1>2, <1>3 DEF Files

(* fopen(..., "a") of logger_init. *)
LEMMA CreatedFiles ==
    ASSUME Files, disk' = Created, UNCHANGED <<lines, badRename>>,
           \A a \in Activations : pc'[a] \notin {"rename", "reopen"}
    PROVE  Files'
<1>1. /\ 0 \in Slots /\ disk' \in [Slots -> Seq(Nat) \union {None}] /\ disk'[0] # None
      /\ \A n \in Slots : disk'[n] = disk[n] \/ (disk[n] = None /\ disk'[n] = <<>>)
  <2>1. 0 \in Slots /\ <<>> \in Seq(Nat)
    BY LoggerAssumption DEF Slots
  <2> QED BY <2>1, LoggerAssumption DEF Files, DiskShape, Created
<1>2. \A n \in Slots : LinesIn(n)' = LinesIn(n)
  BY <1>1 DEF LinesIn
<1>3. LogContiguous'
  BY <1>2, SameLines DEF Files, LogContiguous
<1> QED BY <1>1, <1>3 DEF Files, DiskShape, LadderShape

(* One turn of the rename loop. *)
LEMMA RenameFiles == ASSUME Control, Files, Rename PROVE Files'
<1>1. /\ active \in Activations /\ pc[active] = "rename" /\ slot \in Slots /\ slot >= 1
      /\ slot' = slot - 1 /\ slot - 1 \in Slots /\ slot - 1 # slot
      /\ file' = file /\ lines' = lines
      /\ pc' = [pc EXCEPT ![active] = IF slot = 1 THEN "reopen" ELSE "rename"]
  BY LoggerAssumption DEF Rename, At, Goto, Control, TypeOK, LoopShape, Slots
<1>2. mutex = active /\ file # "open"
  BY <1>1 DEF Control, MutexShape, FileShape, Holding
<1>3. \A a \in Activations : a # active => pc'[a] = pc[a] /\ pc[a] \notin {"rename", "reopen"}
  BY <1>1, OneHolder DEF Holding
<1>4. disk \in [Slots -> Seq(Nat) \union {None}]
  BY DEF Files, DiskShape
<1>5. CASE disk' = disk /\ badRename' = TRUE
  BY <1>1, <1>2, <1>5 DEF Files, DiskShape, LadderShape, LogContiguous
<1>6. CASE disk[slot - 1] = None /\ disk' = disk /\ badRename' = badRename
  <2>1. DiskShape'
    BY <1>1, <1>2, <1>6 DEF Files, DiskShape
  <2>2. LogContiguous'
    BY <1>1, <1>6 DEF Files, LogContiguous, OldestFirst, NoneMissing, OnDisk, LinesIn
  <2>3. LadderShape'
    BY <1>1, <1>3, <1>6 DEF LadderShape
  <2> QED BY <2>1, <2>2, <2>3 DEF Files
<1>7. CASE /\ disk[slot - 1] # None /\ badRename' = badRename
           /\ disk' = [disk EXCEPT ![slot] = disk[slot - 1], ![slot - 1] = None]
  <2>1. /\ disk' \in [Slots -> Seq(Nat) \union {None}]
        /\ disk'[slot] = disk[slot - 1] /\ disk'[slot - 1] = None
        /\ \A n \in Slots \ {slot, slot - 1} : disk'[n] = disk[n]
    BY <1>1, <1>4, <1>7
  <2>2. DiskShape'
    BY <1>1, <1>2, <2>1 DEF Files, DiskShape
  <2>3. LadderShape'
    BY <1>1, <1>3, <2>1 DEF LadderShape
  <2>4. LogContiguous'
    <3>1. CASE badRename
      BY <1>7, <3>1 DEF LogContiguous
    <3>2. CASE ~badRename
      <4>1. PICK s \in Slots : s = slot
        BY <1>1
      <4>2. s = MaxLogFiles - 1 \/ LinesIn(s) = <<>>
        <5>1. s = MaxLogFiles - 1 \/ disk[s] = None
          BY <1>1, <3>2, <4>1, LoggerAssumption DEF Files, LadderShape, Slots
        <5> QED BY <5>1 DEF LinesIn
      <4>3. /\ LinesIn(s)' = LinesIn(s - 1) /\ LinesIn(s - 1)' = <<>>
            /\ \A n \in Slots \ {s, s - 1} : LinesIn(n)' = LinesIn(n)
        BY <1>7, <2>1, <4>1 DEF LinesIn
      <4>4. OldestFirst' /\ NoneMissing'
        BY <1>1, <3>2, <4>1, <4>2, <4>3, RenamedLines DEF Files, LogContiguous
      <4> QED BY <4>4 DEF LogContiguous
    <3> QED BY <3>1, <3>2
  <2> QED BY <2>2, <2>3, <2>4 DEF Files
<1> QED BY <1>5, <1>6, <1>7 DEF Rename

(* The reopening at the end of a rotation: the renames left no log behind. *)
LEMMA ReopenFiles == ASSUME Control, Files, Reopen PROVE Files'
<1>1. /\ active \in Activations /\ pc[active] = "reopen" /\ slot = 0
      /\ \A a \in Activations : pc'[a] \notin {"rename", "reopen"}
      /\ UNCHANGED <<lines, badRename>>
  BY OneHolder DEF Reopen, At, Goto, Control, TypeOK, LoopShape, Holding
<1>2. CASE file' = "null" /\ disk' = disk
  BY <1>1, <1>2 DEF Files, DiskShape, LadderShape, LogContiguous, OldestFirst, NoneMissing,
                    OnDisk, LinesIn
<1>3. CASE disk' = [disk EXCEPT ![0] = <<>>]
  <2>1. badRename \/ disk[0] = None
    BY <1>1 DEF Files, LadderShape
  <2>2. DiskShape'
    <3>1. 0 \in Slots /\ <<>> \in Seq(Nat)
      BY LoggerAssumption DEF Slots
    <3> QED BY <1>1, <1>3, <3>1, LoggerAssumption DEF Files, DiskShape
  <2>3. CASE badRename
    BY <1>1, <2>2, <2>3 DEF Files, LadderShape, LogContiguous
  <2>4. CASE disk[0] = None
    <3>1. \A n \in Slots : LinesIn(n)' = LinesIn(n)
      BY <1>3, <2>4 DEF Files, DiskShape, LinesIn
    <3>2. LogContiguous'
      BY <1>1, <3>1, SameLines DEF Files, LogContiguous
    <3> QED BY <1>1, <2>2, <3>2 DEF Files, LadderShape
  <2> QED BY <2>1, <2>3, <2>4
<1> QED BY <1>2, <1>3 DEF Reopen

(* A message goes to the end of the log. *)
LEMMA WriteFiles == ASSUME Control, Files, Write PROVE Files'
<1>1. CASE file # "open"
  BY <1>1, QuietStep DEF Write, diskVars
<1>2. CASE file = "open"
  <2>1. /\ active \in Activations /\ pc[active] = "write"
        /\ \A a \in Activations : pc'[a] \notin {"rename", "reopen"}
        /\ lines' = lines + 1 /\ badRename' = badRename /\ file' = file
        /\ disk' = [disk EXCEPT ![0] = Append(@, lines + 1)]
    BY <1>2, OneHolder DEF Write, At, Goto, Control, TypeOK, Holding
  <2>2. 0 \in Slots /\ lines \in Nat /\ disk[0] \in Seq(Nat) /\ disk[0] # None
    BY <1>2, LoggerAssumption DEF Files, DiskShape, Slots
  <2>3. Append(disk[0], lines + 1) \in Seq(Nat) /\ Append(disk[0], lines + 1) # None
    <3>1. lines + 1 \in Nat
      BY <2>2
    <3>2. Append(disk[0], lines + 1) \in Seq(Nat)
      BY <2>2, <3>1
    <3> QED BY <3>2, LoggerAssumption
  <2>4. DiskShape'
    BY <2>1, <2>2, <2>3 DEF Files, DiskShape
  <2>5. /\ LinesIn(0)' = Append(LinesIn(0), lines + 1)
        /\ \A n \in Slots \ {0} : LinesIn(n)' = LinesIn(n)
    BY <2>1, <2>2, <2>3 DEF Files, DiskShape, LinesIn
  <2>6. LogContiguous'
    BY <2>1, <2>5, WrittenLines DEF Files, LogContiguous
  <2> QED BY <2>1, <2>4, <2>6 DEF Files, LadderShape
<1> QED BY <1>1, <1>2

(* The file steps of logger.c, each kept by its lemma; the others are quiet. *)
LEMMA FilesStep == ASSUME Control, Files, [Next]_vars PROVE Files'
<1> USE DEF At, Goto
<1>0. pc \in [Activations -> {"idle", "next", "init_open", "lock", "check", "rename", "reopen",
                 "write", "unlock", "set_lock", "set_store", "clean_lock", "clean_close"}]
      /\ active \in Activations
  BY DEF Control, TypeOK
<1>1. ASSUME InitFails \/ \E lvl \in InitLevels, rot \in InitRotate : InitOpen(lvl, rot)
      PROVE  Files'
  <2>1. \A a \in Activations : pc'[a] \notin {"rename", "reopen"}
    <3>1. active = 0 /\ \A a \in Activations \ {0} : pc[a] = "idle"
      BY <1>0, <1>1, Levels DEF InitFails, InitOpen, Control, HandlerShape
    <3>2. PICK p \in {"idle", "lock"} : pc' = [pc EXCEPT ![0] = p]
      BY <1>1, <3>1 DEF InitFails, InitOpen
    <3> QED BY <1>0, <3>1, <3>2
  <2>2. UNCHANGED <<lines, badRename>>
    BY <1>1 DEF InitFails, InitOpen
  <2>3. CASE disk' = Created
    BY <2>1, <2>2, <2>3, CreatedFiles
  <2>4. CASE disk' = disk /\ file' = "null"
    BY <2>1, <2>2, <2>4, QuietStep DEF diskVars
  <2> QED BY <1>1, <2>3, <2>4 DEF InitFails, InitOpen
<1>2. CASE Rename
  BY <1>2, RenameFiles
<1>3. CASE Reopen
  BY <1>3, ReopenFiles
<1>4. CASE Write
  BY <1>4, WriteFiles
<1>5. CASE SizeCheck
  <2>1. CASE file' = "closed" /\ slot' = MaxLogFiles - 1 /\ pc' = [pc EXCEPT ![active] = "rename"]
    <3>0. pc[active] = "check" /\ UNCHANGED diskVars
      BY <1>5 DEF SizeCheck, SizeCheckFrom
    <3>1. \A a \in Activations : a # active => pc[a] \notin {"rename", "reopen"}
      BY <1>0, <3>0, OneHolder DEF Holding
    <3>2. LadderShape'
      BY <1>0, <2>1, <3>0, <3>1, LoggerAssumption DEF LadderShape
    <3>3. DiskShape' /\ LogContiguous'
      BY <2>1, <3>0 DEF diskVars, Files, DiskShape, LogContiguous, OldestFirst, NoneMissing,
                        OnDisk, LinesIn
    <3> QED BY <3>2, <3>3 DEF Files
  <2>2. CASE UNCHANGED <<file, slot>> /\ pc' \in {pc, [pc EXCEPT ![active] = "write"]}
    <3>1. UNCHANGED diskVars
      BY <1>5 DEF SizeCheck, SizeCheckFrom
    <3>2. \A a \in Activations : pc'[a] \in {"rename", "reopen"} => pc'[a] = pc[a] /\ slot' = slot
      BY <1>0, <2>2
    <3> QED BY <2>2, <3>1, <3>2, QuietStep
  <2> QED BY <1>5, <2>1, <2>2 DEF SizeCheck, SizeCheckFrom
<1>6. CASE NextRun
  BY <1>6, QuietStep DEF NextRun
<1>7. CASE InitCall \/ Lock \/ Unlock \/ SetLevelCall \/ SetLevelLock \/ CleanupCall
  BY <1>0, <1>7, QuietStep
     DEF InitCall, Lock, Unlock, AfterCall, SetLevelCall, SetLevelLock, CleanupCall
<1>8. CASE CleanupLock \/ CleanupClose \/ Signal \/ HandlerExit
  BY <1>0, <1>8, QuietStep
     DEF CleanupLock, CleanupLockAt, CleanupClose, Signal, HandlerExit, Activations
<1>9. ASSUME NEW lvl, SetLevel(lvl) \/ HandlerLog(lvl) \/ LogCall(lvl) PROVE Files'
  BY <1>0, <1>9, QuietStep DEF SetLevel, HandlerLog, LogCall
<1>10. CASE UNCHANGED vars
  BY <1>10, QuietStep DEF vars, procVars
<1> QED
  BY <1>1, <1>2, <1>3, <1>4, <1>5, <1>6, <1>7, <1>8, <1>9, <1>10 DEF Next, Continue

(* Whatever kill, restart, signal or failed fopen interrupts a rotation,   *)
(* the files hold the last lines written, in order and with none missing,  *)
(* unless a rename failed although its source was there.                   *)
THEOREM RotationKeepsOrder == Spec => []LogContiguous
<1>1. Init => Files
  <2> SUFFICES ASSUME Init PROVE Files
    OBVIOUS
  <2>1. DiskShape /\ LadderShape
    BY DEF Init, DiskShape, LadderShape, Activations
  <2>2. \A n \in Slots : LinesIn(n) = <<>>
    BY DEF Init, LinesIn
  <2>3. OldestFirst /\ NoneMissing
    BY <2>2, Len(<<>>) = 0 DEF OldestFirst, NoneMissing
  <2> QED BY <2>1, <2>3 DEF Files, LogContiguous
<1>2. Control /\ Files /\ [Next]_vars => Files'
  BY FilesStep
<1>3. Files => LogContiguous
  BY DEF Files
<1> QED BY <1>1, <1>2, <1>3, AlwaysControl, PTL DEF Spec
=============================================================================
