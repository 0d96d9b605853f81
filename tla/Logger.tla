------------------------------- MODULE Logger -------------------------------
(***************************************************************************)
(* utils/logger.c: one log file shared through a plain (non-recursive)     *)
(* mutex, rotated by size through a chain of renames. The program has one  *)
(* thread; signal_handler (core/main.c, utils/error_handler.c) runs on top *)
(* of it, logs, and calls exit(1), so it never gives control back. Each of *)
(* its signals is blocked only while it is handled itself: a handler can   *)
(* be interrupted by another. Activation 0 is the main program, n the n-th *)
(* handler; only the last one started moves.                               *)
(*                                                                         *)
(* The file system outlives the process: a kill between two renames, an    *)
(* ignored rename error and the next run are part of the model. A log line *)
(* is its number; a file is the sequence of the lines in it.               *)
(***************************************************************************)
EXTENDS Integers, Sequences

CONSTANTS
    InitLevels,   \* levels logger_init and logger_set_level are called with
    InitRotate,   \* the rotate arguments of logger_init (main.c passes 1, the tests 0)
    MaxLogFiles,  \* MAX_LOG_FILES (10 in the code)
    MaxLogSize,   \* MAX_LOG_SIZE, in lines
    MaxLines,     \* bound: lines the main program writes
    MaxRuns,      \* bound: runs of the program
    MaxNest,      \* signals that have the handler (main.c: SIGINT and SIGTERM)
    HandlerLogs,  \* log calls of one signal handler
    None          \* a file that does not exist

ASSUME LoggerAssumption ==
    /\ MaxLogFiles \in Nat /\ MaxLogFiles >= 2
    /\ MaxLogSize \in Nat /\ MaxLines \in Nat /\ MaxRuns \in Nat
    /\ HandlerLogs \in Nat \ {0} /\ MaxNest \in Nat
    /\ None \notin Seq(Nat)

LOG_DEBUG == 0
LOG_INFO  == 1
LOG_FATAL == 4

ASSUME ArgumentAssumption ==
    InitLevels \subseteq LOG_DEBUG .. LOG_FATAL /\ InitRotate \subseteq BOOLEAN

VARIABLES
    file,      \* logger.file: "null", "open", or "closed" (a dangling FILE pointer)
    level,     \* logger.level
    rotate,    \* logger.rotate
    mutex,     \* logger.mutex: the activation that holds it, Free or Destroyed
    active,    \* the activation that runs
    pc,        \* where each activation stands in logger.c
    slot,      \* the loop variable of rotate_log_files
    todo,      \* log calls the running handler still has to make
    status,    \* "running", "exited" or "crashed"
    disk,      \* disk[0] is the log, disk[n] is <log>.n
    lines,     \* lines written so far
    runs,      \* runs of the program so far
    badRename, \* history: a rename failed although its source existed (at most once)
    badOpen    \* history: the fopen of this run's last rotation failed

procVars == <<file, level, rotate, mutex, active, pc, slot, todo, status>>
diskVars == <<disk, lines, badRename>>
vars == <<procVars, diskVars, runs, badOpen>>

Slots == 0 .. MaxLogFiles - 1
Activations == 0 .. MaxNest
Free == -1
Destroyed == -2
At(p) == status = "running" /\ pc[active] = p
Goto(p) == pc' = [pc EXCEPT ![active] = p]
AfterCall == IF active = 0 THEN "idle" ELSE "next"

Init ==
    /\ file = "null" /\ level = LOG_DEBUG /\ rotate = FALSE /\ mutex = Free
    /\ active = 0 /\ pc = [a \in Activations |-> "idle"]
    /\ slot = 0 /\ todo = 0 /\ status = "running"
    /\ disk = [n \in Slots |-> None]
    /\ lines = 0 /\ runs = 1 /\ badRename = FALSE /\ badOpen = FALSE
-----------------------------------------------------------------------------
(* logger_init: a file that is already open is closed first, without the   *)
(* mutex and leaving logger.file dangling until the next statement.        *)
InitCall ==
    /\ At("idle") /\ active = 0
    /\ file' = IF file = "null" THEN "null" ELSE "closed"
    /\ Goto("init_open")
    /\ UNCHANGED <<level, rotate, mutex, active, slot, todo, status, diskVars, runs, badOpen>>

(* fopen(..., "a") creates a missing log. *)
Created == [disk EXCEPT ![0] = IF @ = None THEN <<>> ELSE @]

(* A failing fopen, or a failing pthread_mutex_init after the stores, leaves *)
(* logger.file NULL.                                                       *)
InitFails ==
    /\ At("init_open")
    /\ file' = "null"
    /\ \/ UNCHANGED <<disk, level, rotate>>
       \/ disk' = Created /\ level' \in InitLevels /\ rotate' \in InitRotate
    /\ Goto("idle")
    /\ UNCHANGED <<mutex, active, slot, todo, status, lines, badRename, runs, badOpen>>

InitOpen(lvl, rot) ==
    /\ At("init_open")
    /\ file' = "open" /\ level' = lvl /\ rotate' = rot /\ mutex' = Free
    /\ disk' = Created
    /\ Goto(IF LOG_INFO >= lvl THEN "lock" ELSE "idle")
    /\ UNCHANGED <<active, slot, todo, status, lines, badRename, runs, badOpen>>

-----------------------------------------------------------------------------
(* log_message(lvl, ...): the level and the file are looked at before the  *)
(* mutex is taken; a message below the level is dropped and changes nothing. *)
LogCallUnguarded(lvl) ==
    /\ At("idle") /\ active = 0 /\ lines < MaxLines
    /\ lvl >= level
    /\ Goto("lock")
    /\ UNCHANGED <<file, level, rotate, mutex, active, slot, todo, status, diskVars, runs, badOpen>>

LogCall(lvl) ==
    /\ At("idle") /\ active = 0 /\ lines < MaxLines
    /\ lvl >= level /\ file # "null"
    /\ Goto("lock")
    /\ UNCHANGED <<file, level, rotate, mutex, active, slot, todo, status, diskVars, runs, badOpen>>

(* pthread_mutex_lock succeeds only when nobody holds the mutex: an         *)
(* activation that finds it taken, by itself or by one it interrupted,     *)
(* waits for ever.                                                         *)
Lock ==
    /\ At("lock") /\ mutex = Free
    /\ mutex' = active
    /\ Goto("check")
    /\ UNCHANGED <<file, level, rotate, active, slot, todo, status, diskVars, runs, badOpen>>

(* The size check, and the fclose that starts rotate_log_files, which may  *)
(* meet a file that logger_init has closed already.                        *)
TooLong == rotate /\ disk[0] # None /\ Len(disk[0]) > MaxLogSize

SizeCheckFrom(top) ==
    /\ At("check")
    /\ \/ TooLong /\ file = "open"
          /\ file' = "closed" /\ slot' = top /\ Goto("rename") /\ UNCHANGED status
       \/ TooLong /\ file # "open"
          /\ status' = "crashed" /\ UNCHANGED <<file, slot, pc>>
       \/ ~TooLong
          /\ Goto("write") /\ UNCHANGED <<file, slot, status>>
    /\ UNCHANGED <<level, rotate, mutex, active, todo, diskVars, runs, badOpen>>

SizeCheckOneTooMany == SizeCheckFrom(MaxLogFiles)
SizeCheck == SizeCheckFrom(MaxLogFiles - 1)

(* One turn of the rename loop, from the highest number down to the log    *)
(* itself: a missing source changes nothing, an error is ignored.          *)
RenameUpwards ==
    /\ At("rename")
    /\ LET from == MaxLogFiles - 1 - slot
       IN  disk' = IF disk[from] = None THEN disk
                   ELSE [disk EXCEPT ![from + 1] = disk[from], ![from] = None]
    /\ slot' = slot - 1
    /\ Goto(IF slot = 1 THEN "reopen" ELSE "rename")
    /\ UNCHANGED <<file, level, rotate, mutex, active, todo, status, lines, badRename, runs, badOpen>>

Rename ==
    /\ At("rename")
    /\ \/ /\ disk' = IF disk[slot - 1] = None THEN disk
                     ELSE [disk EXCEPT ![slot] = disk[slot - 1], ![slot - 1] = None]
          /\ UNCHANGED badRename
       \/ /\ disk[slot - 1] # None /\ ~badRename
          /\ badRename' = TRUE
          /\ UNCHANGED disk
    /\ slot' = slot - 1
    /\ Goto(IF slot = 1 THEN "reopen" ELSE "rename")
    /\ UNCHANGED <<file, level, rotate, mutex, active, todo, status, lines, runs, badOpen>>

(* fopen(..., "w"), and on success the log_message of rotate_log_files,     *)
(* which asks for the mutex its caller holds.                              *)
Reopen ==
    /\ At("reopen")
    /\ \/ /\ file' = "open"
          /\ disk' = [disk EXCEPT ![0] = <<>>]
          /\ Goto(IF LOG_INFO >= level THEN "lock" ELSE "write")
          /\ UNCHANGED badOpen
       \/ /\ file' = "null"
          /\ badOpen' = TRUE
          /\ Goto("write")
          /\ UNCHANGED disk
    /\ UNCHANGED <<level, rotate, mutex, active, slot, todo, status, lines, badRename, runs>>

(* fprintf to logger.file, which nothing checks again after a rotation. *)
Write ==
    /\ At("write")
    /\ IF file = "open"
       THEN /\ lines' = lines + 1
            /\ disk' = [disk EXCEPT ![0] = Append(@, lines + 1)]
            /\ Goto("unlock")
            /\ UNCHANGED status
       ELSE status' = "crashed" /\ UNCHANGED <<lines, disk, pc>>
    /\ UNCHANGED <<file, level, rotate, mutex, active, slot, todo, badRename, runs, badOpen>>

UnlockForgotten ==
    /\ At("unlock")
    /\ Goto(AfterCall)
    /\ UNCHANGED <<file, level, rotate, mutex, active, slot, todo, status, diskVars, runs, badOpen>>

Unlock ==
    /\ At("unlock")
    /\ mutex' = Free
    /\ Goto(AfterCall)
    /\ UNCHANGED <<file, level, rotate, active, slot, todo, status, diskVars, runs, badOpen>>

-----------------------------------------------------------------------------
(* logger_set_level: the store is under the mutex, the message after it at  *)
(* LOG_DEBUG, so it is written only when the new level is LOG_DEBUG.       *)
SetLevelCall ==
    /\ At("idle") /\ active = 0 /\ mutex # Destroyed
    /\ Goto("set_lock")
    /\ UNCHANGED <<file, level, rotate, mutex, active, slot, todo, status, diskVars, runs, badOpen>>

SetLevelLock ==
    /\ At("set_lock") /\ mutex = Free
    /\ mutex' = active
    /\ Goto("set_store")
    /\ UNCHANGED <<file, level, rotate, active, slot, todo, status, diskVars, runs, badOpen>>

SetLevel(lvl) ==
    /\ At("set_store")
    /\ level' = lvl
    /\ mutex' = Free
    /\ Goto(IF lvl = LOG_DEBUG /\ file # "null" THEN "lock" ELSE "idle")
    /\ UNCHANGED <<file, rotate, active, slot, todo, status, diskVars, runs, badOpen>>

-----------------------------------------------------------------------------
(* logger_cleanup: lock, log "shutting down" while holding the mutex,      *)
(* close, unlock, destroy.                                                 *)
CleanupCall ==
    /\ At("idle") /\ active = 0 /\ mutex # Destroyed
    /\ Goto("clean_lock")
    /\ UNCHANGED <<file, level, rotate, mutex, active, slot, todo, status, diskVars, runs, badOpen>>

CleanupLockAt(written) ==
    /\ At("clean_lock") /\ mutex = Free
    /\ mutex' = active
    /\ Goto(IF file # "null" /\ written THEN "lock" ELSE "clean_close")
    /\ UNCHANGED <<file, level, rotate, active, slot, todo, status, diskVars, runs, badOpen>>

CleanupLockAnyLevel == CleanupLockAt(TRUE)
CleanupLock == CleanupLockAt(LOG_INFO >= level)

CleanupClose ==
    /\ At("clean_close")
    /\ file' = "null"
    /\ mutex' = Destroyed
    /\ Goto("idle")
    /\ UNCHANGED <<level, rotate, active, slot, todo, status, diskVars, runs, badOpen>>

-----------------------------------------------------------------------------
(* A signal: from any statement of the main program, or of the handler of  *)
(* another signal, the handler starts.                                     *)
Signal ==
    /\ status = "running" /\ active < MaxNest
    /\ active' = active + 1
    /\ todo' = HandlerLogs
    /\ pc' = [pc EXCEPT ![active + 1] = "next"]
    /\ UNCHANGED <<file, level, rotate, mutex, slot, status, diskVars, runs, badOpen>>

(* The handler logs at LOG_INFO (main.c) or LOG_FATAL (error_handler.c)...  *)
HandlerLog(lvl) ==
    /\ At("next") /\ todo > 0
    /\ todo' = todo - 1
    /\ Goto(IF lvl >= level /\ file # "null" THEN "lock" ELSE "next")
    /\ UNCHANGED <<file, level, rotate, mutex, active, slot, status, diskVars, runs, badOpen>>

(* ... and leaves. *)
HandlerExit ==
    /\ At("next") /\ todo = 0
    /\ status' = "exited"
    /\ UNCHANGED <<file, level, rotate, mutex, active, pc, slot, todo, diskVars, runs, badOpen>>

(* kill -9 at any point, or the next run after an exit or a crash: the     *)
(* process starts from its zeroed statics, the files stay as they are.     *)
NextRun ==
    /\ runs < MaxRuns
    /\ runs' = runs + 1
    /\ file' = "null" /\ level' = LOG_DEBUG /\ rotate' = FALSE /\ mutex' = Free
    /\ active' = 0 /\ pc' = [a \in Activations |-> "idle"]
    /\ slot' = 0 /\ todo' = 0 /\ status' = "running" /\ badOpen' = FALSE
    /\ UNCHANGED diskVars

-----------------------------------------------------------------------------
(* Moves of a call already made. *)
Continue ==
    \/ InitFails
    \/ \E lvl \in InitLevels, rot \in InitRotate : InitOpen(lvl, rot)
    \/ Lock \/ SizeCheck \/ Rename \/ Reopen \/ Write \/ Unlock
    \/ SetLevelLock
    \/ \E lvl \in InitLevels : SetLevel(lvl)
    \/ CleanupLock \/ CleanupClose
    \/ \E lvl \in {LOG_INFO, LOG_FATAL} : HandlerLog(lvl)
    \/ HandlerExit

Next ==
    \/ InitCall \/ SetLevelCall \/ CleanupCall \/ Signal \/ NextRun
    \/ \E lvl \in InitLevels : LogCall(lvl)
    \/ Continue

Spec == Init /\ [][Next]_vars

(* The thread runs on unless it waits for the mutex. *)
FairSpec == Spec /\ WF_vars(Continue)

-----------------------------------------------------------------------------
(* A type invariant of the logger's variables. *)
TypeOK ==
    /\ file \in {"null", "open", "closed"}
    /\ level \in LOG_DEBUG .. LOG_FATAL
    /\ rotate \in BOOLEAN
    /\ mutex \in Activations \union {Free, Destroyed}
    /\ active \in Activations
    /\ pc \in [Activations -> {"idle", "next", "init_open", "lock", "check", "rename", "reopen",
                 "write", "unlock", "set_lock", "set_store", "clean_lock", "clean_close"}]
    /\ slot \in 0 .. MaxLogFiles - 1
    /\ todo \in 0 .. HandlerLogs
    /\ status \in {"running", "exited", "crashed"}
    /\ DOMAIN disk = Slots

(* The running activation waits for a mutex that will never be released.   *)
Wedged ==
    /\ status = "running"
    /\ pc[active] \in {"lock", "set_lock", "clean_lock"}
    /\ mutex # Free

(* The program hangs in the logger for three causes only: the message of a *)
(* rotation or of logger_cleanup, both only when LOG_INFO is written, asks *)
(* for the mutex its own activation holds; or a handler asks for one that  *)
(* an activation it interrupted, the main program or another handler, took. *)
WedgedOnlyBy ==
    Wedged => \/ mutex = active /\ LOG_INFO >= level
              \/ mutex \in 0 .. active - 1

(* A bad FILE pointer is used only after the reopening of a rotation       *)
(* failed, or in a handler that interrupted logger_init between the fclose *)
(* of the old file and the fopen of the new one.                           *)
CrashOnlyBy ==
    status = "crashed" => badOpen \/ (active > 0 /\ pc[0] = "init_open")

(* Read from the oldest archive to the log itself, the files hold the last *)
(* lines written, in order and with none missing, whatever kill, restart   *)
(* or failed fopen interrupted a rotation: a rotation drops whole files    *)
(* from the old end only. Only an ignored rename error breaks this.        *)
LinesIn(n) == IF disk[n] = None THEN <<>> ELSE disk[n]

OldestFirst ==
    \A m, n \in Slots : \A i \in 1 .. Len(LinesIn(m)), j \in 1 .. Len(LinesIn(n)) :
        m > n \/ (m = n /\ i < j) => LinesIn(m)[i] < LinesIn(n)[j]

OnDisk(k) == \E n \in Slots : \E i \in 1 .. Len(LinesIn(n)) : LinesIn(n)[i] = k

NoneMissing ==
    \A n \in Slots : \A i \in 1 .. Len(LinesIn(n)) :
        LinesIn(n)[i] <= lines /\ \A k \in LinesIn(n)[i] .. lines : OnDisk(k)

LogContiguous == badRename \/ (OldestFirst /\ NoneMissing)

(* Above LOG_INFO a handler gets through its log calls and leaves, unless  *)
(* an activation it interrupted, or one that interrupts it, keeps the      *)
(* mutex from the handler that runs.                                       *)
HandlerLeaves ==
    (active > 0 /\ level > LOG_INFO)
        ~> (status # "running" \/ active = 0 \/ mutex \in 0 .. active - 1)

(* Above LOG_INFO logger_cleanup ends, unless a signal or a kill comes first. *)
CleanupLeaves ==
    (pc[0] = "clean_lock" /\ level > LOG_INFO)
        ~> (pc[0] = "idle" \/ active > 0)

(* What logger_cleanup is for, at every level: once it starts it ends, if  *)
(* no signal or kill stops it.                                             *)
CleanupCompletes ==
    pc[0] = "clean_lock" ~> (pc[0] = "idle" \/ active > 0)
=============================================================================
