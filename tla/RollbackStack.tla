--------------------------- MODULE RollbackStack ---------------------------
(***************************************************************************)
(* The rollback stack of utils/error_handler.c: a singly linked list whose *)
(* head `rollback_stack' and length `rollback_count' are plain statics     *)
(* used by the main program and, with no blocking or locking, by           *)
(* signal_handler, which runs execute_rollback and exits.                  *)
(*                                                                         *)
(* A step of the model is a run of statements between two of the stores    *)
(* another activation can see; signals land between any two steps. A       *)
(* handler never returns (exit(1)), so activations form a stack of levels  *)
(* 0..depth of which only the top one moves: level 0 is the main program,  *)
(* level n the n-th nested handler.                                        *)
(***************************************************************************)
EXTENDS Integers, Sequences

CONSTANTS
    Steps,      \* the RollbackStep nodes malloc hands out, each used once
    MaxSteps,   \* MAX_ROLLBACK_STEPS (20 in the code)
    Signals,    \* signals set_error_handler installs the handler for
    Faults,     \* those of them the runtime raises itself (SIGSEGV, SIGABRT)
    MaxNest,    \* bound on nested handlers: at least the number of Signals
    NULL

ASSUME StackAssumption ==
    /\ MaxSteps \in Nat \ {0}
    /\ MaxNest \in Nat
    /\ Faults \subseteq Signals
    /\ NULL \notin Steps

VARIABLES
    head,       \* rollback_stack
    count,      \* rollback_count
    heap,       \* what malloc knows of each node: "fresh", "live", "freed"
    next,       \* the next field of each node
    pc,         \* where each level stands
    cur,        \* the local `current' (or the new `step') of each level
    depth,      \* the running level
    installed,  \* set_error_handler was called
    blocked,    \* signals being handled, hence blocked
    status,     \* "running", "exited" (exit(1) of a handler) or "killed"
    held,       \* an interrupted activation holds a lock the next one waits for
    order,      \* history: nodes linked from head, oldest first
    accepted,   \* history: steps whose add_rollback_step returned 0
    cleared,    \* history: steps clear_rollback_stack dropped
    attempts,   \* history: how often each step's action ran, up to 2
    corrupt     \* history: freed memory was read or freed again

stackVars == <<head, count, heap, next>>
frameVars == <<pc, cur, depth, installed, blocked, status, held>>
histVars  == <<order, accepted, cleared, attempts, corrupt>>
vars      == <<stackVars, frameVars, histVars>>

Levels == 0 .. MaxNest
Pcs == {"idle", "add_push", "add_count", "exec_start", "exec_run", "exec_free",
        "clear_free", "reset_head", "reset_count", "leave"}

(* Places where the running activation may be inside log_message, holding  *)
(* the logger's mutex, or inside malloc or free.                           *)
LockPcs == {"idle", "exec_start", "exec_run", "exec_free", "clear_free", "leave"}

(* Places where part of the list may already be freed while head still points at it. *)
WalkPcs == {"exec_run", "exec_free", "clear_free", "reset_head"}

Top == pc[depth]
Running == status = "running"
Goto(p) == pc' = [pc EXCEPT ![depth] = p]

Init ==
    /\ head = NULL
    /\ count = 0
    /\ heap = [s \in Steps |-> "fresh"]
    /\ next = [s \in Steps |-> NULL]
    /\ pc = [l \in Levels |-> "idle"]
    /\ cur = [l \in Levels |-> NULL]
    /\ depth = 0
    /\ installed = FALSE
    /\ blocked = {}
    /\ status = "running"
    /\ held = FALSE
    /\ order = <<>>
    /\ accepted = {}
    /\ cleared = {}
    /\ attempts = [s \in Steps |-> 0]
    /\ corrupt = FALSE

----------------------------------------------------------------------------
(* set_error_handler: from now on the signals run signal_handler. *)
SetErrorHandler ==
    /\ Running /\ depth = 0 /\ Top = "idle" /\ ~installed
    /\ installed' = TRUE
    /\ UNCHANGED <<stackVars, histVars, pc, cur, depth, blocked, status, held>>

(* A handler activation of signal f starts on top of the running one,      *)
(* which never moves again and keeps the lock it may be holding.           *)
Enter(f) ==
    /\ depth < MaxNest
    /\ f \notin blocked
    /\ blocked' = blocked \union {f}
    /\ depth' = depth + 1
    /\ pc' = [pc EXCEPT ![depth + 1] = "exec_start"]
    /\ held' \in {held, held \/ Top \in LockPcs}
    /\ UNCHANGED <<installed, status>>

Killed ==
    /\ status' = "killed"
    /\ UNCHANGED <<pc, depth, installed, blocked, held>>

(* A signal arrives between two stores: its handler runs, or the default   *)
(* disposition kills the process. A blocked signal stays pending for good. *)
Signal(f) ==
    /\ Running
    /\ IF installed THEN Enter(f) ELSE Killed
    /\ UNCHANGED <<stackVars, histVars, cur>>

(* The runtime finds out about a bad access or a double free: it raises a  *)
(* signal, which kills the process when it is blocked or has no handler.   *)
Fault ==
    IF installed /\ Faults \ blocked # {}
    THEN \E f \in Faults : Enter(f)
    ELSE Killed

----------------------------------------------------------------------------
(* add_rollback_step. A full stack and a failing malloc return -1 and      *)
(* change nothing, so they are stuttering steps.                           *)
AddLinkNoLimit(s) ==
    /\ Running /\ depth = 0 /\ Top = "idle"
    /\ heap[s] = "fresh"
    /\ heap' = [heap EXCEPT ![s] = "live"]
    /\ next' = [next EXCEPT ![s] = head]
    /\ cur' = [cur EXCEPT ![0] = s]
    /\ Goto("add_push")
    /\ UNCHANGED <<head, count, depth, installed, blocked, status, held, histVars>>

AddLink(s) ==
    /\ count < MaxSteps
    /\ Running /\ depth = 0 /\ Top = "idle"
    /\ heap[s] = "fresh"
    /\ heap' = [heap EXCEPT ![s] = "live"]
    /\ next' = [next EXCEPT ![s] = head]
    /\ cur' = [cur EXCEPT ![0] = s]
    /\ Goto("add_push")
    /\ UNCHANGED <<head, count, depth, installed, blocked, status, held, histVars>>

(* rollback_stack = step *)
AddPush ==
    /\ Running /\ Top = "add_push"
    /\ head' = cur[depth]
    /\ order' = Append(order, cur[depth])
    /\ Goto("add_count")
    /\ UNCHANGED <<count, heap, next, cur, depth, installed, blocked, status, held,
                   accepted, cleared, attempts, corrupt>>

(* rollback_count++; return 0 *)
AddCount ==
    /\ Running /\ Top = "add_count"
    /\ count' = count + 1
    /\ accepted' = accepted \union {cur[depth]}
    /\ Goto("idle")
    /\ UNCHANGED <<head, heap, next, cur, depth, installed, blocked, status, held,
                   order, cleared, attempts, corrupt>>

----------------------------------------------------------------------------
(* Leaving execute_rollback or clear_rollback_stack with a last message:   *)
(* the main program goes on, a handler has only exit(1) left.              *)
Return ==
    /\ Goto(IF depth = 0 THEN "idle" ELSE "leave")
    /\ UNCHANGED <<depth, installed, blocked, status, held>>

(* exit(1) *)
Leave ==
    /\ Running /\ Top = "leave"
    /\ status' = "exited"
    /\ UNCHANGED <<stackVars, histVars, pc, cur, depth, installed, blocked, held>>

(* The main program calls execute_rollback. *)
ExecCall ==
    /\ Running /\ depth = 0 /\ Top = "idle"
    /\ Goto("exec_start")
    /\ UNCHANGED <<stackVars, histVars, cur, depth, installed, blocked, status, held>>

(* A handler logs and prints a backtrace first, for which it needs the     *)
(* locks. Nothing to do when rollback_count is 0; otherwise current =      *)
(* rollback_stack.                                                         *)
ExecStartAt(skip) ==
    /\ Running /\ Top = "exec_start" /\ ~held
    /\ IF count <= skip
       THEN Return /\ UNCHANGED cur
       ELSE /\ cur' = [cur EXCEPT ![depth] = head]
            /\ Goto(IF head = NULL THEN "reset_head" ELSE "exec_run")
            /\ UNCHANGED <<depth, installed, blocked, status, held>>
    /\ UNCHANGED <<stackVars, histVars>>

ExecStartOffByOne == ExecStartAt(1)
ExecStart == ExecStartAt(0)

Attempt(s) == attempts' = [attempts EXCEPT ![s] = IF @ < 2 THEN @ + 1 ELSE @]

(* The action of the current node. A node already freed may still hold its *)
(* step, hold garbage that matches no action, or fault.                    *)
ExecRun ==
    /\ Running /\ Top = "exec_run"
    /\ \/ /\ Attempt(cur[depth])
          /\ Goto("exec_free")
          /\ UNCHANGED <<depth, installed, blocked, status, held>>
       \/ /\ heap[cur[depth]] = "freed"
          /\ Goto("exec_free")
          /\ UNCHANGED <<depth, installed, blocked, status, held, attempts>>
       \/ /\ heap[cur[depth]] = "freed"
          /\ Fault
          /\ UNCHANGED attempts
    /\ corrupt' = (corrupt \/ heap[cur[depth]] = "freed")
    /\ UNCHANGED <<stackVars, cur, order, accepted, cleared>>

(* next = current->next; free(current->data); free(current); current = next *)
FreeTo(more) ==
    LET n == next[cur[depth]]
    IN  /\ heap' = [heap EXCEPT ![cur[depth]] = "freed"]
        /\ cur' = [cur EXCEPT ![depth] = n]
        /\ Goto(IF n = NULL THEN "reset_head" ELSE more)
        /\ UNCHANGED <<depth, installed, blocked, status, held>>

ExecFreeStuck ==
    /\ Running /\ Top = "exec_free"
    /\ Goto("exec_run")
    /\ heap' = [heap EXCEPT ![cur[depth]] = "freed"]
    /\ corrupt' = (corrupt \/ heap[cur[depth]] = "freed")
    /\ UNCHANGED <<head, count, next, cur, depth, installed, blocked, status, held,
                   order, accepted, cleared, attempts>>

ExecFree ==
    /\ Running /\ Top = "exec_free"
    /\ \/ FreeTo("exec_run")
       \/ /\ heap[cur[depth]] = "freed"
          /\ Fault
          /\ UNCHANGED <<heap, cur>>
    /\ corrupt' = (corrupt \/ heap[cur[depth]] = "freed")
    /\ UNCHANGED <<head, count, next, order, accepted, cleared, attempts>>

(* rollback_stack = NULL *)
ResetHeadForgotten ==
    /\ Running /\ Top = "reset_head"
    /\ Goto("reset_count")
    /\ UNCHANGED <<stackVars, histVars, cur, depth, installed, blocked, status, held>>

ResetHead ==
    /\ Running /\ Top = "reset_head"
    /\ head' = NULL
    /\ order' = <<>>
    /\ Goto("reset_count")
    /\ UNCHANGED <<count, heap, next, cur, depth, installed, blocked, status, held,
                   accepted, cleared, attempts, corrupt>>

(* rollback_count = 0, and the function returns *)
ResetCountForgotten ==
    /\ Running /\ Top = "reset_count"
    /\ Return
    /\ UNCHANGED <<stackVars, histVars, cur>>

ResetCount ==
    /\ Running /\ Top = "reset_count"
    /\ count' = 0
    /\ Return
    /\ UNCHANGED <<head, heap, next, cur, histVars>>

----------------------------------------------------------------------------
(* clear_rollback_stack, called by the main program only. *)
ClearCall ==
    /\ Running /\ depth = 0 /\ Top = "idle"
    /\ cur' = [cur EXCEPT ![0] = head]
    /\ Goto(IF head = NULL THEN "reset_head" ELSE "clear_free")
    /\ UNCHANGED <<stackVars, histVars, depth, installed, blocked, status, held>>

ClearFree ==
    /\ Running /\ Top = "clear_free"
    /\ cleared' = cleared \union {cur[depth]}
    /\ FreeTo("clear_free")
    /\ UNCHANGED <<head, count, next, order, accepted, attempts, corrupt>>

----------------------------------------------------------------------------
(* The moves of the running activation that need nobody's decision. *)
Continue ==
    \/ AddPush \/ AddCount \/ ExecStart \/ ExecRun \/ ExecFree
    \/ ResetHead \/ ResetCount \/ ClearFree \/ Leave

Next ==
    \/ SetErrorHandler \/ ExecCall \/ ClearCall
    \/ \E s \in Steps : AddLink(s)
    \/ \E f \in Signals : Signal(f)
    \/ Continue

Spec == Init /\ [][Next]_vars

(* A running activation keeps running: it waits for locks only, which only *)
(* activations below it can hold, and for the commands of its actions (cp, *)
(* sed), which end.                                                        *)
FairSpec == Spec /\ WF_vars(Continue)

----------------------------------------------------------------------------
(* A type invariant: every variable of the list and of the activations     *)
(* stays in its range; rollback_count never passes MAX_ROLLBACK_STEPS.     *)
TypeOK ==
    /\ head \in Steps \union {NULL}
    /\ count \in 0 .. MaxSteps
    /\ heap \in [Steps -> {"fresh", "live", "freed"}]
    /\ next \in [Steps -> Steps \union {NULL}]
    /\ pc \in [Levels -> Pcs]
    /\ cur \in [Levels -> Steps \union {NULL}]
    /\ depth \in Levels
    /\ installed \in BOOLEAN
    /\ blocked \subseteq Signals
    /\ status \in {"running", "exited", "killed"}
    /\ held \in BOOLEAN
    /\ order \in Seq(Steps)
    /\ accepted \subseteq Steps
    /\ cleared \subseteq Steps
    /\ attempts \in [Steps -> 0 .. 2]
    /\ corrupt \in BOOLEAN

(* Some activation below the running one was interrupted inside a walk.    *)
WalkInterrupted == \E l \in 0 .. depth - 1 : pc[l] \in WalkPcs

(* Freed memory is read or freed again only when a signal interrupted an   *)
(* execute_rollback or clear_rollback_stack inside its walk: interrupting  *)
(* add_rollback_step, or the resets after a walk, never corrupts the heap. *)
CorruptOnlyAfterInterruptedWalk == corrupt => WalkInterrupted

(* What the rollback mechanism is meant to be at all times: no freed step  *)
(* is read or freed again, whenever signals arrive.                        *)
NoUseAfterFree == ~corrupt

(* Likewise no rollback action runs twice unless a walk was interrupted.   *)
AtMostOnce ==
    (\E s \in Steps : attempts[s] > 1) => WalkInterrupted

(* When a handler leaves with exit(1), every step whose registration       *)
(* returned 0 and that was not cleared has been tried, unless freed memory *)
(* was touched on the way. It fails for the step of a push interrupted     *)
(* between its two stores only because that push has not returned.         *)
NothingForgotten ==
    status = "exited" /\ ~corrupt =>
        \A s \in accepted \ cleared : attempts[s] > 0

(* Once a handler starts, the process ends, or a handler waits for ever    *)
(* for a lock of the code it interrupted: neither nesting nor a stale list *)
(* can keep the process alive, and no handler waits for one that may run.  *)
HandlerEnds == (depth > 0) ~> (~Running \/ held)

----------------------------------------------------------------------------
(* The inductive invariant behind the safety properties.                   *)

(* The list is what was pushed and not yet reset: head is the newest node, *)
(* every node's next is the node pushed before it, nodes are distinct.     *)
ListShape ==
    /\ head = IF order = <<>> THEN NULL ELSE order[Len(order)]
    /\ \A i \in 1 .. Len(order) :
          next[order[i]] = IF i = 1 THEN NULL ELSE order[i - 1]
    /\ \A i, j \in 1 .. Len(order) : order[i] = order[j] => i = j

(* rollback_count is the length of the list, except between the two stores *)
(* of a push and the two stores of a reset, whatever interrupted whatever. *)
CountMatches ==
    \/ count = Len(order) /\ Top # "add_count"
    \/ count = Len(order) - 1 /\ pc[0] = "add_count"
    \/ order = <<>> /\ \E l \in 0 .. depth : pc[l] = "reset_count"

(* Only the main program registers and clears; a node it is about to link  *)
(* is live, in nobody's list and not registered yet; unused levels idle.   *)
FrameShape ==
    /\ Top \in {"idle", "add_push", "add_count", "clear_free"} => depth = 0
    /\ Top = "leave" => count = 0
    /\ status = "exited" => Top = "leave"
    /\ Top = "add_push" =>
          /\ cur[0] \in Steps \ accepted
          /\ heap[cur[0]] = "live"
          /\ next[cur[0]] = head
          /\ attempts[cur[0]] = 0
          /\ \A i \in 1 .. Len(order) : order[i] # cur[0]
    /\ Top \in {"add_push", "add_count"} => count < MaxSteps
    /\ pc[0] = "add_count" =>
          /\ cur[0] \in Steps \ accepted
          /\ order # <<>> => order[Len(order)] = cur[0]
    /\ Top = "add_count" => order # <<>>
    /\ \A s \in Steps : heap[s] = "fresh" =>
          /\ attempts[s] = 0 /\ s \notin accepted
          /\ \A i \in 1 .. Len(order) : order[i] # s

Walking == Top \in {"exec_run", "exec_free", "clear_free"}

(* Positions of the list the running activation has yet to free.           *)
Ahead ==
    IF Walking THEN {i \in 1 .. Len(order) :
                        \E j \in i .. Len(order) : order[j] = cur[depth]}
    ELSE IF Top \in {"reset_head", "reset_count"} THEN {}
    ELSE 1 .. Len(order)

WalkShape ==
    /\ Walking => \E j \in 1 .. Len(order) : order[j] = cur[depth]
    /\ Top = "reset_count" => order = <<>>
    /\ Top = "exec_free" /\ ~corrupt => attempts[cur[depth]] > 0

(* Until a walk is interrupted, the nodes ahead are live and untried.      *)
AheadLive ==
    ~WalkInterrupted =>
        /\ ~corrupt
        /\ \A s \in Steps : attempts[s] < 2
        /\ \A i \in Ahead :
              /\ heap[order[i]] = "live"
              /\ \/ attempts[order[i]] = 0
                 \/ Top = "exec_free" /\ order[i] = cur[depth]

(* A registered step was tried, cleared, or is ahead of the running activation. *)
Covered ==
    ~corrupt => \A s \in accepted \ cleared :
                    attempts[s] > 0 \/ \E i \in Ahead : order[i] = s

(* Whatever interrupted whatever: the list of the abstract stack can be    *)
(* read off the heap, the counter matches it, nothing still to visit was   *)
(* freed before an interrupted walk, and no registered step is lost.       *)
IInv ==
    TypeOK /\ ListShape /\ CountMatches /\ FrameShape /\ WalkShape /\ AheadLive /\ Covered

----------------------------------------------------------------------------
(* Refinement of UndoLog. Steps still to be undone, as the running         *)
(* activation will meet them: up to `cur' inside a walk, all of the list   *)
(* otherwise, less a node whose push has not returned yet.                 *)
UpTo(s, skip) ==
    LET i == CHOOSE j \in 1 .. Len(order) : order[j] = s
    IN  SubSeq(order, 1, i - skip)

PendingSteps ==
    CASE Top \in {"exec_run", "clear_free"} -> UpTo(cur[depth], 0)
      [] Top = "exec_free" -> UpTo(cur[depth], 1)
      [] Top \in {"reset_head", "reset_count"} -> <<>>
      [] OTHER -> IF pc[0] = "add_count" THEN SubSeq(order, 1, Len(order) - 1) ELSE order

AbstractMode ==
    CASE WalkInterrupted -> "undefined"
      [] ~WalkInterrupted /\ status = "running" -> "open"
      [] ~WalkInterrupted /\ status = "exited" -> "ended"
      [] ~WalkInterrupted /\ status = "killed" -> "killed"

Log == INSTANCE UndoLog WITH
    pending <- PendingSteps,
    tried <- {s \in Steps : attempts[s] > 0},
    mode <- AbstractMode

(* The stack implements the abstract undo log: newest first, at most once, *)
(* nothing left pending at exit, until a signal interrupts a walk.         *)
ImplementsUndoLog == Log!Spec
=============================================================================
