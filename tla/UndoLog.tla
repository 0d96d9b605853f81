------------------------------ MODULE UndoLog ------------------------------
(***************************************************************************)
(* What the rollback stack of error_handler.c promises its callers: a step *)
(* that was registered is undone at most once, newest first, and the       *)
(* process does not leave before every registered step was tried or        *)
(* discarded.                                                              *)
(*                                                                         *)
(* The C code keeps this promise only until a signal lands in the middle   *)
(* of a walk over the list; from then on the program touches freed memory  *)
(* and `mode' is "undefined", where nothing is promised.                   *)
(***************************************************************************)
EXTENDS Naturals, Sequences

CONSTANT Steps

VARIABLES
    pending,  \* registered steps not yet tried, oldest first
    tried,    \* steps whose action was run by a rollback
    mode      \* "open", "ended", "killed" or "undefined"

Init ==
    /\ pending = <<>>
    /\ tried = {}
    /\ mode = "open"

(* add_rollback_step returned 0, or its step became visible to a rollback. *)
Record ==
    /\ \E s \in Steps : pending' = Append(pending, s)
    /\ UNCHANGED <<tried, mode>>

(* A rollback runs the newest pending step; no step is ever run twice. *)
Undo ==
    /\ pending # <<>>
    /\ LET newest == pending[Len(pending)]
       IN  /\ newest \notin tried
           /\ tried' = tried \union {newest}
    /\ pending' = SubSeq(pending, 1, Len(pending) - 1)
    /\ UNCHANGED mode

(* clear_rollback_stack forgets the newest step without running it. *)
Discard ==
    /\ pending # <<>>
    /\ pending' = SubSeq(pending, 1, Len(pending) - 1)
    /\ UNCHANGED <<tried, mode>>

(* The handler exits once nothing is pending. *)
Finish ==
    /\ pending = <<>>
    /\ mode' = "ended"
    /\ UNCHANGED <<pending, tried>>

(* No handler is installed: the default disposition kills the process. *)
Kill ==
    /\ mode' = "killed"
    /\ UNCHANGED <<pending, tried>>

Undefined == mode' = "undefined"

Next ==
    \/ mode = "open" /\ (Record \/ Undo \/ Discard \/ Finish \/ Kill)
    \/ Undefined

Spec == Init /\ [][Next]_<<pending, tried, mode>>
=============================================================================
