------------------------------ MODULE LogView ------------------------------
(***************************************************************************)
(* tui/log_viewer.c with its dialog: the list of entries read from the log *)
(* file, the entry the cursor is on, and the position and total that are   *)
(* kept beside the list and shown above it.                                *)
(*                                                                         *)
(* A line is its level; the list holds the lines in the order of the file. *)
(* The toggles of the display have no caller and stay at their defaults:   *)
(* auto_refresh and follow_tail are on.                                    *)
(***************************************************************************)
EXTENDS Integers, Sequences

CONSTANTS
    Levels,             \* levels of lines, as numbers; the lowest is 0
    VisibleEntries,     \* lv.visible_entries (20 in the code)
    MaxLines,           \* bound: lines in the file
    NoLog

ASSUME LogViewAssumption ==
    /\ Levels \subseteq Nat /\ 0 \in Levels
    /\ VisibleEntries \in Nat \ {0} /\ MaxLines \in Nat

VARIABLES
    log,                \* the lines of /var/log/swikernel.log, or NoLog
    lv_at,              \* "away", "loop" or "menu" (dialog(1) waits)
    lv_ready,           \* the dialog's static flag `initialized'
    lv_entries, lv_current,     \* the list; the cursor's place in it, 0 for NULL
    lv_position, lv_total,      \* current_position, total_entries
    lv_file,            \* log_file: "NULL" or "open"
    lv_size,            \* last_file_size, in lines
    lv_level            \* min_level

lvScreenVars == <<lv_current, lv_position>>
lvListVars   == <<lv_entries, lv_total, lv_file, lv_size>>
lvVars       == <<log, lv_at, lv_ready, lvScreenVars, lvListVars, lv_level>>

LvInit ==
    /\ log = <<>> /\ lv_at = "away" /\ lv_ready = FALSE
    /\ lv_entries = <<>> /\ lv_current = 0 /\ lv_position = 0 /\ lv_total = 0
    /\ lv_file = "NULL" /\ lv_size = 0 /\ lv_level = 0

-----------------------------------------------------------------------------
(* log_viewer_reload stores the FILE it opened, and log_viewer_cleanup     *)
(* closes that one too; the lines are then read from a FILE that is freed: *)
(* all of them, some, none, or a fault that ends the program, which is as  *)
(* if the dialog had not been opened.                                      *)
Reload(file) ==
    \E n \in 0 .. Len(log) :
        /\ lv_file' = file /\ lv_size' = Len(log)
        /\ lv_entries' = SubSeq(log, 1, n) /\ lv_total' = n
        /\ lv_current' = n /\ lv_position' = n - 1

Open == Reload("NULL") /\ lv_level' = 0
OpenKeepingTheFile == Reload("open") /\ lv_level' = 0

(* log_viewer_init on the first opening; a missing file is tried again on  *)
(* the next one. Later openings find the list as it was left.              *)
LvOpenFirst ==
    /\ lv_at = "away" /\ ~lv_ready /\ log # NoLog
    /\ Open /\ lv_ready' = TRUE /\ lv_at' = "loop"
    /\ UNCHANGED log

LvOpenAgain ==
    /\ lv_at = "away" /\ lv_ready /\ lv_at' = "loop"
    /\ UNCHANGED <<log, lv_ready, lvScreenVars, lvListVars, lv_level>>

(* log_viewer_refresh, at the head of the loop, then the menu. It appends  *)
(* behind the cursor, not behind the last entry; but it returns at once    *)
(* while log_file is NULL.                                                 *)
LvShow ==
    /\ lv_at = "loop" /\ lv_at' = "menu"
    /\ IF lv_file = "NULL" \/ log = NoLog
       THEN UNCHANGED <<lvScreenVars, lvListVars>>
       ELSE IF Len(log) = lv_size
       THEN UNCHANGED <<lvScreenVars, lvListVars>>
       ELSE LET new == SubSeq(log, lv_size + 1, Len(log))
            IN  /\ lv_entries' = IF new = <<>> THEN lv_entries
                                 ELSE SubSeq(lv_entries, 1, lv_current) \o new
                /\ lv_current' = lv_current + Len(new)
                /\ lv_total' = lv_total + Len(new) /\ lv_position' = lv_total' - 1
                /\ lv_size' = Len(log) /\ UNCHANGED lv_file
    /\ UNCHANGED <<log, lv_ready, lv_level>>

(* The choices of the menu; each goes back to the head of the loop.        *)
Chosen == lv_at = "menu" /\ lv_at' = "loop"
Fewest(a, b) == IF a < b THEN a ELSE b

LvScrollUp(lines) ==
    /\ Chosen /\ lv_current # 0
    /\ LET n == Fewest(lines, lv_current - 1)
       IN  lv_current' = lv_current - n /\ lv_position' = lv_position - n
    /\ UNCHANGED <<log, lv_ready, lvListVars, lv_level>>

LvScrollDownCounting(lines) ==
    /\ Chosen /\ lv_current # 0
    /\ lv_current' = lv_current + Fewest(lines, Len(lv_entries) - lv_current)
    /\ lv_position' = lv_position + lines
    /\ UNCHANGED <<log, lv_ready, lvListVars, lv_level>>

LvScrollDown(lines) ==
    /\ Chosen /\ lv_current # 0
    /\ LET n == Fewest(lines, Len(lv_entries) - lv_current)
       IN  lv_current' = lv_current + n /\ lv_position' = lv_position + n
    /\ UNCHANGED <<log, lv_ready, lvListVars, lv_level>>

LvToTop ==
    /\ Chosen /\ lv_entries # <<>>
    /\ lv_current' = 1 /\ lv_position' = 0
    /\ UNCHANGED <<log, lv_ready, lvListVars, lv_level>>

LvToBottom ==
    /\ Chosen /\ lv_entries # <<>>
    /\ lv_current' = Len(lv_entries)
    /\ lv_position' = lv_position + Len(lv_entries) - lv_current
    /\ UNCHANGED <<log, lv_ready, lvListVars, lv_level>>

(* The filter dialog sets or clears what no listing asks for; the search   *)
(* goes through log_viewer_search_next, which the repository lacks.        *)
LvFilter(level) ==
    /\ Chosen /\ lv_level' = level
    /\ UNCHANGED <<log, lv_ready, lvScreenVars, lvListVars>>

LvLeave ==
    /\ lv_at = "menu" /\ lv_at' = "away"
    /\ UNCHANGED <<log, lv_ready, lvScreenVars, lvListVars, lv_level>>

-----------------------------------------------------------------------------
(* This program or another logs a line; logrotate or an administrator      *)
(* empties the file or takes it away; the program ends.                    *)
Logged(level) ==
    /\ log # NoLog /\ Len(log) < MaxLines /\ log' = Append(log, level)
    /\ UNCHANGED <<lv_at, lv_ready, lvScreenVars, lvListVars, lv_level>>

Rotated ==
    /\ log' \in {<<>>, NoLog}
    /\ UNCHANGED <<lv_at, lv_ready, lvScreenVars, lvListVars, lv_level>>

LvEnds ==
    /\ lv_at' = "away" /\ lv_ready' = FALSE
    /\ lv_entries' = <<>> /\ lv_current' = 0 /\ lv_position' = 0 /\ lv_total' = 0
    /\ lv_file' = "NULL" /\ lv_size' = 0 /\ lv_level' = 0
    /\ UNCHANGED log

LvChoice ==
    \/ \E lines \in {1, VisibleEntries} : LvScrollUp(lines) \/ LvScrollDown(lines)
    \/ LvToTop \/ LvToBottom \/ \E level \in Levels : LvFilter(level)

LvNext ==
    \/ LvOpenFirst \/ LvOpenAgain \/ LvShow \/ LvChoice \/ LvLeave
    \/ Rotated \/ LvEnds \/ \E level \in Levels : Logged(level)

(* The loop goes on as long as the user does. *)
LvUserStays == WF_lvVars(LvShow) /\ WF_lvVars(LvChoice)

-----------------------------------------------------------------------------
LvTypeOK ==
    /\ log = NoLog \/ log \in Seq(Levels)
    /\ lv_at \in {"away", "loop", "menu"} /\ lv_ready \in BOOLEAN
    /\ lv_entries \in Seq(Levels) /\ lv_current \in 0 .. Len(lv_entries)
    /\ lv_position \in Int /\ lv_total \in Nat
    /\ lv_file \in {"NULL", "open"} /\ lv_size \in Nat /\ lv_level \in Levels

(* The numbers above the list are those of the list: the total counts the  *)
(* entries, the position is that of the cursor, and there is a cursor when *)
(* there are entries, which log_viewer_scroll_to_bottom relies on.         *)
PositionMatchesEntry ==
    lv_ready => /\ lv_total = Len(lv_entries) /\ lv_position = lv_current - 1
                /\ lv_current = 0 => lv_entries = <<>>

(* Real-time viewing: a line that is written while the viewer is open is   *)
(* among its entries in the end, unless it is closed or the file rotated.  *)
NewLinesShown ==
    \A n \in 1 .. MaxLines :
        lv_at # "away" /\ log # NoLog /\ Len(log) >= n /\ lv_size < n
            ~> \/ Len(lv_entries) >= n \/ lv_at = "away"
               \/ log = NoLog \/ Len(log) < n
=============================================================================
