--------------------------- MODULE MonitorHistory ---------------------------
(***************************************************************************)
(* tui/system_monitor.c: the ring buffer of samples behind the monitoring  *)
(* dashboard, its readers, and the dashboard's own timing. A sample is the *)
(* time it was taken and one measured value; a collector that fails leaves *)
(* the value at the 0 of the memset, and the sample is kept all the same.  *)
(*                                                                         *)
(* time(NULL) may be set back by an administrator between two samples.     *)
(***************************************************************************)
EXTENDS Integers, Sequences

CONSTANTS
    HistorySize,  \* config.history_size (100 in the code)
    Values,       \* values a collector may report
    Entered,      \* numbers the user may enter as the interval
    MaxTime       \* bound: times of the clock

ASSUME HistoryAssumption ==
    /\ HistorySize \in Nat \ {0} /\ Values \subseteq Nat
    /\ Entered \subseteq Int /\ MaxTime \in Nat

Times == 0 .. MaxTime
Samples == [timestamp : Times, value : Values \union {0}]
Zeroed == [timestamp |-> 0, value |-> 0]
Slots == 0 .. HistorySize - 1

VARIABLES
    stats,        \* history_stats, by slot (its contents, while allocated)
    allocated,    \* history_stats is not NULL
    index,        \* history_index: the slot the next sample goes to
    count,        \* history_count
    current,      \* current_stats
    interval,     \* config.update_interval
    last,         \* last_update of the dashboard
    initialized,  \* the dashboard's static flag
    now,          \* time(NULL)
    setBack,      \* history: the clock was set back since the dashboard was opened
    lag,          \* history: how long the sample in current took to collect, when the
                  \* dashboard's last_update was only read after that
    stale         \* history: when the last screen was drawn its sample was older than
                  \* the interval and its lag

ringVars == <<stats, allocated, index, count>>
histVars == <<setBack, lag, stale>>
vars == <<ringVars, current, interval, last, initialized, now, histVars>>

Init ==
    /\ stats = [i \in Slots |-> Zeroed] /\ allocated = FALSE
    /\ index = 0 /\ count = 0 /\ current = Zeroed
    /\ interval = 0 /\ last = 0 /\ initialized = FALSE
    /\ now \in Times /\ setBack = FALSE /\ lag = 0 /\ stale = FALSE

-----------------------------------------------------------------------------
(* The end of system_monitor_update: the sample goes to the slot at index. *)
StoreOneTooFew(ring, i, c, sample) ==
    /\ stats' = [ring EXCEPT ![i] = sample]
    /\ index' = (i + 1) % HistorySize
    /\ count' = IF c < HistorySize - 1 THEN c + 1 ELSE c

StoreNoSaturation(ring, i, c, sample) ==
    /\ stats' = [ring EXCEPT ![i] = sample]
    /\ index' = (i + 1) % HistorySize
    /\ count' = c + 1

Store(ring, i, c, sample) ==
    /\ stats' = [ring EXCEPT ![i] = sample]
    /\ index' = (i + 1) % HistorySize
    /\ count' = IF c < HistorySize THEN c + 1 ELSE c

(* The sample is dated before anything is measured. *)
Collected(time) == [timestamp : {time}, value : Values \union {0}]

(* system_monitor_update, the only writer. *)
Update(time) ==
    \E sample \in Collected(time) :
        /\ current' = sample
        /\ IF allocated
           THEN Store(stats, index, count, sample) /\ UNCHANGED allocated
           ELSE UNCHANGED ringVars

(* system_monitor_init: everything zeroed, the buffer allocated, and the   *)
(* first sample taken; without memory the dashboard is not opened.         *)
InitFails ==
    /\ ~initialized
    /\ allocated' = FALSE /\ index' = 0 /\ count' = 0 /\ current' = Zeroed
    /\ interval' = 2
    /\ UNCHANGED <<stats, last, initialized, now, histVars>>

(* The first sample is dated, and collected for as long as that takes,     *)
(* before last_update is read.                                             *)
Open ==
    /\ ~initialized
    /\ initialized' = TRUE /\ allocated' = TRUE /\ interval' = 2
    /\ \E sample \in Collected(now) :
          /\ current' = sample
          /\ Store([i \in Slots |-> Zeroed], 0, 0, sample)
    /\ now' \in now .. MaxTime /\ last' = now'
    /\ lag' = now' - now
    /\ setBack' = FALSE
    /\ UNCHANGED stale

(* One turn of the dashboard loop: a sample when the interval has passed,  *)
(* dated after the loop has read the clock for last_update; then the       *)
(* screen.                                                                 *)
ShowAfter(elapsed) ==
    /\ initialized
    /\ IF elapsed
       THEN now' \in now .. MaxTime /\ Update(now') /\ last' = now /\ lag' = 0
       ELSE UNCHANGED <<ringVars, current, last, now, lag>>
    /\ stale' = (now - current'.timestamp > interval + lag')
    /\ UNCHANGED <<interval, initialized, setBack>>

ShowLate == ShowAfter(now - last > interval + 1)
Show == ShowAfter(now - last >= interval)

(* "Refresh" in its menu, which does not move last_update. *)
RefreshNow ==
    /\ initialized
    /\ Update(now)
    /\ lag' = 0
    /\ UNCHANGED <<interval, last, initialized, now, setBack, stale>>

(* "Set the interval": what is not in 1 .. 60 is refused. *)
SetInterval(seconds) ==
    /\ initialized
    /\ interval' = IF seconds > 0 /\ seconds <= 60 THEN seconds ELSE interval
    /\ UNCHANGED <<ringVars, current, last, initialized, now, histVars>>

(* system_monitor_cleanup; an update after it measures but records nothing. *)
Cleanup ==
    /\ initialized
    /\ allocated' = FALSE /\ index' = 0 /\ count' = 0
    /\ UNCHANGED <<stats, current, interval, last, initialized, now, histVars>>

Clock ==
    /\ now' \in Times
    /\ setBack' = (setBack \/ now' < now)
    /\ UNCHANGED <<ringVars, current, interval, last, initialized, lag, stale>>

Next ==
    \/ InitFails \/ Open \/ Show \/ RefreshNow \/ Cleanup \/ Clock
    \/ \E seconds \in Entered : SetInterval(seconds)

Spec == Init /\ [][Next]_vars

-----------------------------------------------------------------------------
(* Readers of the history. *)

(* system_monitor_get_history hands out the first count slots.             *)
History == [k \in 1 .. count |-> stats[k - 1]]

(* What a buffer holds in the order the samples were taken, oldest first.  *)
OldestFirst(ring, i, c) ==
    IF c < HistorySize THEN [k \in 1 .. c |-> ring[k - 1]]
    ELSE [k \in 1 .. HistorySize |->
             IF i + k - 1 < HistorySize THEN ring[i + k - 1] ELSE ring[i + k - 1 - HistorySize]]
Recent == OldestFirst(stats, index, count)

-----------------------------------------------------------------------------
(* A type invariant; the two counters stay in range for any history size.  *)
TypeOK ==
    /\ stats \in [Slots -> Samples]
    /\ allocated \in BOOLEAN
    /\ index \in Slots
    /\ count \in 0 .. HistorySize
    /\ current \in Samples
    /\ interval \in 0 .. 60
    /\ last \in Times /\ now \in Times
    /\ initialized \in BOOLEAN /\ setBack \in BOOLEAN
    /\ lag \in Times /\ stale \in BOOLEAN

(* Until the buffer is full the next slot is the first unused one; a       *)
(* buffer that was given back is empty. This is what lets the first count  *)
(* slots be read without looking at index.                                 *)
RingShape ==
    /\ count < HistorySize => index = count
    /\ ~allocated => count = 0
    /\ ~initialized => ~allocated
    /\ initialized /\ allocated => count > 0

(* The buffer is a sliding window of the newest samples, through wrap,     *)
(* cleanup and a fresh start.                                              *)
Window == INSTANCE SlidingWindow WITH Capacity <- HistorySize, window <- Recent
ImplementsSlidingWindow == Window!Spec

(* get_history hands the samples out in the order they were taken as long  *)
(* as the write position has not passed a used slot and the clock was not  *)
(* set back.                                                               *)
InOrder(seq) == \A j, k \in 1 .. Len(seq) : j < k => seq[j].timestamp <= seq[k].timestamp
HistoryInOrder == ~setBack /\ (count < HistorySize \/ index = 0) => InOrder(History)

(* When a screen is drawn its sample is not older than the interval; the   *)
(* first one may be older by the time it took to collect, since            *)
(* last_update is read only after that. Setting the clock back stops the   *)
(* automatic refresh and is the exception.                                 *)
ShownIsFresh == ~setBack => ~stale
=============================================================================
