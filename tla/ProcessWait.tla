----------------------------- MODULE ProcessWait -----------------------------
(***************************************************************************)
(* system/process.c: a command started in the background and the caller    *)
(* who waits for it with a deadline. The child may end at any moment, also *)
(* between a waitpid and the kill that follows it; SIGTERM it may heed or  *)
(* not; an administrator may set the clock back while the caller waits.    *)
(*                                                                         *)
(* The child is the shell; what a shell that is killed leaves running is   *)
(* outside. Neither function has a caller in the repository; the caller    *)
(* modelled may wait again for a child it has waited for before.           *)
(***************************************************************************)
EXTENDS Integers

CONSTANTS
    Timeouts,       \* timeout_seconds of callers; 0 is for ever
    MaxElapsed,     \* bound: seconds on the clock since the call
    MaxSetBacks     \* bound: times the clock is set back

ASSUME ProcessWaitAssumption ==
    /\ Timeouts \subseteq Nat /\ MaxSetBacks \in Nat
    /\ MaxElapsed \in Nat /\ \A t \in Timeouts : t < MaxElapsed

VARIABLES
    child,          \* "none", "running", "zombie" or "reaped"
    killed,         \* SIGKILL was sent
    pw_at,          \* "idle", or the statement wait_for_process is at:
                    \*   "poll" l.100, "check" l.110, "grace" l.113, "last" l.114
    pw_timeout,     \* timeout_seconds
    elapsed,        \* time(NULL) - start_time
    set_back,       \* times the clock was set back
    pw_result       \* "none", "status", "error" or "timeout"

pwVars == <<child, killed, pw_at, pw_timeout, elapsed, set_back, pw_result>>

PwInit ==
    /\ child = "none" /\ killed = FALSE /\ pw_at = "idle" /\ pw_timeout = 0
    /\ elapsed = 0 /\ set_back = 0 /\ pw_result = "none"

-----------------------------------------------------------------------------
(* execute_background; when fork fails there is nothing to wait for. *)
PwBackground ==
    /\ pw_at = "idle" /\ child # "running"
    /\ child' = "running" /\ killed' = FALSE /\ pw_result' = "none"
    /\ UNCHANGED <<pw_at, pw_timeout, elapsed, set_back>>

PwCall(timeout) ==
    /\ pw_at = "idle" /\ child # "none"
    /\ pw_at' = "poll" /\ pw_timeout' = timeout /\ elapsed' = 0 /\ pw_result' = "none"
    /\ UNCHANGED <<child, killed, set_back>>

Return(result) == pw_at' = "idle" /\ pw_result' = result

(* waitpid with WNOHANG: a child that ended is reaped, and its status is   *)
(* the result unless a signal ended it; one reaped before is an error.     *)
PwPoll ==
    /\ pw_at = "poll"
    /\ \/ /\ child = "zombie" /\ child' = "reaped"
          /\ \E result \in IF killed THEN {"error"} ELSE {"status", "error"} : Return(result)
       \/ child = "reaped" /\ Return("error") /\ UNCHANGED child
       \/ child = "running" /\ pw_at' = "check" /\ UNCHANGED <<child, pw_result>>
    /\ UNCHANGED <<killed, pw_timeout, elapsed, set_back>>

Passed(seconds) == IF elapsed + seconds < MaxElapsed THEN elapsed + seconds ELSE MaxElapsed

(* Beyond the deadline SIGTERM is sent, and two seconds are given. *)
PwCheckFromLastPoll ==
    /\ pw_at = "check"
    /\ IF pw_timeout > 0 /\ elapsed > pw_timeout
       THEN pw_at' = "grace" /\ UNCHANGED elapsed
       ELSE pw_at' = "poll" /\ elapsed' = 1
    /\ UNCHANGED <<child, killed, pw_timeout, set_back, pw_result>>

PwCheck ==
    /\ pw_at = "check"
    /\ IF pw_timeout > 0 /\ elapsed > pw_timeout
       THEN pw_at' = "grace" /\ UNCHANGED elapsed
       ELSE pw_at' = "poll" /\ elapsed' = Passed(1)
    /\ UNCHANGED <<child, killed, pw_timeout, set_back, pw_result>>

PwGrace ==
    /\ pw_at = "grace" /\ pw_at' = "last" /\ elapsed' = Passed(2)
    /\ UNCHANGED <<child, killed, pw_timeout, set_back, pw_result>>

(* A child that ended after all is reaped and its status dropped; one that *)
(* still runs is killed, and stays a zombie unless it is waited for again. *)
PwLastWithoutKill ==
    /\ pw_at = "last" /\ Return("timeout")
    /\ child' = (IF child = "zombie" THEN "reaped" ELSE child)
    /\ UNCHANGED <<killed, pw_timeout, elapsed, set_back>>

PwLast ==
    /\ pw_at = "last" /\ Return("timeout")
    /\ child' = (IF child = "zombie" THEN "reaped" ELSE child)
    /\ killed' = (killed \/ child = "running")
    /\ UNCHANGED <<pw_timeout, elapsed, set_back>>

-----------------------------------------------------------------------------
(* The child ends, of itself or by SIGTERM; SIGKILL ends it for certain.   *)
PwChildEnds ==
    /\ child = "running" /\ child' = "zombie"
    /\ UNCHANGED <<killed, pw_at, pw_timeout, elapsed, set_back, pw_result>>

PwKilled == killed /\ PwChildEnds

PwTick ==
    /\ pw_at # "idle" /\ elapsed < MaxElapsed /\ elapsed' = elapsed + 1
    /\ UNCHANGED <<child, killed, pw_at, pw_timeout, set_back, pw_result>>

PwSetBack ==
    /\ pw_at # "idle" /\ set_back < MaxSetBacks /\ set_back' = set_back + 1
    /\ elapsed' \in -1 .. elapsed - 1
    /\ UNCHANGED <<child, killed, pw_at, pw_timeout, pw_result>>

PwEnds ==
    /\ child' = "none" /\ killed' = FALSE /\ pw_at' = "idle" /\ pw_timeout' = 0
    /\ elapsed' = 0 /\ pw_result' = "none" /\ UNCHANGED set_back

PwWait == PwPoll \/ PwCheck \/ PwGrace \/ PwLast

PwNext ==
    \/ PwBackground \/ PwWait \/ PwChildEnds \/ PwTick \/ PwSetBack \/ PwEnds
    \/ \E timeout \in Timeouts : PwCall(timeout)

(* The program runs, and the kernel ends a process that was sent SIGKILL. *)
PwFairness == WF_pwVars(PwWait) /\ WF_pwVars(PwKilled)

-----------------------------------------------------------------------------
PwTypeOK ==
    /\ child \in {"none", "running", "zombie", "reaped"} /\ killed \in BOOLEAN
    /\ pw_at \in {"idle", "poll", "check", "grace", "last"}
    /\ pw_timeout \in Timeouts \union {0}
    /\ elapsed \in -1 .. MaxElapsed /\ set_back \in 0 .. MaxSetBacks
    /\ pw_result \in {"none", "status", "error", "timeout"}

(* A wait with a deadline returns, whatever the child does and though the  *)
(* clock was set back; one without returns once the child has ended.       *)
WaitReturns ==
    pw_at # "idle" /\ (pw_timeout > 0 \/ child # "running") ~> pw_at = "idle"

(* A wait that timed out leaves no child behind that runs on, also when    *)
(* the child ignores SIGTERM or ends while it is being killed.             *)
TimedOutChildDies == pw_result = "timeout" ~> child # "running"
=============================================================================
