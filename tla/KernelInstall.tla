--------------------------- MODULE KernelInstall ---------------------------
(***************************************************************************)
(* kernel/kernel_install.c and kernel/kernel_rollback.c: installing a      *)
(* kernel from source through five forked `make' steps, the backup taken   *)
(* before them, and the removal of an installed kernel.                    *)
(*                                                                         *)
(* Three parties share /boot and the boot menu: the program, the child it  *)
(* waits for, and children of earlier runs that were orphaned when a       *)
(* signal ended the program alone. Signals, restarts, failing calls and    *)
(* the inherited disposition of SIGCHLD are part of the model.             *)
(***************************************************************************)
EXTENDS Integers, Sequences, SequencesExt

CONSTANTS
    Kernels,   \* kernel versions with files under /boot
    New,       \* the version the source tree builds
    MaxRuns,   \* bound: runs of the program
    MaxCalls,  \* bound: calls of one run
    DirOnly,   \* a backup without grub.cfg
    None

ASSUME InstallAssumption ==
    /\ New \in Kernels /\ MaxRuns \in Nat \ {0} /\ MaxCalls \in Nat
    /\ None # "install" /\ None # "remove"

VARIABLES
    pc,       \* where the program stands: "idle" between calls, "dead" after a signal
    op,       \* the call made last: None, "install" or "remove"
    result,   \* what it returned: None while it runs, 0 or -1
    step,     \* index in steps[] of the install, or in Parts of the removal
    victim,   \* kernel_name of the removal
    success,  \* the local `success' of the removal
    child,    \* child of each run: its make step, what it did, its state
    tree,     \* the source tree: "dirty", "clean", "configured" or "built"
    boot,     \* parts of each kernel on the disk
    menu,     \* kernels in the boot menu (grub.cfg)
    backup,   \* backup of this install: None, DirOnly or the menu saved in it
    ignored,  \* SIGCHLD was inherited as ignored
    run,      \* number of this run of the program
    calls,    \* calls made in this run
    before,   \* history: boot and menu when the last install started
    strayed,  \* history: an orphan changed the files of a kernel or the menu
    unlinked, \* history: no removal ever failed to unlink the image of a kernel
    gutted    \* history: a modules_install removed the modules of New, whose image
              \* was there, and did not put them back

progVars  == <<pc, op, result, step, victim, success, backup, calls>>
worldVars == <<tree, boot, menu>>
histVars  == <<before, strayed, unlinked, gutted>>
vars == <<progVars, child, worldVars, ignored, run, histVars>>

(* The files of a kernel, in the order rollback_kernel_installation removes *)
(* them; "support" stands for initrd, System.map and config, which are     *)
(* treated alike.                                                          *)
Parts == <<"vmlinuz", "support", "modules">>

(* What the last two of the five make steps do to the disk, in order:      *)
(* modules_install clears away what is there of the version before it      *)
(* copies, and the install script of the kernel ends by rebuilding the menu. *)
Work(s) == CASE s = 4 -> <<"clear", "modules">>
             [] s = 5 -> <<"vmlinuz", "support", "menu">>
             [] OTHER -> <<>>
LastStep == 5

Runs == 1 .. MaxRuns
NoChild == [step |-> 0, done |-> 0, state |-> "none"]
WithImage == {k \in Kernels : "vmlinuz" \in boot[k]}

Init ==
    /\ pc = "idle" /\ op = None /\ result = None /\ step = 1
    /\ victim = None /\ success = TRUE
    /\ child = [r \in Runs |-> NoChild]
    /\ tree = "dirty"
    /\ boot = [k \in Kernels |-> IF k = New THEN {} ELSE ToSet(Parts)]
    /\ menu = Kernels \ {New}
    /\ backup = None
    /\ ignored \in BOOLEAN
    /\ run = 1 /\ calls = 0
    /\ before = None
    /\ strayed = FALSE /\ unlinked = TRUE /\ gutted = FALSE

World == [boot |-> boot, menu |-> menu]

Call(name, p) ==
    /\ pc = "idle" /\ calls < MaxCalls
    /\ calls' = calls + 1
    /\ op' = name /\ result' = None /\ step' = 1
    /\ pc' = p

(* The locals of the call go with it. *)
Return(r) ==
    /\ pc' = "idle" /\ result' = r
    /\ step' = 1 /\ success' = TRUE

(* On to statement p of the same call. *)
Goto(p) ==
    /\ pc' = p
    /\ UNCHANGED <<result, step, success>>

(* Statements that neither start nor end a call. *)
Local == UNCHANGED <<op, victim, calls, ignored, run, before>>

----------------------------------------------------------------------------
(* install_kernel_from_source: the source must be there ...                *)
InstallCall ==
    /\ Call("install", "access")
    /\ backup' = None /\ before' = World
    /\ UNCHANGED <<victim, success, child, worldVars, ignored, run, strayed, unlinked, gutted>>

CheckSource(exists) ==
    /\ pc = "access"
    /\ IF exists THEN Goto("deps") ELSE Return(-1)
    /\ Local /\ UNCHANGED <<backup, child, worldVars, strayed, unlinked, gutted>>

(* ... and check_system_dependencies must find every tool. It asks with    *)
(* system(), which returns -1 when SIGCHLD is ignored: all tools are then  *)
(* reported missing.                                                       *)
CheckDependenciesUnlessMissing(found) ==
    /\ pc = "deps"
    /\ IF found THEN Goto("mkdir") ELSE Return(-1)
    /\ Local /\ UNCHANGED <<backup, child, worldVars, strayed, unlinked, gutted>>

CheckDependencies(found) ==
    /\ found => ~ignored
    /\ pc = "deps"
    /\ IF found THEN Goto("mkdir") ELSE Return(-1)
    /\ Local /\ UNCHANGED <<backup, child, worldVars, strayed, unlinked, gutted>>

(* backup_system_config: without the directory the install is given up ... *)
BackupMkdirOrNot(made) ==
    /\ pc = "mkdir"
    /\ Goto(IF made THEN "cp" ELSE "fork")
    /\ backup' = IF made THEN DirOnly ELSE backup
    /\ Local /\ UNCHANGED <<child, worldVars, strayed, unlinked, gutted>>

BackupMkdir(made) ==
    /\ pc = "mkdir"
    /\ IF made THEN Goto("cp") ELSE Return(-1)
    /\ backup' = IF made THEN DirOnly ELSE backup
    /\ Local /\ UNCHANGED <<child, worldVars, strayed, unlinked, gutted>>

(* ... without grub.cfg in it there is only a warning.                     *)
BackupCopy(copied) ==
    /\ pc = "cp"
    /\ backup' = IF copied THEN menu ELSE backup
    /\ Goto("fork")
    /\ Local /\ UNCHANGED <<child, worldVars, strayed, unlinked, gutted>>

(* One turn of the loop over steps[]: fork, then waitpid.                  *)
ForkStep(forked, s) ==
    /\ pc = "fork"
    /\ child' = IF forked
                THEN [child EXCEPT ![run] = [step |-> s, done |-> 0, state |-> "running"]]
                ELSE child
    /\ IF forked THEN Goto("wait") ELSE Return(-1)
    /\ Local /\ UNCHANGED <<backup, worldVars, strayed, unlinked, gutted>>

ForkModulesLast(forked) == ForkStep(forked, CASE step = 4 -> 5 [] step = 5 -> 4 [] OTHER -> step)
Fork(forked) == ForkStep(forked, step)

NextStepOneMore ==
    /\ step' = step + 1
    /\ pc' = IF step > LastStep THEN "apply" ELSE "fork"
    /\ UNCHANGED <<result, success>>

NextStep ==
    /\ step' = step + 1
    /\ pc' = IF step = LastStep THEN "apply" ELSE "fork"
    /\ UNCHANGED <<result, success>>

(* With SIGCHLD ignored waitpid fails once the child is gone, unnoticed:   *)
(* `status' keeps the 0 it started with.                                   *)
WaitFor(over) ==
    /\ pc = "wait"
    /\ child[run].state \in over
    /\ child' = [child EXCEPT ![run] = NoChild]
    /\ IF ~ignored /\ child[run].state = "failed"
       THEN Return(-1)
       ELSE NextStep
    /\ Local /\ UNCHANGED <<backup, worldVars, strayed, unlinked, gutted>>

WaitForSuccess == WaitFor({"ok"})
Wait == WaitFor({"ok", "failed"})

(* apply_rolling_updates; when it fails execute_rollback runs, on a stack  *)
(* nothing was ever pushed on, and so returns at once.                     *)
Apply(applied) ==
    /\ pc = "apply"
    /\ Return(IF applied THEN 0 ELSE -1)
    /\ Local /\ UNCHANGED <<backup, child, worldVars, strayed, unlinked, gutted>>

----------------------------------------------------------------------------
(* The children: `make' in the source tree (external). A child of another  *)
(* run than the present one, or of a dead program, is an orphan.           *)
ChildAt(r) == child[r].state = "running"
Orphan(r) == r # run \/ pc = "dead"
Ended(r, state) ==
    child' = [child EXCEPT ![r] = IF Orphan(r) THEN NoChild ELSE [@ EXCEPT !.state = state]]

Needs(s) == CASE s = 3 -> {"configured", "built"}
              [] s \in {4, 5} -> {"built"}
              [] OTHER -> {"dirty", "clean", "configured", "built"}
Makes(s) == CASE s = 1 -> "clean" [] s = 2 -> "configured" [] s = 3 -> "built" [] OTHER -> tree

(* One part of the work of a child. *)
Perform(part) ==
    CASE part = "menu" ->
            menu' = WithImage /\ UNCHANGED <<boot, gutted>>
      [] part = "clear" ->
            /\ boot' = [boot EXCEPT ![New] = @ \ {"modules"}]
            /\ gutted' = (New \in WithImage)
            /\ UNCHANGED menu
      [] OTHER ->
            /\ boot' = [boot EXCEPT ![New] = @ \union {part}]
            /\ gutted' = (gutted /\ part # "modules")
            /\ UNCHANGED menu

ChildWork(r) ==
    LET c == child[r]
    IN  /\ ChildAt(r)
        /\ c.done < Len(Work(c.step))
        /\ tree \in Needs(c.step)
        /\ child' = [child EXCEPT ![r].done = @ + 1]
        /\ Perform(Work(c.step)[c.done + 1])
        /\ strayed' = (strayed \/ Orphan(r))
        /\ UNCHANGED <<progVars, tree, ignored, run, before, unlinked>>

ChildSucceeds(r) ==
    LET c == child[r]
    IN  /\ ChildAt(r)
        /\ c.done = Len(Work(c.step))
        /\ tree \in Needs(c.step)
        /\ Ended(r, "ok")
        /\ tree' = Makes(c.step)
        /\ UNCHANGED <<progVars, boot, menu, ignored, run, histVars>>

(* It may fail, or be killed, after any part of its work. *)
ChildFails(r) ==
    /\ ChildAt(r)
    /\ Ended(r, "failed")
    /\ tree' \in {tree, "dirty"}
    /\ UNCHANGED <<progVars, boot, menu, ignored, run, histVars>>

----------------------------------------------------------------------------
(* rollback_kernel_installation(k): the files one by one, whatever happens *)
(* to the others; only the image decides about the result. Nothing keeps   *)
(* the running kernel, or a kernel of that name never installed, out.      *)
RemoveCall(k) ==
    /\ Call("remove", "unlink")
    /\ victim' = k /\ success' = TRUE /\ backup' = None /\ before' = None
    /\ UNCHANGED <<child, worldVars, ignored, run, strayed, unlinked, gutted>>

RemoveFrom(first, removed) ==
    LET part == Parts[step]
    IN  /\ pc = "unlink"
        /\ removed => part \in boot[victim] \/ part = "modules"
        /\ boot' = IF removed THEN [boot EXCEPT ![victim] = @ \ {part}] ELSE boot
        /\ success' = (success /\ (part = first => removed))
        /\ unlinked' = (unlinked /\ (part = "vmlinuz" /\ part \in boot[victim] => removed))
        /\ step' = IF step = Len(Parts) THEN step ELSE step + 1
        /\ pc' = IF step = Len(Parts) THEN "grub" ELSE "unlink"
        /\ Local /\ UNCHANGED <<result, backup, child, tree, menu, strayed, gutted>>

RemoveIgnoringImage(removed) == RemoveFrom("modules", removed)
RemovePart(removed) == RemoveFrom("vmlinuz", removed)

(* update-grub; with SIGCHLD ignored it runs but is taken for failed.      *)
RemoveGrub(updated) ==
    /\ pc = "grub"
    /\ menu' = IF updated THEN WithImage ELSE menu
    /\ Return(IF success THEN 0 ELSE -1)
    /\ Local /\ UNCHANGED <<backup, child, tree, boot, strayed, unlinked, gutted>>

----------------------------------------------------------------------------
(* The end of the process and of its variables. *)
Die ==
    /\ pc # "dead"
    /\ pc' = "dead"
    /\ op' = None /\ result' = None /\ step' = 1 /\ victim' = None
    /\ success' = TRUE /\ backup' = None /\ calls' = 0 /\ before' = None
    /\ UNCHANGED <<worldVars, ignored, run, strayed, unlinked, gutted>>

(* SIGTERM ends the program only: its handler rolls back an empty stack    *)
(* and exits, and a running child is orphaned.                             *)
Signal == Die /\ UNCHANGED child

(* Ctrl-C reaches the process group: the child dies as well. *)
Interrupt ==
    /\ ChildAt(run)
    /\ Die
    /\ child' = [child EXCEPT ![run] = NoChild]

Restart ==
    /\ pc = "dead" /\ run < MaxRuns
    /\ run' = run + 1
    /\ pc' = "idle"
    /\ ignored' \in BOOLEAN
    /\ UNCHANGED <<op, result, step, victim, success, backup, calls,
                   child, worldVars, histVars>>

Install ==
    \/ InstallCall \/ Wait
    \/ \E ok \in BOOLEAN :
          \/ CheckSource(ok) \/ CheckDependencies(ok) \/ BackupMkdir(ok) \/ BackupCopy(ok)
          \/ Fork(ok) \/ Apply(ok)

Removal ==
    \/ \E k \in Kernels : RemoveCall(k)
    \/ \E ok \in BOOLEAN : RemovePart(ok) \/ RemoveGrub(ok)

Child == \E r \in Runs : ChildWork(r) \/ ChildSucceeds(r) \/ ChildFails(r)

Next == Install \/ Removal \/ Child \/ Signal \/ Interrupt \/ Restart

Spec == Init /\ [][Next]_vars

(* The program runs on unless it waits, and every make step ends in the end. *)
FairSpec ==
    /\ Spec
    /\ WF_vars((Install /\ pc # "idle") \/ (Removal /\ pc # "idle"))
    /\ \A r \in Runs : WF_vars(ChildWork(r) \/ ChildSucceeds(r) \/ ChildFails(r))

----------------------------------------------------------------------------
(* A type invariant of the program, its children and the disk. *)
TypeOK ==
    /\ pc \in {"idle", "dead", "access", "deps", "mkdir", "cp", "fork", "wait", "apply",
               "unlink", "grub"}
    /\ op \in {None, "install", "remove"}
    /\ result \in {None, 0, -1}
    /\ step \in 1 .. LastStep + 1
    /\ victim \in Kernels \union {None}
    /\ child \in [Runs -> [step : 0 .. LastStep, done : 0 .. 3,
                          state : {"none", "running", "ok", "failed"}]]
    /\ tree \in {"dirty", "clean", "configured", "built"}
    /\ boot \in [Kernels -> SUBSET ToSet(Parts)]
    /\ menu \subseteq Kernels
    /\ backup \in {None, DirOnly} \union SUBSET Kernels
    /\ {strayed, unlinked, gutted} \subseteq BOOLEAN

(* install_kernel_from_source returns 0 only with every file of the new    *)
(* kernel on the disk and its entry in the menu, although the result of    *)
(* waitpid is never looked at: a stale status cannot hide a failed step,   *)
(* because a program whose SIGCHLD is ignored does not get past the        *)
(* dependency check. Whatever orphans of earlier runs do they can take the *)
(* modules away only: a modules_install of theirs begins by clearing them. *)
SuccessMeansComplete ==
    pc = "idle" /\ op = "install" /\ result = 0 =>
        /\ New \in menu
        /\ ToSet(Parts) \ boot[New] \subseteq IF strayed THEN {"modules"} ELSE {}

(* Where an install changed the menu, its backup holds the menu it found,  *)
(* unless copying grub.cfg failed, which is only warned about, or an       *)
(* orphan of an earlier run changed the menu too.                          *)
MenuRecoverable ==
    op = "install" /\ menu # before.menu /\ ~strayed => backup \in {DirOnly, before.menu}

(* An image in /boot has its modules: modules_install comes before the     *)
(* image is copied and the removal deletes the image before the modules.   *)
(* It takes one of three to break this: an image that could not be         *)
(* unlinked (the removal goes on and deletes the modules); an orphan at    *)
(* work; or, for the kernel being built only, a reinstall whose            *)
(* modules_install stopped after it had cleared the old modules.           *)
ImageHasModules ==
    unlinked /\ ~strayed =>
        \A k \in WithImage : "modules" \in boot[k] \/ (k = New /\ gutted)

(* A removal that returns 0 has taken the image away for good, unless an   *)
(* orphan puts it back.                                                    *)
RemovedImageGone ==
    pc = "idle" /\ op = "remove" /\ result = 0 /\ ~strayed => victim \notin WithImage

(* Every call returns, or a signal ends the program: no wait is for ever.  *)
CallEnds == (pc \notin {"idle", "dead"}) ~> (pc \in {"idle", "dead"})

(* What the rollback is for: an install that fails leaves the kernels and  *)
(* the menu as it found them.                                              *)
FailedInstallUndone ==
    pc = "idle" /\ op = "install" /\ result = -1 /\ ~strayed =>
        boot = before.boot /\ menu = before.menu
=============================================================================
