# SwiKernel in TLA+

SwiKernel is a C program (with a dialog-based TUI, a few command-line modes,
some shell scripts and assembly routines) that builds, installs, lists and
removes Linux kernels. This directory holds TLA+ modules translated from its C
sources, the TLC configurations that check them on small instances, and
theorems that TLAPS proves for every value of the constants.

Paths such as `src/src/utils/logger.c` name the file `src/utils/logger.c` of the
repository, whose root is `src/`.

The sources as committed do not build: `src/src/core/swikernel.h` contains a
stray shell line, `kernel_manager.c:41` lacks a parenthesis, the dialogs of
`tui_dialogs.c` from line 1000 on sit inside another function, and both
`core/main.c` and `utils/error_handler.c` define `execute_rollback` and
`signal_handler`. The models follow what each file says on its own: the rollback
stack is the one of `error_handler.c`, and the handler of `main.c` differs from
it only in that it logs at `LOG_INFO` and rolls nothing back.

## 1. The system

| Component | State | Operations | Hard behaviour |
|---|---|---|---|
| Rollback stack (`utils/error_handler.c`) | linked list, counter, installed handler | `add_rollback_step`, `execute_rollback`, `clear_rollback_stack`, `set_error_handler`, `signal_handler` | signals between any two stores, nested handlers, memory freed while the list still points at it, a handler that waits for a lock of the code it interrupted |
| Logger (`utils/logger.c`) | `FILE`, level, mutex, chain of log files | `logger_init`, `log_message`, `rotate_log_files`, `logger_set_level`, `logger_cleanup` | mutex taken twice by one thread, handlers that interrupt handlers, kill in the middle of a rotation |
| Kernel install and removal (`kernel/kernel_install.c`, `kernel_rollback.c`) | the step being run, its child process, `/boot`, boot menu, backup | `install_kernel_from_source`, `backup_system_config`, `rollback_kernel_installation` | failing steps, orphaned children, restarts, nothing undone |
| Kernel list, dependencies (`kernel_manager.c`, `dependency_check.c`) | none kept | `scan_installed_kernels`, `check_system_dependencies`, `list_available_kernels` | stale lists; `which` asked for package names (`libelf-dev`, `xz-utils`) |
| Entry point (`core/main.c`) | global configuration | start-up order, mode dispatch, handler | handler during start-up and shutdown |
| System monitor (`tui/system_monitor.c`) | ring buffer of samples | init, update, history, average, closest sample, cleanup | wrap-around |
| Processes (`system/process.c`) | one child, the clock at the call | `execute_background`, `wait_for_process` | a deadline against a child that ends at any time, a clock set back, zombies |
| Feedback (`tui/feedback_system.c`) | bounded linked list, level, mutex | add, clear, level, sound, dialog, cleanup | list at its limit |
| Plugins (`tui/plugin_system.c`) | plugin list, two counters, `dlopen` handles, plugin directory | scan, load, unload, enable, disable, install, remove, cleanup | duplicates, freed nodes read, replaced files |
| Configuration (`utils/config_parser.c`, `tui/config_manager.c`) | `g_config`; the items of the file, unsaved edits | load, defaults, set, save, reload | two readers that disagree on the same file, words read with `atoi`, a write that is cut |
| Language (`tui/i18n.c`, start of `main`) | message table, current language | init, load, set, first run, cleanup | table freed twice, files missing or empty |
| Log viewer (`tui/log_viewer.c`) | list of entries, cursor, position, total, `FILE` | init, reload, refresh, scroll, filter | the file grows or vanishes under the list; a reload closes what it opened |
| File manager (`tui/file_manager.c`) | current directory, listing | copy, move, delete, rename, mkdir | `cp` and `rm` that fail half-way, trees copied into themselves, other programs |
| Themes (`tui/theme_manager.c`) | list of themes, the current one | init, load, apply, save | names that clash, or that the parser loses |
| Layouts (`tui/layout_manager.c`) | presets, screen size as last detected | detect, apply, adapt, edit | a stored size that is no longer the terminal's |
| Main menu and dialogs (`tui/tui_core.c`, `tui_dialogs.c`) | a static `initialized` per dialog | one dialog at a time | a first opening that fails |
| File functions (`system/file_ops.c`), keyboard, completion | none that outlives a call | `mkdir_p`, `copy_file`, ... | not modelled on their own |
| Progress bar, assembly routines, scripts | none that matters | drawing, libc replacements, package installation | not modelled |

The program has one thread. What runs beside it: signal handlers on top of the
interrupted code (they log, roll back and call `exit(1)`), the children it forks,
children orphaned by an earlier run, and other programs working on the same
files. What is persisted is files: the log chain, `/boot`, the configuration, the
plugins, themes and language files; they survive a kill and meet the next run.

For each component, what makes it correct:

- **Rollback stack**: every step registered and not dropped is undone, newest
  first and once, before a handler exits; no freed node is read or freed again.
- **Logger**: a log call returns, or waits for a mutex taken below it; the files
  hold the newest lines in order; a closed file is not written to.
- **Kernel install and removal**: success means a complete kernel; a failure can
  be undone; no image without its modules; every call returns.
- **System monitor**: the buffer holds the newest samples, in an order a reader
  can rely on; the screen is as fresh as the interval promises.
- **Plugins**: counters and references agree with the list; nothing is called
  after its cleanup; what is off stays off; what is removed is gone.
- **Processes**: a wait with a deadline returns; a child that missed it does not
  run on.
- **Feedback**: the newest messages up to the limit, in their order, none dropped
  before its turn.
- **Configuration**: what a user saved is what the next start reads, if its field can
  hold it; a save changes no field that nobody edited; a documented value is read as
  what it says.
- **Language**: the program holds the block of its message table and no other.
- **Log viewer**: the numbers shown are those of the list; new lines appear.
- **File manager**: a move loses no file, at whatever file its copy or its delete
  stops, unless source and target lie in one another or others touch them.
- **Themes, layouts**: the theme applied is the one chosen; an adapted dialog fits
  the terminal it was adapted to.

## 2. Modules, and the order they are written in

| # | Module | Models | Run (configuration) | Proofs |
|---|---|---|---|---|
| 1 | `UndoLog` | what a rollback stack promises | — (property of 2) | — |
| 1 | `RollbackStack` | `utils/error_handler.c` with its signal handlers | `RollbackStack.cfg`, `RollbackStackUAF.cfg` | `RollbackStackProofs` |
| 2 | `Logger` | `utils/logger.c`, the handler of `core/main.c` | `Logger.cfg`, `LoggerCleanup.cfg` | `LoggerProofs` |
| 3 | `KernelInstall` | `kernel/*.c` with children, orphans and the disk | `KernelInstall.cfg`, `KernelInstallUndone.cfg` | `KernelInstallProofs` |
| 4 | `SlidingWindow` | what the sample history promises | — (property of 5) | — |
| 5 | `MonitorHistory` | `tui/system_monitor.c`, the dashboard's timing | `MonitorHistory.cfg` | `MonitorHistoryProofs` |
| 6 | `Plugins` | `tui/plugin_system.c`, the plugin dialogs | `Plugins.cfg` | `PluginsProofs` |
| 7 | `Settings` | `config_parser.c`, `config_manager.c` and its dialogs | `Settings.cfg`, `SettingsWords.cfg` | `SettingsProofs` |
| 8 | `LogView` | `tui/log_viewer.c`, its dialog and filter | with 15 | `DialogsProofs` |
| 9 | `FileManager` | copy, move, delete, rename, mkdir of `tui/file_manager.c` | with 15 | `FileManagerProofs` |
| 10 | `Feedback` | `tui/feedback_system.c`, against `SlidingWindow` | with 15 | `DialogsProofs` |
| 11 | `Themes` | `tui/theme_manager.c`, its dialog | with 15 | `DialogsProofs` |
| 12 | `Layout` | `tui/layout_manager.c`, its dialogs | with 15 | `DialogsProofs` |
| 13 | `Language` | `tui/i18n.c`, the start of `main` | with 15 | `DialogsProofs` |
| 14 | `ProcessWait` | `system/process.c` | with 15 | types in `DialogsProofs` |
| 15 | `Dialogs` | the dispatch of `tui_core.c` to 8-14 | `Dialogs.cfg`, `LogViewLive.cfg` | the two above |

The order puts what can damage a machine first (undo, log, install), then the
parts with shared or cyclic data. Each component is a module of its own, since
the components share no state in memory: what they share, the file system and
the process, is part of the modules that use it. `MC*` modules hold the bounds;
each proof module extends its component and no module of theirs has a recursive
operator, so the same definitions are checked and proved.

Every safety property a run checks is also proved (section 5), the two refinements
and the one property of steps among them. Left to TLC is what the prover
cannot express: the six liveness properties, and the five findings, which are
counterexamples.

## 3. How the modules correspond to the code

**`RollbackStack`.** `head`, `count`, `heap` and `next` are the statics and the
nodes. One action is the code between two stores another activation can see, in
source order, so a signal can come between `step->next = ...`, the push, the
count, each free and the two resets. `pc`, `cur`, `depth` are the activations: a
handler never returns, so they form a stack whose top runs; a signal is blocked
while its own handler runs. The first act of a handler is `log_message`, which takes
a mutex that is not recursive: `Enter` chooses whether the interrupted code is in a
place (`LockPcs`) where it may hold that mutex, or the lock of `malloc`, and sets
`held`; then the handler waits for ever (`ExecStart` needs `~held`). `Leave` is its
`exit(1)`. What else a handler may break inside the C library, such as a heap it
finds in the middle of a `free`, is not modelled. A node's `data` and the node itself are freed in one
step. A `malloc` that fails, or a full stack, changes nothing. Reading or freeing
freed memory sets `corrupt`, and from there the step may go on or fault.
`order`, `accepted`, `cleared` and `attempts` are history variables.

**`Logger`.** `file`, `level`, `rotate`, `mutex` are the struct; `disk` is the chain
of files, a sequence of line numbers each. `log_message` is a call, the mutex,
the size check, the renames one by one, the reopening, the line and the unlock.
A handler may come between any two of them and logs on top, and the handler of the
other signal on top of that (`main.c` masks neither): `active` is the activation
that runs, and the others keep what they hold. A kill ends the run and the next one
finds the files. `fopen` and `rename` may fail. That the
chain is in order is said line by line (`OldestFirst`, `NoneMissing`) and not by
putting the files one behind the other. Level `LOG_INFO`
is the boundary, because the messages of a rotation and of the cleanup have it.
`logger_cleanup` closes the file in one step.

**`KernelInstall`.** The install is its checks, the backup of `grub.cfg`, and five
times fork, work of the child, wait. The child writes its files in steps of its
own, so that a signal to the program leaves an orphan that goes on. `status`
keeps its value when `waitpid` fails, which it does when `SIGCHLD` is ignored;
`system()` then fails too. A kernel on disk is a set of parts: modules, image,
and `support` for the initrd, `System.map` and config file that only follow the
image. `make` is external, with what each target needs and leaves behind.
`modules_install` first removes the modules of the version it installs ("clear" in
`Work`), so a reinstall that stops there leaves the old image without them: `gutted`
records it.

**`MonitorHistory`.** `stats`, `index`, `count` are the ring buffer as stored;
`History` is what `system_monitor_get_history` returns, `Recent` the samples from
the oldest to the newest, which is the refinement mapping to `SlidingWindow`.
The collectors are one choice: a value, or the 0 that `memset` left; the time of the
sample is taken before they run. `Show` is a turn of the dashboard loop. The first
sample may take any time, and `last_update` is read after it: `lag` is that time.
`SetInterval` takes any number the user may enter (`Entered`). The clock may be set forward and back.
`system_monitor_cleanup`, which nothing in the repository calls, is an action,
so that what the dashboard does after it is covered.

**`Plugins`.** The list is the set of its nodes, in the order of their `load`; the
first node of a name, which all operations by name find, is the newest. `refs`
is the dynamic linker's count per inode; `dlopen` looks for the path among the objects
that are mapped before it looks at the file (`known`, `Object`), so a file that
another program has replaced by a rename is loaded anew only when no object of its
path is left. `cp` of `plugin_system_install_plugin` writes into the old inode, mapped or
not. The dialogs decide by the chosen node and act by its name, so with copies
the two may be different nodes. `Remove` and `Unlink` are separate steps: between
them a kill or another program may come, and the path is read from freed memory.
`plugin_system_cleanup` reads the next node from the one just freed: it may unload
all, crash, or end early, and then the later nodes are `abandoned`, mapped for good.

**`Settings`.** `file` is the lines of `/etc/swikernel/swikernel.conf`. It has two
readers: `Parsed` is `load_config`, which trims each line and lets the last line
of a field count; `Items` is `config_manager_load`, which knows only a header
that fills its line, and edits the first line of a field. `Edit`, `SaveBegin`,
`SaveEnd` and `SaveCut` are the dialog and `config_manager_save`: `fopen` empties
the file, the items are written with a header whenever the section changes, and
no write is checked; a cut may come between lines or within a value (`CutIn`).
`Reading` is what `set_config_value` makes of a text: `atoi` for a number, which is 0
for a word, and for a text what the parser's line of 256 characters and the field's
array keep (`Kept`), where the manager keeps 512. `Stop` may come anywhere. The next start reads the result
with `LoadConfig`, which has three more paths (`OtherFiles`) and the defaults. Both
loops over lines are given by places: `Nth` is the n-th line that becomes an item,
`Ends` the line at which the n-th item ends in the file written, so that a proof can
speak of one line.
`read`, `was`, `edited`, `promise` and `torn` are history variables. Other programs
write the file whenever `config_manager_save` is not between its `fopen` and `fclose`.

**`LogView`.** `lv_entries` is the list and `lv_current` the place of the cursor in
it; `lv_position` and `lv_total` are kept beside it by the code, and the module
keeps them beside it too. `log_viewer_reload` stores the `FILE` it opened and then
calls `log_viewer_cleanup`, which closes it: what the loop reads from a freed
`FILE` is a choice (`Reload`), and `log_file` is `NULL` from then on, so
`log_viewer_refresh` (`LvShow`) returns at once for ever. `OpenKeepingTheFile` is the
order that was meant; with it the append of `LvShow` is reached.

**`FileManager`.** `fs` says what is at each path: data, a directory, nothing, or a
file cut short. `cp -r` and `rm -rf` are external and work one file or directory at
a time: `CopyFile`, `CopyDirectory`, which lists what is below, `CopyFails`, and
`RemoveOne`; `todo` is what `cp` has listed and not done. Either may be killed or end
at any point (`FmCopyFailed`, `FmDeleteEnds`). A move is `FmBegin`, `FmCopyEnds` when
`cp` reported success, and `FmDeleteEnds`. Other programs write, rename and delete
between any two steps. `cp` ends with an error when source and target are the same,
or when a directory would go into itself, but only after it has written what it could.
A `cp` whose program has ended goes on, but not beside a second operation.
`carried` is the history of what a move has to keep. Paths are those a user can name. `file_manager_rename` always renames
`current_file`, a name fixed in the code.

**`Feedback`.** The list is modelled by its nodes and `next` fields, so that the walk
that drops the oldest (`DropLast`) is the pointer walk of the code. `Listing` is the
sequence of nodes that the links lead through, and `OldestFirst`, read off it,
is the refinement mapping to `SlidingWindow`, which `MonitorHistory` implements too.

**`Themes`.** `th_themes` is the list by name, `th_current` the place of
`current_theme`. The menu chooses a place, `theme_manager_apply_theme` looks for the
name from the head: with two equal names these differ. `NameRead` is what the
parser makes of a file: a line `name = x`, as `theme_manager_save_to_file` writes it,
is not read, because blanks before `=` are not trimmed.

**`Layout`.** `lo_screen` is the size stored by the last detection, `lo_terminal` the
real one, `lo_dialog` each layout's dialog size, which `layout_manager_adapt_to_screen`
(`LoAdapt`) computes. `lo_adapted` is a history variable.

**`Language`.** The table is one block of memory; `heap` is what is allocated.
`i18n_set_language` saves the pointer, lets `i18n_load_messages` free it, and frees it
again: if `realloc` gave the new table the same block, that table is freed
(`SetLanguageThen`); otherwise the block is freed twice. `changed` tells the states
after that. An `i18n_init` that fails makes `main` return: the program stays off.

**`ProcessWait`.** `pw_at` is the statement of `wait_for_process`; between any two the
child may end and the clock may tick or be set back. `child` is its life as the
kernel sees it.

**`Dialogs`** is a session of the program. There is one thread, in one dialog at a
time; the components have no memory in common and none reads what another
writes. So the session is taken apart: `part` names the component that moves, and
the others stay as they begin. What the rest of the program does to a part (it
logs lines, it adds messages) is an action of that part, so nothing is lost but
the products of independent states.

## 4. What the runs show

| Run | Result | Shows |
|---|---|---|
| `rollback_stack` | holds | freed memory is touched only after a signal interrupted a walk, and without that each step is undone once and none is forgotten; every handler ends or waits for a lock of the code it interrupted; the code implements `UndoLog` |
| `rollback_use_after_free` | violated | a signal during `execute_rollback` does touch freed memory |
| `logger` | holds | the exact causes of deadlock and crash; lines stay in order through kills in a rotation; above `LOG_INFO` handlers and cleanup finish, unless a handler waits for what it interrupted |
| `logger_cleanup` | violated | at `LOG_INFO`, the level `main.c` uses, `logger_cleanup` waits for the mutex it holds |
| `kernel_install` | holds | success is a complete kernel; the backup restores the menu; an image has its modules, apart from the named causes; every call returns |
| `install_not_undone` | violated | a failing step leaves the files of the earlier ones |
| `monitor` | holds | the ring is a sliding window; the history is in the order of its times until it wraps; the screen is fresh, for any interval entered, while the clock is not set back |
| `plugins` | holds | counters, references, cleanup and switching off stay right through copies, replaced files and reinstalls; what a cleanup gives up half-way stays mapped |
| `settings` | holds | what is saved takes effect at the next start, and a save changes nothing else; the exceptions (a field on two lines, a header with blanks, a value the field cannot hold, a field another program changed meanwhile) are named in the properties |
| `settings_words` | violated | `INFO` and `true`, as in the shipped file, are read as 0 |
| `dialogs` | holds | each dialog keeps its promise; the exceptions (equal theme names, a language changed while there is a table, a move between places that lie in one another, or that others touch) are named in the properties |
| `log_view_live` | violated | a line logged while the viewer is open is never shown |

The violated ones are recorded as findings with the sentence of the repository
they contradict. Seen while reading, and not a property of a run: the list of
required tools contains the package names `libelf-dev` and `xz-utils`
(`dependency_check.c`), which `which` never finds, so the check of an install
only passes where such programs exist. `i18n_setup_first_run` writes the language
chosen to `language.conf` under the comment "保存语言设置" (save the language
setting), and nothing reads it: the next start goes by `LANG` again. `system_monitor_get_stats_at_time` starts its search from a smallest difference of
`(time_t)-1`, which no difference is below, so it finds nothing; it has no caller. A
file manager's move of `n/n` to the directory above, with an `n/n/n` in it, is a copy
into itself that `cp` reports as a success, and the delete that follows takes
both; a move of `a/` to `a`, the defaults of the dialog, writes `a/b` over `a/a/b`
before `cp` fails; a file that another program moves, during the copy, from a
directory `cp` has not listed to one it has is missed by `cp` and deleted by `rm`.
`MoveLosesNothing` excepts these three by name. A save of the configuration takes back
what another program wrote since the dialog was opened, and `SaveKeepsTheOthers`
excepts it. A reinstall that stops in `modules_install` leaves the old image without
modules, and a removal whose `unlink` of the image failed deletes the modules all the
same: exceptions of `ImageHasModules`. `layout_manager_detect_terminal` asks for "color"
before "256color", so the latter is never found. The dialogs of layout properties
and of the language have no caller but the first run; `execute_background`,
`wait_for_process`, `save_config` and `theme_manager_save_to_file` have none. They are
modelled for what they do when called.

### Bounds, and why they are enough

- `RollbackStack`: three nodes against a limit of two, so the limit is hit and a
  list of two is walked; two signals, one of them raised by the runtime itself,
  nested as deep as there are signals. A walk, a nested walk over its remains, the
  fault that ends it and a handler that waits for the interrupted code all occur.
- `Logger`: three files and a size every line exceeds, so each line rotates, and
  six lines, so archives drop off the end; three runs, so a hole left by a kill
  meets two later rotations; two handlers, one on top of the other (`MaxNest`), as
  there are two signals; levels on both sides of `LOG_INFO`.
- `KernelInstall`: the running and the new kernel; two runs of two calls, so an
  orphan of the first meets an install and a removal of the second.
- `MonitorHistory`: three slots, so that after a wrap the oldest sample is neither
  the first nor the last; intervals of 1, 2 and 3, and -1, 0 and 61, which are refused;
  times 0 to 3, enough for each of them to pass and for the clock to go back. The
  theorems cover every size, every clock and every number entered.
- `Plugins`: two files, two inodes, two plugins, three loads in a run: copies of
  one plugin, two files that report one name after a replacement, and an install
  over a mapped object. The theorems cover every size.
- `Settings`: two sections, a number and a text, and four files: a complete one
  with a word for the number, one with a field twice and the sections interleaved,
  one with a header between blanks, one with the same key in both sections. Both
  readers disagree on the second and third; cuts may be anywhere. The user enters a
  number, a word where a number belongs, and a text of which the parser keeps a part.
- `LogView`: three lines, two levels, a page of two: a page up and down that is cut
  at either end.
- `FileManager`: `a` and `b` on four levels, eight paths, two contents, a disk of five
  files and directories (`Capacity`), one operation at a time among other programs:
  copies up, down, across and into themselves, directories over files and the other
  way round, a full disk. Each exception of `MoveLosesNothing` occurs in it.
- `Feedback`: limit two, three nodes, five messages: the limit is passed three times
  and nodes are used again.
- `Themes`: two files, three names, two of them built in: every kind of clash, and
  one more theme than the menu has room for.
- `Layout`: terminals of 60, 80, 100 and 132 columns and 20 to 30 rows: each branch of
  the adaptation, and both sides of its limits of 80 and 120.
- `Language`: two languages, two blocks: the new table may or may not get the old
  block; each file is missing, empty or full.
- `ProcessWait`: no deadline and a deadline of one second, a clock that stops at three
  and is set back once. The cap is above the deadline plus the second of a poll.

### Fairness

`RollbackStack` and `Logger` assume weak fairness of `Continue`, the next step of
the activation that runs: the code has no wait in it but for the mutex, a lock of the
allocator and the commands of rollback actions, which are taken to end. A handler that
waits for a lock of the code it interrupted is not enabled (`held`, `mutex`), so the
fairness does not carry it on. Nothing is assumed of signals.
`KernelInstall` assumes it of the calls of the program and of its children: a
`make` ends some day. `ProcessWait` assumes that the waiting function takes its next
step (its only waits are `sleep(1)` and `sleep(2)`) and that the kernel ends a
process that was sent SIGKILL; nothing is assumed of a child that heeds or ignores
SIGTERM, nor of the clock, which `sleep` alone moves on. `LiveSpec`, of the run
`log_view_live` only, adds a user who stays: the viewer's loop goes on with some
choice of its menu; that the lines are still not shown is then not the user's doing. The
other modules have no liveness property and no fairness.

## 5. What is proved

All theorems hold for every value of the constants, under the assumptions the
modules name (`StackAssumption`, `LoggerAssumption`, `InstallAssumption`,
`HistoryAssumption`, `PluginAssumption`, `SettingsAssumption`, and one per part of
`Dialogs`). They only say that limits are numbers, that the markers for "nothing"
are not values (`None` is no sequence of lines and no name of a call, `NONE` no
value, section or key), that paths have their parents, that a terminal has a
positive size, that theme files and configuration fields are finitely many, and
that files on the disk consist of lines. TLC evaluates them in each run.

**`RollbackStackProofs`**: `TypeOK`, `CorruptOnlyAfterInterruptedWalk`, `AtMostOnce`,
`NothingForgotten` and `ImplementsUndoLog`. None is inductive: that a walk frees
only what it has undone needs to know where in the list it stands. `IInv` says so:
the list `order` can be read off the heap, the counter is its length except in the
two windows between paired stores, each activation's local points at the place its
`pc` implies, and as long as no walk was interrupted nothing ahead is freed and
everything registered is ahead. One lemma per action shows that it is kept. The
refinement has a lemma per action too: `CountRecords`, `StartShows`, `RunUndoes`,
`ClearDiscards` and `SignalKills` are the steps the log sees, the links, frees and
resets are stutters, and from the moment a walk is interrupted the log is
`undefined`. Its mapping (`PendingSteps`) once had a `CASE` whose arms overlapped in
states between the two stores of a push; the proof attempt found that, TLC could
not, because it takes the first arm.

**`LoggerProofs`**: `TypeOK`, `WedgedOnlyBy`, `CrashOnlyBy` and `LogContiguous`. `Control`
adds to the types who holds the mutex at each statement (`MutexShape`), where
`logger.file` may dangle or be `NULL` (`FileShape`), and that a handler is there
exactly while it runs. `WedgedOnlyBy` follows from it without a further step.
`LogContiguous` needs to know the middle of a rotation: `LadderShape` says that the
target of each rename was emptied by the one before it. `RenamedLines` and
`WrittenLines` are the two ways the order of the lines is kept: a file moves to a
free place, or to the last one and drops only the oldest lines; a line is added
at the end.

**`KernelInstallProofs`**: `TypeOK`, `SuccessMeansComplete`, `MenuRecoverable`,
`ImageHasModules` and `RemovedImageGone`. `Base` ties the statement of a call to its
step and its child, and says that runs to come have no child. `InstallProgress` is
what the steps so far have put on the disk: modules before step five, image, support
and menu entry as the child of step five goes on. `ChildWorkFacts` is the lemma the
others rest on: a child, orphan or not, clears the modules of the new kernel first and then
only adds parts of it, in the order of its step. `BackupShape` says that the menu is still the old one until the
backup is made; `RemovalShape` that the removal knows about the image it unlinked.

**`MonitorHistoryProofs`**: `TypeOK`, `RingShape`, `HistoryInOrder`, `ShownIsFresh` and
`ImplementsSlidingWindow`. The invariant is `TypeOK` and `RingShape` (until the
buffer is full, `index = count`). `StorePushes` is the core: storing at `index` and
moving on pushes one sample on the sequence read from the oldest slot, in each
of the cases of a full, a filling and a just filled buffer. The step lemma then
gives the refinement, and with the clock the order of the times. `ShownIsFresh`
needs `CurrentIsRecent`: the sample kept is older than `last_update` by no more than
the time the first one took to collect.

**`PluginsProofs`**: `TypeOK`, `CountsMatch`, `HandlesMatch`, `CleanedOnlyIfDoubled`
and `OffMeansOff`. `IInv` adds that a node is known by its place (else a toggle
could merge two nodes and the counts would be off), that the list is finite, and
that an object with more than one reference was opened twice (else unloading one
of two nodes could leave a cleaned object that no history explains). Cardinality
facts come from the library's theorems on finite sets. Nodes that a cleanup has given
up keep their place and their reference (`All`, `Users`).

**`SettingsProofs`**: `TypeOK`, `SavedTakesEffect` and the step property
`SaveKeepsTheOthers`. `SInv` adds that every value entered is shown by an item of its
field (`EditedShown`), and that the items are those of the file as it was last read
or written but for what was entered (`FromRead`). Most of the proof is about the two
readers and the writer, for files of any length. `SectionWritten`: above each item
written there is a header, and the last one names its section. `ReadBack`: what
`config_manager_save` writes, `config_manager_load` reads back, item by item.
`ParsedByItems`: on a file without loose headers the parser's value of a field is
that of the last item of the field, and a field with one line has one item.
`SavedTakesEffect` follows from these two, `SaveKeepsTheOthers` from the last applied
to the file before and after.

**`FileManagerProofs`**: `MoveLosesNothing`, and that the files are a tree. The first is
not inductive: that the delete at the end of a move loses nothing needs to know where
the data is. `FmInv` says it for each stage: while `cp` runs each file carried is at
the source and, unless something failed, at its place in the target or beneath
something still to do (`ToDo`); during the delete it is in its place in the target,
outside of the source. The first needs that what lies beneath a directory is listed
when `cp` comes to it (`NextBelow`), the second is what a successful `cp` with an
empty `todo` leaves. `CopyOfPath` is the fact on paths: what `cp -r` makes of a path
lies beneath the target and comes from that path alone. There is a lemma per action
(`CopyFileKeeps`, `CopyDirectoryKeeps`, `BeginKeeps`, `RemoveKeeps`, ...), and
`UntouchedKeeps` for other programs. `Tree` says that everything stands in a
directory; `WrittenIsTree`, `RenameIsTree` and `ForeignIsTree` keep it, with
`NothingBelow` (nothing lies beneath a path where no directory is), which takes the
shortest path that would contradict it.

**`DialogsProofs`**: `PositionMatchesEntry`, `AdaptedDialogFits`, `TableOwnsItsBlock`,
`ChosenThemeApplied`, `ImplementsWindow` and `TypeOK`, each as an invariant of the
session: `OnePartMoves` reduces a step of the session to a step of the part.
`TableOwnsItsBlock` is inductive as it stands. `LvInv` adds that the viewer holds no
`FILE`; if it did, the append of a refresh would break the total. `LoInv` says that a
layout's dialog is what the stored size computes to. `ThInv` says that the list holds
each name once unless names clash; that a name then has a first place, which
`theme_manager_apply_theme` finds, is `FirstPlace`. `FbInv` says that the links of the
feedback list are one path through all its nodes, none twice, with `message_count` of
them; `PathLonger` and `PathShorter` are the new head and the walk to the last node.
The path is unique (`OneListing`), so the sequence it spells is the listing, and
adding is a push on the sliding window. `TypeOK` collects the invariants of the parts.

Where a proof by hand would use induction (a first or last place, the n-th of some
places, a path to its root, the counting of lines), these proofs take the smallest
counterexample (`LeastOf`, `FirstPlace`), since the library has the well-foundedness of
the numbers as a fact, while its induction theorems have an operator as a
parameter, which the installed provers cannot instantiate. For that reason no
definition of the models is recursive: the places of a list, its listing and the files
written are given by the property they have.

Only model-checked: all liveness (`HandlerEnds`, `HandlerLeaves`, `CleanupLeaves`,
`CallEnds`, `WaitReturns`, `TimedOutChildDies`; fairness and `ENABLED` are beyond the
prover), and the findings, which are counterexamples.

## 6. What is not modelled

`PROJECT.json` lists every component with its state. Left out for good: the
assembly routines (replacements of libc functions the C code does not call), the
shell scripts and the progress bar (no state that matters), `ncurses` and the
layout of dialogs, the text of messages, keyboard and completion. Of
`file_ops.c` only `mkdir_p` is called, as a step of the install; the rest has no caller.
Calls the repository declares but does not define (`install_kernel_cli`, `apply_rolling_updates`, saving the plugin
configuration) have no code to translate. Inside the modelled components: the
contents of log lines and of samples beyond what order and identity need, memory
allocation failures that only end a call early, the averages of the monitor
(floating point, and no caller says which samples are meant), its search by time, which
has no caller, and what a plugin
does when called; the listing of the file manager and its filter, which no
operation depends on; colours of themes, margins and menu options of layouts,
suggestions and progress of the feedback system; pattern and source filters of
the log viewer, whose values nothing reads. `layout_manager_load_layouts`,
`log_viewer_search_next` and the functions that create, import and export themes are
declared or called but not defined.
