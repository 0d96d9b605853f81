------------------------------ MODULE Plugins ------------------------------
(***************************************************************************)
(* tui/plugin_system.c and the plugin manager dialogs: the linked list of  *)
(* loaded plugins with its two counters, the shared objects behind it as   *)
(* the dynamic linker counts them, and the plugin directory, which other   *)
(* programs change too.                                                    *)
(*                                                                         *)
(* The list is the set of its nodes; new nodes go to the front, so `load'  *)
(* tells a node's place and the first node of a name is the newest one.    *)
(* dlopen knows a mapped object by the paths it was opened under, whatever *)
(* is there by now, and then by the inode of its file: opening it again    *)
(* only counts a reference. An object whose file is written over while     *)
(* mapped behaves in any way when called: it may crash or answer with any  *)
(* name.                                                                   *)
(* Every plugin is taken to export plugin_cleanup. Handlers only exit.     *)
(***************************************************************************)
EXTENDS Integers, FiniteSets

CONSTANTS
    Files,      \* names of .so files in the plugin directory
    Inodes,     \* inodes of those files
    Libs,       \* contents a plugin file may have
    Names,      \* what plugin_get_name may return
    NameOf,     \* what it returns, by content
    Broken,     \* contents that are no plugin
    MenuItems,  \* entries of the manager's menu (10 in the code)
    MaxLoads,   \* bound: nodes created in one run of the program
    NONE

ASSUME PluginAssumption ==
    /\ NameOf \in [Libs -> Names] /\ Broken \notin Libs
    /\ NONE \notin Inodes /\ NONE \notin Files
    /\ MenuItems \in Nat /\ MaxLoads \in Nat

VARIABLES
    opened,         \* the dialog's static flag `initialized'
    plugins,        \* the nodes of ps.plugins
    plugin_count, enabled_count,
    dir,            \* the inode of each file of the directory, or NONE
    content,        \* what is in each inode
    refs,           \* dlopen references to each object
    known,          \* the mapped object that each path was opened as, or NONE
    cleaned,        \* mapped objects whose plugin_cleanup has run
    written,        \* mapped objects whose file was written over
    doubled,        \* history: mapped objects that more than one node opened
    abandoned,      \* history: nodes given up by plugin_system_cleanup, never unloaded
    off,            \* history: names turned off, and not turned on, loaded or unloaded since
    pc,             \* "menu", "scan", "load" (of an installed file), "unlink", "crashed"
    file,           \* the file to be loaded or unlinked
    pending,        \* files readdir has still to return
    loads           \* history: nodes created so far

listVars == <<plugins, plugin_count, enabled_count>>
objVars  == <<refs, known, cleaned, written, doubled, abandoned>>
diskVars == <<dir, content>>
ctlVars  == <<opened, pc, file, pending>>
vars     == <<listVars, objVars, diskVars, ctlVars, off, loads>>

Nodes == [load : 1 .. MaxLoads, name : Names, file : Files, inode : Inodes, enabled : BOOLEAN]

(* plugin_system_get_plugin: the first node of that name, if there is one. *)
Named(n) == {p \in plugins : p.name = n}
First(n) == {p \in Named(n) : \A q \in Named(n) : q.load <= p.load}

Empty ==
    /\ plugins = {} /\ plugin_count = 0 /\ enabled_count = 0
    /\ refs = [i \in Inodes |-> 0] /\ known = [f \in Files |-> NONE]
    /\ cleaned = {} /\ written = {} /\ doubled = {} /\ abandoned = {} /\ off = {}

Init ==
    /\ Empty /\ opened = FALSE /\ loads = 0
    /\ pc = "menu" /\ file = NONE /\ pending = {}
    /\ dir = [f \in Files |-> NONE] /\ content = [i \in Inodes |-> Broken]

-----------------------------------------------------------------------------
(* A call into an object. *)
MayCrash(i) ==
    /\ i \in written /\ pc' = "crashed"
    /\ UNCHANGED <<listVars, objVars, diskVars, opened, file, pending, off, loads>>

(* plugin_system_load_plugin: a new node in front, enabled.                *)
Listed(f, i, name) ==
    /\ loads < MaxLoads /\ loads' = loads + 1
    /\ plugins' = plugins \union
          {[load |-> loads + 1, name |-> name, file |-> f, inode |-> i, enabled |-> TRUE]}
    /\ plugin_count' = plugin_count + 1 /\ enabled_count' = enabled_count + 1
    /\ refs' = [refs EXCEPT ![i] = @ + 1] /\ known' = [known EXCEPT ![f] = i]
    /\ doubled' = IF refs[i] > 0 THEN doubled \union {i} ELSE doubled
    /\ off' = off \ {name}
    /\ UNCHANGED <<cleaned, written, abandoned>>

(* The object that dlopen finds under a path. *)
Object(f) == IF known[f] # NONE THEN known[f] ELSE dir[f]

(* It fails without a plugin in the file, or without memory, and closes    *)
(* what it opened; a mapped object keeps the path it was opened under.     *)
LoadFile(f) ==
    LET i == Object(f)
    IN  \/ /\ i \in Inodes
           /\ \/ content[i] \in Libs /\ i \notin written /\ Listed(f, i, NameOf[content[i]])
              \/ i \in written /\ \E name \in Names : Listed(f, i, name)
        \/ /\ \/ UNCHANGED known
              \/ i \in Inodes /\ refs[i] > 0 /\ known' = [known EXCEPT ![f] = i]
           /\ UNCHANGED <<listVars, refs, cleaned, written, doubled, abandoned, off, loads>>

(* plugin_cleanup has run in some objects and references were given back:  *)
(* what has none left is unmapped and forgotten.                           *)
Closed(cleanedUp, references) ==
    LET gone == {i \in Inodes : references[i] = 0}
    IN  /\ refs' = references
        /\ known' = [f \in Files |-> IF known[f] \in gone THEN NONE ELSE known[f]]
        /\ cleaned' = (cleaned \union cleanedUp) \ gone
        /\ written' = written \ gone /\ doubled' = doubled \ gone

(* plugin_system_unload_plugin, for the first node q of its name:          *)
(* plugin_cleanup runs, the reference is given back, the node is freed.    *)
UnlistedBy(q, references, disabled) ==
    /\ plugins' = plugins \ {q}
    /\ plugin_count' = plugin_count - 1
    /\ enabled_count' = enabled_count - disabled
    /\ Closed({q.inode}, [refs EXCEPT ![q.inode] = references])
    /\ off' = off \ {q.name}
    /\ UNCHANGED abandoned

UnlistedClosingAll(q) == UnlistedBy(q, 0, IF q.enabled THEN 1 ELSE 0)
UnlistedCountingAny(q) == UnlistedBy(q, refs[q.inode] - 1, 1)
Unlisted(q) == UnlistedBy(q, refs[q.inode] - 1, IF q.enabled THEN 1 ELSE 0)

-----------------------------------------------------------------------------
Menu == pc = "menu" /\ opened

(* Opening the manager for the first time; when the directory cannot be    *)
(* made or read, nothing changes.                                          *)
Open ==
    /\ pc = "menu" /\ ~opened /\ opened' = TRUE
    /\ pc' = "scan" /\ pending' = Files
    /\ UNCHANGED <<listVars, objVars, diskVars, file, off, loads>>

(* plugin_system_scan_plugins loads every plugin of the directory, those   *)
(* in the list once more. Validation opens and closes the object; what it  *)
(* checks load_plugin checks again.                                        *)
Scan ==
    /\ Menu /\ pc' = "scan" /\ pending' = Files
    /\ UNCHANGED <<listVars, objVars, diskVars, opened, file, off, loads>>

ScanFile ==
    /\ pc = "scan"
    /\ \E f \in pending :
          \/ /\ IF dir[f] = NONE THEN UNCHANGED <<listVars, objVars, off, loads>> ELSE LoadFile(f)
             /\ pending' = pending \ {f} /\ UNCHANGED <<diskVars, opened, pc, file>>
          \/ MayCrash(Object(f))

ScanEnd ==
    /\ pc = "scan" /\ pending = {} /\ pc' = "menu"
    /\ UNCHANGED <<listVars, objVars, diskVars, opened, file, pending, off, loads>>

(* plugin_system_install_plugin: cp writes into the file that is there, or *)
(* into a new one; it may fail at once or halfway.                         *)
Unused(i) == refs[i] = 0 /\ \A f \in Files : dir[f] # i

Copy(f, bytes) ==
    /\ \E i \in Inodes :
          /\ IF dir[f] = NONE THEN Unused(i) ELSE i = dir[f]
          /\ dir' = [dir EXCEPT ![f] = i] /\ content' = [content EXCEPT ![i] = bytes]
          /\ written' = IF refs[i] > 0 THEN written \union {i} ELSE written
    /\ UNCHANGED <<listVars, refs, known, cleaned, doubled, abandoned, opened, pending, off, loads>>

InstallCopies(f, lib) == Menu /\ Copy(f, lib) /\ pc' = "load" /\ file' = f
InstallFails(f) == Menu /\ Copy(f, Broken) /\ UNCHANGED <<pc, file>>

InstallLoads ==
    /\ pc = "load"
    /\ \/ LoadFile(file) /\ pc' = "menu" /\ UNCHANGED <<diskVars, opened, file, pending>>
       \/ MayCrash(Object(file))

(* The dialog of one node p of the menu: "enable" or "disable", as p's own *)
(* state says, acts on the first node q of its name.                       *)
InMenu(p) == Cardinality({q \in plugins : q.load >= p.load}) <= MenuItems

ToggleOn(p, q, counted) ==
    /\ Menu
    /\ plugins' = (plugins \ {q}) \union {[q EXCEPT !.enabled = ~p.enabled]}
    /\ enabled_count' = IF ~counted THEN enabled_count
                        ELSE IF p.enabled THEN enabled_count - 1 ELSE enabled_count + 1
    /\ off' = IF p.enabled THEN off \union {p.name} ELSE off \ {p.name}
    /\ UNCHANGED <<plugin_count, refs, known, written, doubled, abandoned, diskVars, ctlVars, loads>>

ToggleItself(p) == ToggleOn(p, p, TRUE) /\ UNCHANGED cleaned
ToggleUnguarded(p) == \E q \in First(p.name) : ToggleOn(p, q, TRUE) /\ UNCHANGED cleaned
ToggleCleaning(p) ==
    \E q \in First(p.name) :
       /\ ToggleOn(p, q, p.enabled = q.enabled)
       /\ cleaned' = IF p.enabled THEN cleaned \union {q.inode} ELSE cleaned
Toggle(p) ==
    \E q \in First(p.name) : ToggleOn(p, q, p.enabled = q.enabled) /\ UNCHANGED cleaned

(* plugin_system_remove_plugin: unload, then unlink the path read from the *)
(* freed node, which may hold anything by then.                            *)
Remove(p) ==
    /\ Menu
    /\ \E q \in First(p.name) :
          \/ /\ Unlisted(q)
             /\ pc' = "unlink" /\ file' = q.file
             /\ UNCHANGED <<diskVars, opened, pending, loads>>
          \/ MayCrash(q.inode)

Unlink ==
    /\ pc = "unlink" /\ pc' = "menu"
    /\ \/ dir' = [dir EXCEPT ![file] = NONE]
       \/ UNCHANGED dir
    /\ UNCHANGED <<content, listVars, objVars, opened, file, pending, off, loads>>

(* plugin_system_execute_plugin: only the first node of the name counts.   *)
Execute(n) ==
    /\ Menu
    /\ \E q \in First(n) : q.enabled /\ (UNCHANGED vars \/ MayCrash(q.inode))

(* plugin_system_cleanup unloads node after node from the front, reading   *)
(* the next one from the freed one: that may crash, or end the loop early  *)
(* with the later nodes never unloaded. The list is given up in any case;  *)
(* the dialog's flag stays set.                                            *)
CleanedUpBy(unloaded, left, count) ==
    /\ plugins' = {} /\ plugin_count' = count /\ enabled_count' = 0 /\ off' = {}
    /\ Closed({p.inode : p \in unloaded},
              [i \in Inodes |-> refs[i] - Cardinality({p \in unloaded : p.inode = i})])
    /\ abandoned' = abandoned \union left

CleanedUpCounting(unloaded) ==
    CleanedUpBy(unloaded, plugins \ unloaded, plugin_count - Cardinality(unloaded))
CleanedUp(unloaded) == CleanedUpBy(unloaded, plugins \ unloaded, 0)

Cleanup ==
    /\ Menu
    /\ \/ \E unloaded \in SUBSET plugins :
             /\ unloaded = {} => plugins = {}
             /\ \A p \in unloaded, q \in plugins \ unloaded : q.load < p.load
             /\ CleanedUp(unloaded)
             /\ UNCHANGED <<diskVars, ctlVars, loads>>
       \/ /\ plugins # {} /\ pc' = "crashed"
          /\ UNCHANGED <<listVars, objVars, diskVars, opened, file, pending, off, loads>>

(* Other programs delete files, and put new ones in place by a rename.     *)
Delete(f) ==
    /\ dir[f] # NONE /\ dir' = [dir EXCEPT ![f] = NONE]
    /\ UNCHANGED <<content, listVars, objVars, ctlVars, off, loads>>

Put(f, bytes) ==
    /\ \E i \in Inodes :
          /\ Unused(i)
          /\ dir' = [dir EXCEPT ![f] = i] /\ content' = [content EXCEPT ![i] = bytes]
    /\ UNCHANGED <<listVars, objVars, ctlVars, off, loads>>

(* The program ends, in any way, and is started again. *)
Restart ==
    /\ plugins' = {} /\ plugin_count' = 0 /\ enabled_count' = 0
    /\ refs' = [i \in Inodes |-> 0] /\ known' = [f \in Files |-> NONE]
    /\ cleaned' = {} /\ written' = {} /\ doubled' = {} /\ abandoned' = {} /\ off' = {}
    /\ opened' = FALSE /\ loads' = 0
    /\ pc' = "menu" /\ file' = NONE /\ pending' = {}
    /\ UNCHANGED diskVars

Next ==
    \/ Open \/ Scan \/ ScanFile \/ ScanEnd \/ InstallLoads \/ Unlink \/ Cleanup \/ Restart
    \/ \E f \in Files : \/ InstallFails(f) \/ Delete(f)
                        \/ \E lib \in Libs : InstallCopies(f, lib)
                        \/ \E bytes \in Libs \union {Broken} : Put(f, bytes)
    \/ \E p \in plugins : InMenu(p) /\ (Toggle(p) \/ Remove(p))
    \/ \E n \in Names : Execute(n)

Spec == Init /\ [][Next]_vars

-----------------------------------------------------------------------------
(* A type invariant. *)
TypeOK ==
    /\ opened \in BOOLEAN
    /\ plugins \subseteq Nodes
    /\ plugin_count \in 0 .. MaxLoads /\ enabled_count \in 0 .. MaxLoads
    /\ dir \in [Files -> Inodes \union {NONE}]
    /\ content \in [Inodes -> Libs \union {Broken}]
    /\ refs \in [Inodes -> 0 .. MaxLoads] /\ known \in [Files -> Inodes \union {NONE}]
    /\ cleaned \subseteq Inodes /\ written \subseteq Inodes /\ doubled \subseteq Inodes
    /\ abandoned \subseteq Nodes /\ off \subseteq Names
    /\ pc \in {"menu", "scan", "load", "unlink", "crashed"}
    /\ file \in Files \union {NONE} /\ pending \subseteq Files
    /\ pc \in {"load", "unlink"} => file \in Files
    /\ loads \in 0 .. MaxLoads

(* The two counters the dialog shows are those of the list, through        *)
(* duplicates, a toggle that hits another node than the chosen one, the    *)
(* unloading of disabled nodes and a cleanup that ends early.              *)
CountsMatch ==
    /\ plugin_count = Cardinality(plugins)
    /\ enabled_count = Cardinality({p \in plugins : p.enabled})

(* No object is unmapped under a node that still points at it, and none    *)
(* stays mapped that no node points at, but for the nodes a cleanup that   *)
(* ended early gave up: dlopen and dlclose balance.                        *)
HandlesMatch ==
    \A i \in Inodes : refs[i] = Cardinality({p \in plugins \union abandoned : p.inode = i})

(* A node whose plugin_cleanup has already run stays in the list only when *)
(* a scan or an install had opened its object a second time, be it for a   *)
(* node that a cleanup has given up since.                                 *)
CleanedOnlyIfDoubled ==
    \A p \in plugins : p.inode \in cleaned => p.inode \in doubled

(* A plugin that was turned off cannot be executed by its name until it is *)
(* turned on, loaded again, or one of its nodes removed.                   *)
OffMeansOff ==
    \A n \in off : \A p \in First(n) : ~p.enabled
=============================================================================
