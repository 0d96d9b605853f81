----------------------------- MODULE FileManager -----------------------------
(***************************************************************************)
(* tui/file_manager.c and its dialogs, as far as they change the file      *)
(* system: copy, move, delete, rename and new directory, among other       *)
(* programs that write, rename and delete files at the same time.          *)
(*                                                                         *)
(* The work is done by cp -r and rm -rf, one file or directory at a time;  *)
(* they may fail at any of them, be killed, or find the disk full. A move  *)
(* is a copy followed by a delete. cp lists a directory at once. Files are *)
(* told apart by their data. The listing, its filter and the current       *)
(* directory are left out: what the dialogs act on is any path the user    *)
(* can name or have gone to, one that has vanished since included.         *)
(***************************************************************************)
EXTENDS Integers, Sequences, FiniteSets, SequencesExt

CONSTANTS
    Names,          \* names of files
    CURRENT_FILE,   \* the name "current_file", the only one that is renamed
    Data,           \* contents of files
    Paths,          \* bound: the paths there may be, as sequences of names
    Capacity,       \* bound: the files and directories the disk holds
    TORN,           \* the content of a file whose writing was cut
    DIR, ABSENT

ASSUME FileManagerAssumption ==
    /\ CURRENT_FILE \in Names /\ Paths \subseteq Seq(Names) /\ <<>> \in Paths
    /\ \A p \in Paths : p # <<>> => Front(p) \in Paths
    /\ Data \intersect {TORN, DIR, ABSENT} = {} /\ TORN \notin {DIR, ABSENT} /\ DIR # ABSENT
    /\ Capacity \in Nat

Root == <<>>
Beneath(p) == {q \in Paths : IsPrefix(p, q)}
Parent(p) == Front(p)

VARIABLES
    fs,             \* what is at each path
    fm_job,         \* the operation under way: "none", "copy", "move", "delete"
    fm_source,
    fm_target,      \* where cp puts the source
    todo,           \* paths in the source that cp has listed and not done
    failed,         \* cp could not do all of it
    carried         \* history: path and data of the files a move has to keep

fmJobVars == <<fm_job, fm_source, fm_target, todo, failed, carried>>
fmVars    == <<fs, fmJobVars>>

FmInit ==
    /\ fs = [p \in Paths |-> IF p = Root THEN DIR ELSE ABSENT]
    /\ fm_job = "none" /\ fm_source = Root /\ fm_target = Root
    /\ todo = {} /\ failed = FALSE /\ carried = {}

-----------------------------------------------------------------------------
(* The file system's part: what may be made or written at a path.          *)
CanStand(p) ==
    /\ p \in Paths \ {Root} /\ fs[Parent(p)] = DIR
    /\ fs[p] = ABSENT => Cardinality({q \in Paths \ {Root} : fs[q] # ABSENT}) < Capacity

Below(f, p) == {q \in Paths \ {Root} : Parent(q) = p /\ f[q] # ABSENT}
Without(places) == [p \in Paths |-> IF p \in places THEN ABSENT ELSE fs[p]]

(* The path that has the place beneath t which p has beneath s. *)
From(t, s, p) == t \o SubSeq(p, Len(s) + 1, Len(p))
To(p) == From(fm_target, fm_source, p)

(* rename(2): over a file, or over an empty directory when it is one. *)
CanRename(old, new) ==
    /\ {old, new} \subseteq Paths \ {Root} /\ ~IsPrefix(old, new)
    /\ fs[old] # ABSENT /\ fs[Parent(new)] = DIR
    /\ fs[new] # ABSENT => (fs[new] = DIR) = (fs[old] = DIR) /\ Below(fs, new) = {}
    /\ \A p \in Beneath(old) : fs[p] # ABSENT => From(new, old, p) \in Paths

Renamed(old, new) ==
    [p \in Paths |->
        IF p \in Beneath(old) THEN ABSENT
        ELSE IF p \in Beneath(new) /\ From(old, new, p) \in Paths
             THEN fs[From(old, new, p)] ELSE fs[p]]

-----------------------------------------------------------------------------
(* The dialogs of copy and move, once both paths were entered. cp -r s d   *)
(* goes into d when that is a directory.                                   *)
FmBegin(job, s, d) ==
    /\ fm_job = "none" /\ s # Root
    /\ fm_job' = job /\ fm_source' = s
    /\ fm_target' = IF fs[d] = DIR THEN Append(d, Last(s)) ELSE d
    /\ todo' = {s} /\ failed' = FALSE
    /\ carried' = IF job # "move" THEN {}
                  ELSE {<<p, fs[p]>> : p \in {q \in Beneath(s) : fs[q] \in Data}}
    /\ UNCHANGED fs

Copying == fm_job \in {"copy", "move"}

(* cp writes a file, in full or cut short. *)
CopyFile(p) ==
    /\ Copying /\ p \in todo /\ fs[p] \in Data \union {TORN}
    /\ fm_target # fm_source /\ CanStand(To(p)) /\ fs[To(p)] # DIR
    /\ todo' = todo \ {p}
    /\ \/ fs' = [fs EXCEPT ![To(p)] = fs[p]] /\ failed' = failed
       \/ fs' = [fs EXCEPT ![To(p)] = TORN] /\ failed' = TRUE
    /\ carried' = {c \in carried : c[1] # To(p)}
    /\ UNCHANGED <<fm_job, fm_source, fm_target>>

(* cp makes a directory, unless it is there, and lists the original. *)
CopyDirectory(p) ==
    /\ Copying /\ p \in todo /\ fs[p] = DIR
    /\ fm_target # fm_source /\ CanStand(To(p)) /\ fs[To(p)] \in {DIR, ABSENT}
    /\ fs' = [fs EXCEPT ![To(p)] = DIR]
    /\ todo' = (todo \ {p}) \union Below(fs', p)
    /\ UNCHANGED <<fm_job, fm_source, fm_target, failed, carried>>

(* cp cannot do one of them: it has vanished, the target is in the way or  *)
(* the same file, it is the directory cp itself has made, or for any other *)
(* reason.                                                                 *)
CopyFails(p) ==
    /\ Copying /\ p \in todo
    /\ todo' = todo \ {p} /\ failed' = TRUE
    /\ UNCHANGED <<fs, fm_job, fm_source, fm_target, carried>>

(* The operation is over. *)
Over == /\ fm_job' = "none" /\ fm_source' = Root /\ fm_target' = Root
        /\ todo' = {} /\ failed' = FALSE /\ carried' = {}

(* file_manager_copy: cp ends with 0, which it does not when a directory   *)
(* was to go into itself. Only then is a move's source deleted.            *)
GoOn ==
    IF fm_job = "copy" THEN Over
    ELSE /\ fm_job' = "delete"
         /\ carried' = {c \in carried : To(c[1]) \notin Beneath(fm_source)}
         /\ UNCHANGED <<fm_source, fm_target, todo, failed>>

FmCopyEndsUnchecked == Copying /\ todo = {} /\ GoOn /\ UNCHANGED fs

FmCopyEnds ==
    /\ Copying /\ todo = {} /\ ~failed /\ ~IsPrefix(fm_source, fm_target)
    /\ GoOn /\ UNCHANGED fs

(* cp ends with another status, or is killed. *)
FmCopyFailed == Copying /\ Over /\ UNCHANGED fs

(* rm -rf takes what is below before what is above. *)
RemoveOne(p) ==
    /\ fm_job = "delete" /\ p \in Beneath(fm_source)
    /\ fs[p] # ABSENT /\ Below(fs, p) = {}
    /\ fs' = Without({p}) /\ UNCHANGED fmJobVars

(* file_manager_delete: rm may have failed, but its result is dropped and  *)
(* the user is told the move succeeded.                                    *)
FmDeleteEnds == fm_job = "delete" /\ Over /\ UNCHANGED fs

(* "Delete" in the menu is rm -rf of the current directory; "/" it refuses. *)
FmDeleteCurrent(p) ==
    /\ fm_job = "none" /\ p # Root
    /\ fm_job' = "delete" /\ fm_source' = p
    /\ UNCHANGED <<fs, fm_target, todo, failed, carried>>

FmMkdir(p) ==
    /\ fm_job = "none" /\ CanStand(p) /\ fs[p] = ABSENT
    /\ fs' = [fs EXCEPT ![p] = DIR]
    /\ UNCHANGED fmJobVars

(* "Rename" acts on "current_file" in the current directory. *)
FmRename(directory, name) ==
    LET old == Append(directory, CURRENT_FILE)  new == Append(directory, name)
    IN  /\ fm_job = "none" /\ CanRename(old, new)
        /\ fs' = Renamed(old, new) /\ UNCHANGED fmJobVars

-----------------------------------------------------------------------------
(* Another program writes a file, makes a directory, or removes either of  *)
(* them; or it renames one. What it touches, at the source or at the       *)
(* target, is no longer the move's to keep.                                *)
Untouched(places) == {c \in carried : c[1] \notin places /\ To(c[1]) \notin places}

FmForeign(p, what) ==
    /\ p # Root /\ fs[p] # what
    /\ what # ABSENT => CanStand(p) /\ fs[p] # DIR /\ (what = DIR => fs[p] = ABSENT)
    /\ fs' = [Without(Beneath(p)) EXCEPT ![p] = what]
    /\ carried' = Untouched(Beneath(p))
    /\ UNCHANGED <<fm_job, fm_source, fm_target, todo, failed>>

FmForeignRename(old, new) ==
    /\ CanRename(old, new) /\ fs' = Renamed(old, new)
    /\ carried' = Untouched(Beneath(old) \union Beneath(new))
    /\ UNCHANGED <<fm_job, fm_source, fm_target, todo, failed>>

(* The program ends during a move: the cp it leaves behind, if it goes on, *)
(* is a copy. An rm left behind goes on as it would have done.             *)
FmEnds ==
    /\ fm_job = "move" /\ fm_job' = "copy"
    /\ UNCHANGED <<fs, fm_source, fm_target, todo, failed, carried>>

FmNext ==
    \/ \E job \in {"copy", "move"}, s \in Paths, d \in Paths : FmBegin(job, s, d)
    \/ \E p \in todo : CopyFile(p) \/ CopyDirectory(p) \/ CopyFails(p)
    \/ FmCopyEnds \/ FmCopyFailed \/ FmDeleteEnds \/ FmEnds
    \/ \E p \in Paths : RemoveOne(p) \/ FmDeleteCurrent(p) \/ FmMkdir(p)
    \/ \E p \in Paths, name \in Names : FmRename(p, name)
    \/ \E p \in Paths, what \in Data \union {DIR, ABSENT} : FmForeign(p, what)
    \/ \E old \in Paths, new \in Paths : FmForeignRename(old, new)

-----------------------------------------------------------------------------
FmTypeOK ==
    /\ fs \in [Paths -> Data \union {TORN, DIR, ABSENT}]
    /\ \A p \in Paths : fs[p] # ABSENT => p = Root \/ fs[Parent(p)] = DIR
    /\ fs[Root] = DIR
    /\ fm_job \in {"none", "copy", "move", "delete"}
    /\ fm_source \in Paths /\ fm_target \in Seq(Names) /\ failed \in BOOLEAN
    /\ todo \subseteq Beneath(fm_source)
    /\ carried \subseteq Beneath(fm_source) \X Data

(* A move loses no file: what was in the source when it began is in its    *)
(* place at the source or at the target, all along and in the end, whether *)
(* cp and rm succeed, fail at any file, are killed or never run. Three     *)
(* exceptions. What another program has written, renamed or removed on     *)
(* either side since: it may have moved a file from a directory cp has not *)
(* listed to one it has, and then rm takes the file. What cp itself writes *)
(* over, when source and target lie in one another: "a/" moved to "a", the *)
(* defaults of the dialog, writes a/b over a/a/b before cp fails. And what *)
(* a move upwards copies to a place in its own source, which rm then takes *)
(* with it: "n/n" moved to "." with a directory n/n/n.                     *)
MoveLosesNothing ==
    \A c \in carried : \/ fs[c[1]] = c[2]
                       \/ To(c[1]) \in Paths /\ fs[To(c[1])] = c[2]
=============================================================================
