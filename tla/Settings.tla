------------------------------ MODULE Settings ------------------------------
(***************************************************************************)
(* utils/config_parser.c, tui/config_manager.c and its dialogs: the        *)
(* configuration file, which is parsed into g_config when the program      *)
(* starts, and edited as a list of items while it runs.                    *)
(*                                                                         *)
(* A file is a sequence of lines: headers, and items "key = value".        *)
(* Comments, blank lines and malformed ones, which both readers skip, are  *)
(* left out. A header is loose when blanks stand before or behind it: the  *)
(* parser trims its lines, the manager only knows one that fills the line. *)
(* A value is what the manager keeps of it, 255 characters at most. The    *)
(* parser keeps less, by its line of 256 and the arrays of the structure;  *)
(* what it takes for a line of its own, the rest of a longer one, is taken *)
(* to be no header and no item it knows. Writing may be cut anywhere, also *)
(* within a value, by a kill or a full disk. No other program writes the   *)
(* file between its opening and its closing.                               *)
(***************************************************************************)
EXTENDS Integers, Sequences, FiniteSets, SequencesExt

CONSTANTS
    Fields,         \* <<section, key>> of the values set_config_value knows
    Numbers,        \* those read with atoi
    Atoi,           \* the number a value is read as, written as a value
    Kept,           \* the text the parser keeps of a value, by field
    Fragments,       \* what a cut within a value leaves of it
    Values,         \* values in files
    Defaults,       \* set_default_config
    Files,          \* contents other programs give the file
    OtherFiles,     \* what may be found at the other three paths
    Inputs,         \* values a user enters
    NoFile, NONE

Zero(f) == IF f \in Numbers THEN "0" ELSE ""

Sections == {f[1] : f \in Fields}
Keys     == {f[2] : f \in Fields}

Lines ==
    [kind : {"header", "loose"}, section : Sections, key : {NONE}, value : {NONE}]
    \union [kind : {"item"}, section : {NONE}, key : Keys, value : Values]

ASSUME SettingsAssumption ==
    /\ IsFiniteSet(Fields) /\ \A f \in Fields : f = <<f[1], f[2]>>
    /\ Numbers \subseteq Fields /\ Atoi \in [Values -> Values]
    /\ Kept \in [Fields -> [Values -> Values]]
    /\ Fragments \in [Values -> SUBSET Values]
    /\ Inputs \subseteq Values /\ {"0", ""} \subseteq Values
    /\ Defaults \in [Fields -> Values]
    /\ Files \union OtherFiles \subseteq Seq(Lines)
    /\ NONE \notin Values \union Sections \union Keys

VARIABLES
    running,        \* the program runs
    file,           \* the lines of /etc/swikernel/swikernel.conf, or NoFile
    config,         \* g_config
    opened,         \* the dialog's static flag `initialized'
    items,          \* cm.items
    modified,       \* cm.modified
    saving,         \* between fopen and fclose of config_manager_save
    read,           \* history: the file as the manager last read or wrote it
    was,            \* history: the file before the writing that is going on
    edited,         \* history: values entered since, by field
    promise,        \* history: values entered and saved
    torn            \* history: the last writing was cut

managerVars == <<opened, items, modified, saving, read, edited>>
histVars    == <<was, promise, torn>>
vars        == <<running, file, config, managerVars, histVars>>

-----------------------------------------------------------------------------
(* The two readers. *)
Header(s) == [kind |-> "header", section |-> s, key |-> NONE, value |-> NONE]
Item(k, v) == [kind |-> "item", section |-> NONE, key |-> k, value |-> v]

SectionAt(lines, i, kinds) ==
    LET heads == {j \in 1 .. i : lines[j].kind \in kinds}
    IN  IF heads = {} THEN NONE ELSE lines[Max(heads)].section

Of(lines, f) ==
    {i \in DOMAIN lines : /\ lines[i].kind = "item" /\ lines[i].key = f[2]
                          /\ SectionAt(lines, i, {"header", "loose"}) = f[1]}

Reading(f, v) == IF f \in Numbers THEN Atoi[v] ELSE Kept[f][v]

(* load_config with set_config_value: g_config starts as zeros, and the    *)
(* last line of a field counts.                                            *)
Parsed(lines) ==
    [f \in Fields |-> IF Of(lines, f) = {} THEN Zero(f)
                      ELSE Reading(f, lines[Max(Of(lines, f))].value)]

Upto(places, i) == Cardinality(places \intersect 1 .. i)
Nth(places, n)  == CHOOSE i \in places : Upto(places, i) = n

(* config_manager_load: the items under a header, in their order. *)
Listed(lines) ==
    {i \in DOMAIN lines : lines[i].key # NONE /\ SectionAt(lines, i, {"header"}) # NONE}

Items(lines) ==
    [n \in 1 .. Cardinality(Listed(lines)) |->
        LET i == Nth(Listed(lines), n)
        IN  [section |-> SectionAt(lines, i, {"header"}),
             key |-> lines[i].key, value |-> lines[i].value]]

(* config_manager_save: a header whenever the section changes. Ends(heads, *)
(* i) is the line of item i when the items at `heads' have one before them. *)
Ends(heads, i) == i + Upto(heads, i)

WrittenWith(list, heads) ==
    [k \in 1 .. Ends(heads, Len(list)) |->
        LET i == CHOOSE i \in DOMAIN list : k \in Ends(heads, i - 1) + 1 .. Ends(heads, i)
        IN  IF k = Ends(heads, i) THEN Item(list[i].key, list[i].value)
            ELSE Header(list[i].section)]

WrittenOnce(list) ==
    WrittenWith(list, {i \in DOMAIN list : \A j \in 1 .. i - 1 : list[j].section # list[i].section})
Written(list) ==
    WrittenWith(list, {i \in DOMAIN list : i = 1 \/ list[i - 1].section # list[i].section})

(* A header or a key that is cut is a malformed line. *)
CutIn(lines, n) ==
    {[SubSeq(lines, 1, n) EXCEPT ![n].value = v] : v \in Fragments[lines[n].value]}

Cuts(lines) ==
    {SubSeq(lines, 1, n) : n \in 0 .. Len(lines) - 1}
    \union UNION {CutIn(lines, n) : n \in {m \in DOMAIN lines : lines[m].kind = "item"}}

(* save_config: every field, section by section. *)
AllFields(c) ==
    Written(SetToSeq({[section |-> f[1], key |-> f[2], value |-> c[f]] : f \in Fields}))

-----------------------------------------------------------------------------
NoValues == [f \in Fields |-> NONE]
Zeros == [f \in Fields |-> Zero(f)]

Init ==
    /\ running = FALSE /\ config = Zeros
    /\ opened = FALSE /\ items = <<>> /\ modified = FALSE /\ saving = FALSE
    /\ read = <<>> /\ edited = NoValues
    /\ file \in Files \union {NoFile}
    /\ was = NoFile /\ promise = NoValues /\ torn = FALSE

(* main() reads the first file of four; without one it takes the defaults. *)
LoadConfig ==
    /\ ~running /\ running' = TRUE
    /\ \E f \in IF file = NoFile THEN OtherFiles \union {NoFile} ELSE {file} :
          config' = IF f = NoFile THEN Defaults ELSE Parsed(f)
    /\ UNCHANGED <<file, managerVars, histVars>>

Ready == running /\ ~saving

(* config_manager_load, on the first opening of the dialog and on reload:  *)
(* what was edited and not saved is gone, unless the file is missing.      *)
Load ==
    /\ Ready /\ file # NoFile
    /\ opened' = TRUE /\ items' = Items(file) /\ modified' = FALSE
    /\ read' = file /\ edited' = NoValues
    /\ UNCHANGED <<running, file, config, saving, histVars>>

(* The edit dialog of item i: config_manager_set_value changes the first   *)
(* item of that section and key.                                           *)
FirstOfKey(i) ==
    CHOOSE j \in DOMAIN items : /\ items[j].key = items[i].key
                                /\ \A k \in 1 .. j - 1 : items[k].key # items[i].key

FirstOf(i) ==
    CHOOSE j \in DOMAIN items :
        /\ items[j].section = items[i].section /\ items[j].key = items[i].key
        /\ \A k \in 1 .. j - 1 : \/ items[k].section # items[i].section
                                 \/ items[k].key # items[i].key

Edit(i, v) ==
    /\ Ready /\ items[i].value # v
    /\ items' = [items EXCEPT ![FirstOf(i)].value = v]
    /\ modified' = TRUE
    /\ edited' = [f \in Fields |->
                     IF f = <<items[i].section, items[i].key>> THEN v ELSE edited[f]]
    /\ UNCHANGED <<running, file, config, opened, saving, read, histVars>>

(* Leaving the dialog with "yes": fopen empties the file. A file that      *)
(* cannot be opened leaves all as it is, and the user is not told.         *)
SaveBeginClearing ==
    /\ Ready /\ modified
    /\ saving' = TRUE /\ modified' = FALSE /\ file' = <<>> /\ was' = file /\ promise' = NoValues
    /\ UNCHANGED <<running, config, opened, items, read, edited, torn>>

SaveBegin ==
    /\ Ready /\ modified
    /\ saving' = TRUE /\ file' = <<>> /\ was' = file /\ promise' = NoValues
    /\ UNCHANGED <<running, config, opened, items, modified, read, edited, torn>>

SaveEnd ==
    /\ saving /\ saving' = FALSE /\ modified' = FALSE
    /\ file' = Written(items) /\ read' = Written(items)
    /\ promise' = edited /\ edited' = NoValues /\ torn' = FALSE /\ was' = NoFile
    /\ UNCHANGED <<running, config, opened, items>>

(* The disk is full; no result of fprintf or fclose is looked at. *)
SaveCut ==
    /\ saving /\ saving' = FALSE /\ modified' = FALSE
    /\ file' \in Cuts(Written(items)) /\ torn' = TRUE /\ was' = NoFile
    /\ UNCHANGED <<running, config, opened, items, read, edited, promise>>

(* save_config has no caller; this is what it does to the same file. *)
SaveConfig ==
    /\ Ready /\ file' = AllFields(config) /\ promise' = config /\ torn' = FALSE
    /\ UNCHANGED <<running, config, managerVars, was>>

-----------------------------------------------------------------------------
(* Another program writes or deletes the file. *)
Foreign(f) ==
    /\ ~saving /\ file' = f /\ promise' = NoValues /\ torn' = FALSE
    /\ UNCHANGED <<running, config, managerVars, was>>

(* The end of the program, at any point. *)
Stop ==
    /\ running /\ running' = FALSE
    /\ opened' = FALSE /\ items' = <<>> /\ modified' = FALSE /\ saving' = FALSE
    /\ read' = <<>> /\ edited' = NoValues /\ was' = NoFile /\ config' = Zeros
    /\ \/ ~saving /\ UNCHANGED <<file, torn>>
       \/ saving /\ file' \in Cuts(Written(items)) /\ torn' = TRUE
    /\ UNCHANGED promise

Next ==
    \/ LoadConfig \/ Load \/ SaveBegin \/ SaveEnd \/ SaveCut \/ SaveConfig \/ Stop
    \/ \E i \in DOMAIN items, v \in Inputs : Edit(i, v)
    \/ \E f \in Files \union {NoFile} : Foreign(f)

Spec == Init /\ [][Next]_vars

-----------------------------------------------------------------------------
(* A type invariant. *)
TypeOK ==
    /\ running \in BOOLEAN
    /\ file = NoFile \/ file \in Seq(Lines)
    /\ config \in [Fields -> Values] /\ opened \in BOOLEAN
    /\ items \in Seq([section : Sections, key : Keys, value : Values])
    /\ modified \in BOOLEAN /\ saving \in BOOLEAN /\ torn \in BOOLEAN
    /\ read \in Seq(Lines) /\ (was = NoFile \/ was \in Seq(Lines))
    /\ edited \in [Fields -> Values \union {NONE}]
    /\ promise \in [Fields -> Values \union {NONE}]
    /\ saving => running /\ modified
    /\ modified => opened

(* A value that was entered and saved is what the next start reads, until  *)
(* another writer comes or the writing is cut. Two exceptions: a value the *)
(* field cannot hold, a word in a number or a text too long, which is read *)
(* as something else (the shipped file has such words); and a field with   *)
(* two lines, of which the manager edits the first and the parser takes    *)
(* the last.                                                               *)
SavedTakesEffect ==
    \A f \in Fields :
        /\ promise[f] # NONE /\ Reading(f, promise[f]) = promise[f]
        /\ Cardinality(Of(file, f)) < 2
        => Parsed(file)[f] = promise[f]

(* A complete save changes no field that was not edited: what the program  *)
(* would have read before the save, it reads after, fields with two lines  *)
(* included. Two exceptions: a field another program has changed since the *)
(* manager read the file, which the save takes back; and a file that had a *)
(* loose header when it was read, under which the manager files the lines  *)
(* in the section before.                                                  *)
SaveKeepsTheOthers ==
    [][saving /\ ~saving' /\ ~torn' /\ (\A i \in DOMAIN read : read[i].kind # "loose") =>
          \A f \in Fields :
              was # NoFile /\ edited[f] = NONE /\ Parsed(was)[f] = Parsed(read)[f] =>
                  Parsed(file')[f] = Parsed(was)[f]]_vars
=============================================================================
