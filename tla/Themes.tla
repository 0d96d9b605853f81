-------------------------------- MODULE Themes --------------------------------
(***************************************************************************)
(* tui/theme_manager.c and its dialog: the list of themes, read from the   *)
(* theme directory when the dialog is first opened, and the theme applied. *)
(*                                                                         *)
(* A theme is where it comes from and the name it goes by; its colours are *)
(* left out. The parser does not trim what stands before "=": of a file    *)
(* with "name = x", which is how theme_manager_save_to_file writes it, the *)
(* name is not read, and the theme goes by "unnamed". Creating, importing, *)
(* exporting and editing go through functions the repository lacks.        *)
(***************************************************************************)
EXTENDS Integers, Sequences, FiniteSets, SequencesExt

CONSTANTS
    ThemeNames,     \* names in theme files
    ThemeFiles,     \* bound: the files there may be
    MenuThemes,     \* themes the menu has room for (10 in the code)
    NoTheme

Builtins  == <<"dark", "default">>      \* in the order of the list
UNNAMED   == "unnamed"

ASSUME ThemesAssumption ==
    /\ {"dark", "default"} \subseteq ThemeNames /\ MenuThemes \in Nat
    /\ IsFiniteSet(ThemeFiles)
    /\ NoTheme \notin [name : ThemeNames, spaced : BOOLEAN]

VARIABLES
    th_dir,         \* the theme files: their name line, "name=x" or "name = x"
    th_themes,      \* tm.themes
    th_current,     \* the place of tm.current_theme in it, 0 for NULL
    th_chosen,      \* history: the place of the theme last chosen, or 0
    th_from         \* history: the files when the list was read

thVars == <<th_dir, th_themes, th_current, th_chosen, th_from>>

NoFiles == [f \in ThemeFiles |-> NoTheme]

ThInit ==
    /\ th_dir = NoFiles /\ th_themes = <<>> /\ th_current = 0 /\ th_chosen = 0
    /\ th_from = NoFiles

-----------------------------------------------------------------------------
(* theme_manager_load_from_file. *)
NameRead(theme) == IF theme.spaced THEN UNNAMED ELSE theme.name

There(dir) == {f \in ThemeFiles : dir[f] # NoTheme}

(* theme_manager_load_themes: the user's themes, in any order readdir      *)
(* gives, in front of the list.                                            *)
UserThemes(dir) ==
    {[i \in DOMAIN order |-> NameRead(dir[order[i]])] : order \in SetToSeqs(There(dir))}

(* theme_manager_init. A directory that cannot be made is tried again at   *)
(* the next opening; one that cannot be read is as if it were empty.       *)
ThOpen ==
    /\ th_themes = <<>>
    /\ \E dir \in {th_dir, NoFiles} : \E user \in UserThemes(dir) :
          th_themes' = user \o Builtins /\ th_from' = dir
    /\ th_current' = Len(th_themes')
    /\ UNCHANGED <<th_dir, th_chosen>>

(* The menu gives a place in the list; theme_manager_apply_theme looks for *)
(* the name that stands there, from the head of the list.                  *)
Apply(name) ==
    th_current' = CHOOSE i \in DOMAIN th_themes :
        th_themes[i] = name /\ \A j \in 1 .. i - 1 : th_themes[j] # name

ThChoosePast(i) ==
    /\ i \in DOMAIN th_themes /\ i <= MenuThemes
    /\ Apply(th_themes[IF i = Len(th_themes) THEN i ELSE i + 1]) /\ th_chosen' = i
    /\ UNCHANGED <<th_dir, th_themes, th_from>>

ThChoose(i) ==
    /\ i \in DOMAIN th_themes /\ i <= MenuThemes
    /\ Apply(th_themes[i]) /\ th_chosen' = i
    /\ UNCHANGED <<th_dir, th_themes, th_from>>

(* A theme is written by hand, or by theme_manager_save_to_file, which has *)
(* no caller, or taken away; the list in memory does not follow.           *)
ThFile(f, theme) ==
    /\ th_dir' = [th_dir EXCEPT ![f] = theme]
    /\ UNCHANGED <<th_themes, th_current, th_chosen, th_from>>

ThEnds ==
    /\ th_themes' = <<>> /\ th_current' = 0 /\ th_chosen' = 0 /\ th_from' = NoFiles
    /\ UNCHANGED th_dir

ThNext ==
    \/ ThOpen \/ ThEnds
    \/ \E i \in DOMAIN th_themes : ThChoose(i)
    \/ \E f \in ThemeFiles,
          theme \in {NoTheme} \union [name : ThemeNames, spaced : BOOLEAN] : ThFile(f, theme)

-----------------------------------------------------------------------------
ThTypeOK ==
    /\ th_dir \in [ThemeFiles -> {NoTheme} \union [name : ThemeNames, spaced : BOOLEAN]]
    /\ th_from \in [ThemeFiles -> {NoTheme} \union [name : ThemeNames, spaced : BOOLEAN]]
    /\ th_themes \in Seq(ThemeNames \union {UNNAMED})
    /\ th_current \in 0 .. Len(th_themes) /\ th_chosen \in 0 .. Len(th_themes)

(* The theme applied is the one that was chosen in the menu, whatever      *)
(* files came and went. The exception is a name that stands twice in the   *)
(* list, of which the first is applied: two files with the same name, a    *)
(* file named as a built-in theme, and two files written as save_to_file   *)
(* writes them, whose names are both lost.                                 *)
NamesClash ==
    \E f \in There(th_from) :
        \/ NameRead(th_from[f]) \in {"dark", "default"}
        \/ \E g \in There(th_from) \ {f} : NameRead(th_from[g]) = NameRead(th_from[f])

ChosenThemeApplied ==
    th_chosen # 0 => /\ ~NamesClash => th_current = th_chosen
                     /\ th_themes[th_current] = th_themes[th_chosen]
=============================================================================
