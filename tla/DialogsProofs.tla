--------------------------- MODULE DialogsProofs ---------------------------
(***************************************************************************)
(* For every log, terminal, language and theme file, and every number of   *)
(* messages: the log viewer's numbers are those of its list, an adapted    *)
(* layout fits the terminal, the message table owns its memory, the theme  *)
(* applied is the one chosen, the feedback list is a sliding window, and   *)
(* all variables keep their types.                                         *)
(***************************************************************************)
EXTENDS FileManagerProofs, FiniteSetTheorems

-----------------------------------------------------------------------------
(* The parts move one at a time: a step of the session is a step of the    *)
(* part, or leaves its variables alone.                                    *)
LEMMA OnePartMoves ==
    ASSUME [Next]_vars
    PROVE  /\ LvNext \/ UNCHANGED lvVars
           /\ FbNext \/ UNCHANGED fbVars
           /\ ThNext \/ UNCHANGED thVars
           /\ LoNext \/ UNCHANGED loVars
           /\ LangNext \/ UNCHANGED langVars
           /\ PwNext \/ UNCHANGED pwVars
<1>1. CASE UNCHANGED vars
  BY <1>1 DEF vars
<1>2. CASE Next
  BY <1>2 DEF Next, LogViewerMoves, FileManagerMoves, FeedbackMoves, ThemesMove,
              LayoutMoves, LanguageMoves, ProcessMoves
<1> QED BY <1>1, <1>2

-----------------------------------------------------------------------------
(* tui/i18n.c: the property is inductive as it stands.                     *)
LEMMA LanguageStep ==
    ASSUME TableOwnsItsBlock, LangNext
    PROVE  TableOwnsItsBlock'
<1> USE DEF TableOwnsItsBlock
<1>1. CASE LangStart
  BY <1>1 DEF LangStart
<1>2. ASSUME NEW l \in Languages, SetLanguage(l)
      PROVE  TableOwnsItsBlock'
  <2> PICK b \in Tables(l, heap \ {messages}) :
        LET loaded == (heap \ {messages}) \union ({b} \ {NULL})
        IN  /\ messages' = b /\ heap' = loaded \ {messages}
            /\ corrupt' = (\/ corrupt \/ FreesBadly(heap, messages)
                           \/ FreesBadly(loaded, messages))
    BY <1>2 DEF SetLanguage, SetLanguageThen
  <2>1. changed' = (changed \/ messages # NULL)
    BY <1>2 DEF SetLanguage, SetLanguageThen
  <2>2. heap' \subseteq {messages'}
    OBVIOUS
  <2>3. ASSUME ~changed' PROVE heap' = {messages'} \ {NULL} /\ ~corrupt'
    <3>1. messages = NULL /\ ~changed
      BY <2>1, <2>3
    <3>2. heap = {} /\ ~corrupt
      BY <3>1
    <3> QED BY <3>1, <3>2 DEF FreesBadly
  <2> QED BY <2>2, <2>3
<1>3. CASE LangCancel
  BY <1>3 DEF LangCancel, memoryVars
<1>4. CASE LangRemember
  BY <1>4 DEF LangRemember, memoryVars
<1>5. CASE LangEnds
  BY <1>5 DEF LangEnds
<1>6. CASE \E l \in Languages : LangChoose(l) \/ SelectLanguage(l)
  BY <1>2, <1>6 DEF LangChoose, SelectLanguage
<1>7. CASE \E l \in Languages, state \in {"absent", "empty", "full"} : InstallFile(l, state)
  BY <1>7 DEF InstallFile, memoryVars
<1> QED BY <1>1, <1>3, <1>4, <1>5, <1>6, <1>7 DEF LangNext

(* The program holds the block of its message table and no other, until    *)
(* the language is changed while there is a table (i18n_set_language).     *)
THEOREM TableOwned == Spec => []TableOwnsItsBlock
<1>1. Init => TableOwnsItsBlock
  BY DEF Init, LangInit, TableOwnsItsBlock
<1>2. TableOwnsItsBlock /\ [Next]_vars => TableOwnsItsBlock'
  <2> SUFFICES ASSUME TableOwnsItsBlock, [Next]_vars PROVE TableOwnsItsBlock'
    OBVIOUS
  <2>1. CASE LangNext
    BY <2>1, LanguageStep
  <2>2. CASE UNCHANGED langVars
    BY <2>2 DEF langVars, memoryVars, TableOwnsItsBlock
  <2> QED BY <2>1, <2>2, OnePartMoves
<1> QED BY <1>1, <1>2, PTL DEF Spec

-----------------------------------------------------------------------------
(* tui/layout_manager.c: what a layout was adapted to says what its        *)
(* dialog's size is.                                                       *)
LoInv ==
    /\ LoTypeOK
    /\ \A l \in LayoutNames :
          lo_adapted[l] # NoSize => lo_dialog[l] = DialogFor(lo_adapted[l])

(* The size computed for a dialog is a pair of integers.                   *)
LEMMA DialogForType ==
    ASSUME NEW s \in Sizes PROVE DialogFor(s) \in [width : Int, height : Int]
<1>1. s \in [width : Nat \ {0}, height : Nat \ {0}]
  BY LayoutAssumption DEF Sizes, Size
<1>2. s.width \in Nat /\ s.height \in Nat
  BY <1>1
<1> QED BY <1>2 DEF DialogFor, Size

(* Each step of the layout dialogs keeps it.                               *)
LEMMA LayoutStep ==
    ASSUME LoInv, LoNext
    PROVE  LoInv'
<1> USE DEF LoInv, LoTypeOK
<1>1. CASE LoOpen \/ LoDetect
  <2>1. lo_screen' \in Sizes /\ lo_screen' # NoSize
    BY <1>1, LayoutAssumption DEF LoOpen, LoDetect, Detected, Sizes
  <2> QED BY <1>1, <2>1 DEF LoOpen, LoDetect, loLayoutVars
<1>2. CASE LoAdapt
  <2>1. lo_screen \in Sizes /\ lo_screen # NoSize
    BY <1>2 DEF LoAdapt
  <2>2. DialogFor(lo_screen) \in [width : Int, height : Int]
    BY <2>1, DialogForType
  <2> QED BY <1>2, <2>1, <2>2 DEF LoAdapt
<1>3. CASE LoEnds
  <2>1. Preset \in [LayoutNames -> [width : Int, height : Int]]
    BY DEF Preset, LayoutNames, Size
  <2> QED BY <1>3, <2>1 DEF LoEnds, LayoutNames
<1>4. ASSUME NEW l \in LayoutNames, LoApply(l) \/ LoSwitchResponsive(l)
      PROVE  LoInv'
  BY <1>4 DEF LoApply, LoSwitchResponsive, loLayoutVars
<1>5. ASSUME NEW l \in LayoutNames, NEW size \in Entered, LoEnterSize(l, size)
      PROVE  LoInv'
  <2>1. size \in [width : Int, height : Int]
    BY LayoutAssumption
  <2>2. lo_dialog' \in [LayoutNames -> [width : Int, height : Int]]
    BY <1>5, <2>1 DEF LoEnterSize
  <2>3. ASSUME NEW k \in LayoutNames, lo_adapted'[k] # NoSize
        PROVE  lo_dialog'[k] = DialogFor(lo_adapted'[k])
    <3>1. k # l
      BY <1>5, <2>3 DEF LoEnterSize
    <3> QED BY <1>5, <2>3, <3>1 DEF LoEnterSize
  <2>4. lo_adapted' \in [LayoutNames -> Sizes \union {NoSize}]
    BY <1>5 DEF LoEnterSize
  <2> QED BY <1>5, <2>2, <2>3, <2>4 DEF LoEnterSize
<1>6. ASSUME NEW size \in Terminals, LoResized(size)
      PROVE  LoInv'
  BY <1>6 DEF LoResized, loLayoutVars, Sizes
<1> QED BY <1>1, <1>2, <1>3, <1>4, <1>5, <1>6, LayoutAssumption DEF LoNext

(* It holds in every session.                                              *)
LEMMA LayoutInvariant == Spec => []LoInv
<1>1. Init => LoInv
  <2> SUFFICES ASSUME Init PROVE LoInv
    OBVIOUS
  <2>1. Preset \in [LayoutNames -> [width : Int, height : Int]]
    BY DEF Preset, LayoutNames, Size
  <2> QED BY <2>1 DEF Init, LoInit, LoInv, LoTypeOK, LayoutNames, Sizes
<1>2. LoInv /\ [Next]_vars => LoInv'
  <2> SUFFICES ASSUME LoInv, [Next]_vars PROVE LoInv'
    OBVIOUS
  <2>1. CASE LoNext
    BY <2>1, LayoutStep
  <2>2. CASE UNCHANGED loVars
    BY <2>2 DEF loVars, loLayoutVars, LoInv, LoTypeOK
  <2> QED BY <2>1, <2>2, OnePartMoves
<1> QED BY <1>1, <1>2, PTL DEF Spec

(* A layout adapted to the size the terminal has keeps dialogs that fit,   *)
(* apart from terminals too small (layout_manager_adapt_to_screen).        *)
THEOREM AdaptedFits == Spec => []AdaptedDialogFits
<1>1. LoInv => AdaptedDialogFits
  <2> SUFFICES ASSUME LoInv, NEW l \in LayoutNames, lo_adapted[l] = lo_terminal
               PROVE  LET s == lo_terminal  d == lo_dialog[l]
                      IN  /\ s.width > 10 => d.width \in 1 .. s.width
                          /\ s.height >= 25 \/ (s.width < 80 /\ s.height > 6)
                                => d.height \in 1 .. s.height
    BY DEF AdaptedDialogFits
  <2>1. lo_terminal \in Sizes /\ lo_terminal # NoSize
    BY LayoutAssumption DEF LoInv, LoTypeOK
  <2>2. lo_dialog[l] = DialogFor(lo_terminal)
    BY <2>1 DEF LoInv
  <2>3. lo_terminal \in [width : Nat \ {0}, height : Nat \ {0}]
    BY <2>1, LayoutAssumption DEF Sizes, Size
  <2>4. lo_terminal.width \in Nat /\ lo_terminal.height \in Nat
    BY <2>3
  <2> QED BY <2>2, <2>4 DEF DialogFor, Size
<1> QED BY <1>1, LayoutInvariant, PTL

-----------------------------------------------------------------------------
(* tui/log_viewer.c: the file is never kept, so that no line is ever       *)
(* appended behind the cursor.                                             *)
LvInv ==
    /\ LvTypeOK /\ PositionMatchesEntry /\ lv_file = "NULL"

(* Each step of the viewer, the log and its writers keeps it.              *)
LEMMA LogViewStep ==
    ASSUME LvInv, LvNext
    PROVE  LvInv'
<1> USE DEF LvInv, LvTypeOK, PositionMatchesEntry
<1>1. CASE LvOpenFirst
  <2> PICK n \in 0 .. Len(log) :
        /\ lv_file' = "NULL" /\ lv_size' = Len(log)
        /\ lv_entries' = SubSeq(log, 1, n) /\ lv_total' = n
        /\ lv_current' = n /\ lv_position' = n - 1
    BY <1>1 DEF LvOpenFirst, Open, Reload
  <2>1. log \in Seq(Levels)
    BY <1>1 DEF LvOpenFirst
  <2>2. n \in Nat /\ Len(log) \in Nat /\ n <= Len(log)
    BY <2>1
  <2>3. SubSeq(log, 1, n) \in Seq(Levels) /\ Len(SubSeq(log, 1, n)) = n
    BY <2>1, <2>2
  <2>4. n = 0 => SubSeq(log, 1, n) = <<>>
    BY <2>3
  <2> QED BY <1>1, <2>1, <2>2, <2>3, <2>4, LogViewAssumption DEF LvOpenFirst, Open
<1>2. CASE LvOpenAgain
  BY <1>2 DEF LvOpenAgain, lvScreenVars, lvListVars
<1>3. CASE LvShow
  BY <1>3 DEF LvShow, lvScreenVars, lvListVars
<1>4. CASE LvLeave
  BY <1>4 DEF LvLeave, lvScreenVars, lvListVars
<1>5. CASE LvEnds
  <2>1. <<>> \in Seq(Levels) /\ 0 \in 0 .. Len(<<>>) /\ 0 \in Levels /\ 0 \in Nat /\ 0 \in Int
    BY LogViewAssumption
  <2>2. LvTypeOK'
    BY <1>5, <2>1, Zenon DEF LvEnds
  <2>3. PositionMatchesEntry' /\ lv_file' = "NULL"
    BY <1>5 DEF LvEnds
  <2> QED BY <2>2, <2>3
<1>6. CASE Rotated
  <2>1. <<>> \in Seq(Levels)
    OBVIOUS
  <2>2. log' = NoLog \/ log' \in Seq(Levels)
    BY <1>6, <2>1 DEF Rotated
  <2> QED BY <1>6, <2>2 DEF Rotated, lvScreenVars, lvListVars
<1>7. ASSUME NEW level \in Levels, Logged(level)
      PROVE  LvInv'
  BY <1>7 DEF Logged, lvScreenVars, lvListVars
<1>8. ASSUME NEW lines \in {1, VisibleEntries}, LvScrollUp(lines)
      PROVE  LvInv'
  BY <1>8, LogViewAssumption DEF LvScrollUp, Chosen, Fewest, lvListVars
<1>9. ASSUME NEW lines \in {1, VisibleEntries}, LvScrollDown(lines)
      PROVE  LvInv'
  BY <1>9, LogViewAssumption DEF LvScrollDown, Chosen, Fewest, lvListVars
<1>10. CASE LvToTop
  BY <1>10 DEF LvToTop, Chosen, lvListVars
<1>11. CASE LvToBottom
  BY <1>11 DEF LvToBottom, Chosen, lvListVars
<1>12. ASSUME NEW level \in Levels, LvFilter(level)
       PROVE  LvInv'
  BY <1>12 DEF LvFilter, Chosen, lvScreenVars, lvListVars
<1> QED BY <1>1, <1>2, <1>3, <1>4, <1>5, <1>6, <1>7, <1>8, <1>9, <1>10, <1>11, <1>12
        DEF LvNext, LvChoice

(* It holds in every session.                                              *)
LEMMA LogViewInvariant == Spec => []LvInv
<1>1. Init => LvInv
  <2> SUFFICES ASSUME Init PROVE LvInv
    OBVIOUS
  <2>1. <<>> \in Seq(Levels) /\ 0 \in 0 .. Len(<<>>) /\ 0 \in Levels /\ 0 \in Nat /\ 0 \in Int
    BY LogViewAssumption
  <2>2. LvTypeOK
    BY <2>1, Zenon DEF Init, LvInit, LvTypeOK
  <2>3. PositionMatchesEntry /\ lv_file = "NULL"
    BY DEF Init, LvInit, PositionMatchesEntry
  <2> QED BY <2>2, <2>3 DEF LvInv
<1>2. LvInv /\ [Next]_vars => LvInv'
  <2> SUFFICES ASSUME LvInv, [Next]_vars PROVE LvInv'
    OBVIOUS
  <2>1. CASE LvNext
    BY <2>1, LogViewStep
  <2>2. CASE UNCHANGED lvVars
    BY <2>2 DEF lvVars, lvScreenVars, lvListVars, LvInv, LvTypeOK, PositionMatchesEntry
  <2> QED BY <2>1, <2>2, OnePartMoves
<1> QED BY <1>1, <1>2, PTL DEF Spec

(* The viewer's position, total and cursor agree with its list, through    *)
(* reloads, scrolling, growth and rotation of the log.                     *)
THEOREM ViewerNumbersRight == Spec => []PositionMatchesEntry
<1>1. LvInv => PositionMatchesEntry
  BY DEF LvInv
<1> QED BY <1>1, LogViewInvariant, PTL

-----------------------------------------------------------------------------
(* tui/theme_manager.c: no name stands twice in the list, unless names clash. *)
Loaded ==
    /\ th_themes \in Seq(ThemeNames \union {UNNAMED})
    /\ ~NamesClash => \A i, j \in DOMAIN th_themes : th_themes[i] = th_themes[j] => i = j

ThInv ==
    /\ ThTypeOK /\ Loaded
    /\ th_chosen # 0 => th_current # 0 /\ th_themes[th_current] = th_themes[th_chosen]

(* theme_manager_load_themes gives each file's name once.                  *)
LEMMA UserList ==
    ASSUME NEW dir \in [ThemeFiles -> {NoTheme} \union [name : ThemeNames, spaced : BOOLEAN]],
           NEW user \in UserThemes(dir)
    PROVE  /\ user \in Seq(ThemeNames \union {UNNAMED})
           /\ \A i \in 1 .. Len(user) : \E f \in There(dir) : user[i] = NameRead(dir[f])
           /\ \A i, j \in 1 .. Len(user) : i # j =>
                 \E f \in There(dir) : \E g \in There(dir) \ {f} :
                    user[i] = NameRead(dir[f]) /\ user[j] = NameRead(dir[g])
<1> DEFINE c == Cardinality(There(dir))
<1>1. c \in Nat
  BY ThemesAssumption, FS_Subset, FS_CardinalityType DEF There
<1> PICK order \in SetToSeqs(There(dir)) :
       user = [i \in DOMAIN order |-> NameRead(dir[order[i]])]
  BY DEF UserThemes
<1>2. order \in [1 .. c -> There(dir)] /\ \A i, j \in 1 .. c : i # j => order[i] # order[j]
  BY DEF SetToSeqs
<1> HIDE DEF c
<1>3. \A f \in There(dir) : NameRead(dir[f]) \in ThemeNames \union {UNNAMED}
  <2> SUFFICES ASSUME NEW f \in There(dir)
               PROVE  NameRead(dir[f]) \in ThemeNames \union {UNNAMED}
    OBVIOUS
  <2>1. dir[f] \in [name : ThemeNames, spaced : BOOLEAN]
    BY DEF There
  <2> QED BY <2>1 DEF NameRead
<1>4. user \in [1 .. c -> ThemeNames \union {UNNAMED}]
  BY <1>2, <1>3
<1>5. user \in Seq(ThemeNames \union {UNNAMED}) /\ Len(user) = c
  BY <1>1, <1>4
<1>6. \A i \in 1 .. c : order[i] \in There(dir) /\ user[i] = NameRead(dir[order[i]])
  BY <1>2
<1>7. ASSUME NEW i \in 1 .. c, NEW j \in 1 .. c, i # j
      PROVE  \E f \in There(dir) : \E g \in There(dir) \ {f} :
                user[i] = NameRead(dir[f]) /\ user[j] = NameRead(dir[g])
  <2>1. order[i] # order[j] /\ order[i] \in There(dir) /\ order[j] \in There(dir)
    BY <1>2, <1>6, <1>7
  <2> QED BY <1>6, <2>1
<1> QED BY <1>5, <1>6, <1>7

(* theme_manager_init makes such a list.                                   *)
LEMMA OpenLoads ==
    ASSUME ThTypeOK, ThOpen
    PROVE  Loaded' /\ th_current' \in 1 .. Len(th_themes') /\ th_from' \in {th_dir, NoFiles}
<1> PICK dir \in {th_dir, NoFiles} : \E user \in UserThemes(dir) :
       th_themes' = user \o Builtins /\ th_from' = dir
  BY DEF ThOpen
<1> PICK user \in UserThemes(dir) : th_themes' = user \o Builtins
  OBVIOUS
<1>1. dir \in [ThemeFiles -> {NoTheme} \union [name : ThemeNames, spaced : BOOLEAN]]
  BY DEF ThTypeOK, NoFiles
<1>2. user \in Seq(ThemeNames \union {UNNAMED})
  BY <1>1, UserList
<1>3. Builtins \in Seq(ThemeNames \union {UNNAMED}) /\ Len(Builtins) = 2
      /\ Builtins[1] = "dark" /\ Builtins[2] = "default"
  BY ThemesAssumption DEF Builtins
<1> DEFINE list == user \o Builtins  n == Len(user)
<1>4. /\ list \in Seq(ThemeNames \union {UNNAMED}) /\ n \in Nat
      /\ Len(list) = n + 2 /\ DOMAIN list = 1 .. n + 2
      /\ \A i \in 1 .. n : list[i] = user[i]
      /\ list[n + 1] = "dark" /\ list[n + 2] = "default"
  <2> HIDE DEF Builtins
  <2>1. /\ list \in Seq(ThemeNames \union {UNNAMED})
        /\ Len(list) = n + Len(Builtins)
        /\ \A i \in 1 .. n + Len(Builtins) :
              list[i] = IF i <= n THEN user[i] ELSE Builtins[i - n]
    BY <1>2, <1>3, ConcatProperties, Zenon
  <2>2. n \in Nat
    BY <1>2
  <2> HIDE DEF list, n
  <2>3. Len(list) = n + 2 /\ DOMAIN list = 1 .. n + 2
    BY <1>3, <2>1, <2>2
  <2>4. \A i \in 1 .. n : list[i] = user[i]
    BY <1>3, <2>1, <2>2
  <2>5. (n + 1) - n = 1 /\ (n + 2) - n = 2
    BY <2>2
  <2>6. list[n + 1] = "dark" /\ list[n + 2] = "default"
    BY <1>3, <2>1, <2>2, <2>5
  <2> QED BY <2>1, <2>2, <2>3, <2>4, <2>6
<1>5. ASSUME ~NamesClash', NEW i \in DOMAIN list, NEW j \in DOMAIN list, list[i] = list[j]
      PROVE  i = j
  <2>1. th_from' = dir
    OBVIOUS
  <2>2. \A f \in There(dir) :
           /\ NameRead(dir[f]) \notin {"dark", "default"}
           /\ \A g \in There(dir) \ {f} : NameRead(dir[g]) # NameRead(dir[f])
    BY <1>5, <2>1 DEF NamesClash
  <2>3. \A k \in 1 .. n : user[k] \notin {"dark", "default"}
    BY <1>1, <2>2, UserList
  <2>4. ASSUME NEW k \in 1 .. n, NEW m \in 1 .. n, k # m
        PROVE  user[k] # user[m]
    <3>1. PICK f \in There(dir) : \E g \in There(dir) \ {f} :
             user[k] = NameRead(dir[f]) /\ user[m] = NameRead(dir[g])
      BY <1>1, <2>4, UserList
    <3> QED BY <2>2, <3>1
  <2> HIDE DEF list, n
  <2>5. i \in 1 .. n \/ i = n + 1 \/ i = n + 2
    BY <1>4
  <2>6. j \in 1 .. n \/ j = n + 1 \/ j = n + 2
    BY <1>4
  <2> QED BY <1>4, <1>5, <2>3, <2>4, <2>5, <2>6
<1> HIDE DEF list
<1>6. th_themes' = list
  BY DEF list
<1>7. th_current' \in 1 .. Len(th_themes')
  BY <1>4, <1>6 DEF ThOpen
<1> QED BY <1>4, <1>5, <1>6, <1>7 DEF Loaded

(* theme_manager_apply_theme finds the first theme of the name.            *)
LEMMA ApplyFinds ==
    ASSUME ThTypeOK, NEW i \in DOMAIN th_themes, Apply(th_themes[i])
    PROVE  th_current' \in DOMAIN th_themes /\ th_themes[th_current'] = th_themes[i]
<1> DEFINE P == {k \in DOMAIN th_themes : th_themes[k] = th_themes[i]}
<1>1. Len(th_themes) \in Nat /\ DOMAIN th_themes = 1 .. Len(th_themes)
  BY DEF ThTypeOK
<1>2. P \in SUBSET (1 .. Len(th_themes)) /\ P # {}
  BY <1>1
<1>3. \E k \in P : \A j \in 1 .. k - 1 : j \notin P
  <2> HIDE DEF P
  <2> QED BY <1>1, <1>2, FirstPlace
<1>4. \E k \in DOMAIN th_themes :
         th_themes[k] = th_themes[i] /\ \A j \in 1 .. k - 1 : th_themes[j] # th_themes[i]
  BY <1>1, <1>3
<1> QED BY <1>4 DEF Apply

(* Each step of the theme dialog and of the theme files keeps it.          *)
LEMMA ThemesStep ==
    ASSUME ThInv, ThNext
    PROVE  ThInv'
<1>1. ThTypeOK /\ Loaded
  BY DEF ThInv
<1>2. CASE ThOpen
  <2>1. /\ Loaded' /\ th_current' \in 1 .. Len(th_themes')
        /\ th_from' \in {th_dir, NoFiles}
    BY <1>1, <1>2, OpenLoads
  <2>2. th_dir' = th_dir /\ th_chosen' = th_chosen /\ th_themes = <<>>
    BY <1>2 DEF ThOpen
  <2>3. th_chosen = 0
    BY <1>1, <2>2 DEF ThTypeOK
  <2>4. th_from' \in [ThemeFiles -> {NoTheme} \union [name : ThemeNames, spaced : BOOLEAN]]
    BY <1>1, <2>1 DEF ThTypeOK, NoFiles
  <2>5. th_themes' \in Seq(ThemeNames \union {UNNAMED})
    BY <2>1 DEF Loaded
  <2>6. Len(th_themes') \in Nat
    BY <2>5
  <2>7. ThTypeOK'
    BY <1>1, <2>1, <2>2, <2>3, <2>4, <2>5, <2>6 DEF ThTypeOK
  <2> QED BY <2>1, <2>2, <2>3, <2>7 DEF ThInv
<1>3. CASE ThEnds
  <2>1. /\ <<>> \in Seq(ThemeNames \union {UNNAMED}) /\ Len(<<>>) = 0 /\ DOMAIN <<>> = {}
        /\ NoFiles \in [ThemeFiles -> {NoTheme} \union [name : ThemeNames, spaced : BOOLEAN]]
    BY DEF NoFiles
  <2>2. /\ th_themes' = <<>> /\ th_current' = 0 /\ th_chosen' = 0 /\ th_from' = NoFiles
        /\ th_dir' = th_dir
    BY <1>3 DEF ThEnds
  <2>3. DOMAIN th_themes' = {} /\ Len(th_themes') = 0
    BY <2>1, <2>2
  <2>4. Loaded'
    BY <2>1, <2>2, <2>3 DEF Loaded
  <2>5. ThTypeOK'
    BY <1>1, <2>1, <2>2, <2>3 DEF ThTypeOK
  <2> QED BY <2>2, <2>4, <2>5 DEF ThInv
<1>4. ASSUME NEW i \in DOMAIN th_themes, ThChoose(i)
      PROVE  ThInv'
  <2>1. th_current' \in DOMAIN th_themes /\ th_themes[th_current'] = th_themes[i]
    BY <1>1, <1>4, ApplyFinds DEF ThChoose
  <2>2. th_chosen' = i /\ UNCHANGED <<th_dir, th_themes, th_from>>
    BY <1>4 DEF ThChoose
  <2>3. Len(th_themes) \in Nat /\ DOMAIN th_themes = 1 .. Len(th_themes)
    BY <1>1 DEF ThTypeOK
  <2>4. ThTypeOK'
    BY <1>1, <2>1, <2>2, <2>3 DEF ThTypeOK
  <2>5. Loaded'
    BY <1>1, <2>2 DEF Loaded, NamesClash
  <2>6. th_current' # 0
    BY <2>1, <2>3
  <2> QED BY <2>1, <2>2, <2>4, <2>5, <2>6 DEF ThInv
<1>5. ASSUME NEW f \in ThemeFiles,
             NEW theme \in {NoTheme} \union [name : ThemeNames, spaced : BOOLEAN], ThFile(f, theme)
      PROVE  ThInv'
  <2>1. UNCHANGED <<th_themes, th_current, th_chosen, th_from>>
    BY <1>5 DEF ThFile
  <2>2. th_dir' \in [ThemeFiles -> {NoTheme} \union [name : ThemeNames, spaced : BOOLEAN]]
    BY <1>1, <1>5 DEF ThFile, ThTypeOK
  <2> QED BY <1>1, <2>1, <2>2 DEF ThInv, ThTypeOK, Loaded, NamesClash
<1> QED BY <1>2, <1>3, <1>4, <1>5 DEF ThNext

(* It holds in every session.                                              *)
LEMMA ThemesInvariant == Spec => []ThInv
<1>1. Init => ThInv
  <2> SUFFICES ASSUME Init PROVE ThInv
    OBVIOUS
  <2>1. /\ <<>> \in Seq(ThemeNames \union {UNNAMED}) /\ Len(<<>>) = 0 /\ DOMAIN <<>> = {}
        /\ NoFiles \in [ThemeFiles -> {NoTheme} \union [name : ThemeNames, spaced : BOOLEAN]]
    BY DEF NoFiles
  <2>2. /\ th_dir = NoFiles /\ th_themes = <<>> /\ th_current = 0 /\ th_chosen = 0
        /\ th_from = NoFiles
    BY DEF Init, ThInit
  <2>3. DOMAIN th_themes = {} /\ Len(th_themes) = 0
    BY <2>1, <2>2
  <2>4. ThTypeOK
    BY <2>1, <2>2, <2>3 DEF ThTypeOK
  <2> QED BY <2>1, <2>2, <2>3, <2>4 DEF ThInv, Loaded
<1>2. ThInv /\ [Next]_vars => ThInv'
  <2> SUFFICES ASSUME ThInv, [Next]_vars PROVE ThInv'
    OBVIOUS
  <2>1. CASE ThNext
    BY <2>1, ThemesStep
  <2>2. CASE UNCHANGED thVars
    BY <2>2 DEF thVars, ThInv, ThTypeOK, Loaded, NamesClash
  <2> QED BY <2>1, <2>2, OnePartMoves
<1> QED BY <1>1, <1>2, PTL DEF Spec

(* The theme applied is the one chosen in the menu, or, where names clash, *)
(* the first of its name (theme_manager_apply_theme).                      *)
THEOREM ThemeApplied == Spec => []ChosenThemeApplied
<1>1. ThInv => ChosenThemeApplied
  <2> SUFFICES ASSUME ThInv, th_chosen # 0
               PROVE  /\ ~NamesClash => th_current = th_chosen
                      /\ th_themes[th_current] = th_themes[th_chosen]
    BY DEF ChosenThemeApplied
  <2>1. DOMAIN th_themes = 1 .. Len(th_themes) /\ Len(th_themes) \in Nat
    BY DEF ThInv, ThTypeOK
  <2>2. th_current \in DOMAIN th_themes /\ th_chosen \in DOMAIN th_themes
    BY <2>1 DEF ThInv, ThTypeOK
  <2> QED BY <2>2 DEF ThInv, Loaded
<1> QED BY <1>1, ThemesInvariant, PTL

-----------------------------------------------------------------------------
(* tui/feedback_system.c: the links from a head make one sequence of nodes.  *)
LEMMA OneListing ==
    ASSUME NEW n \in Nat, NEW S, NEW next, NEW head,
           NEW q \in [1 .. n -> S], Links(q, head, next, n),
           NEW r \in [1 .. n -> S], Links(r, head, next, n)
    PROVE  q = r
<1> DEFINE P == {i \in 1 .. n : q[i] # r[i]}
<1>1. SUFFICES ASSUME P # {} PROVE FALSE
  OBVIOUS
<1>2. PICK i \in P : \A j \in 1 .. i - 1 : j \notin P
  <2>1. P \in SUBSET (1 .. n)
    OBVIOUS
  <2> HIDE DEF P
  <2> QED BY <1>1, <2>1, FirstPlace
<1>3. i \in 1 .. n /\ q[i] # r[i]
  OBVIOUS
<1>4. CASE i = 1
  BY <1>3, <1>4 DEF Links
<1>5. CASE i # 1
  <2>1. i - 1 \in 1 .. i - 1 /\ i - 1 \in 1 .. n /\ i - 1 # n /\ (i - 1) + 1 = i
    BY <1>3, <1>5
  <2>2. q[i - 1] = r[i - 1]
    BY <1>2, <2>1
  <2>3. next[q[i - 1]] = q[i] /\ next[r[i - 1]] = r[i]
    BY <2>1 DEF Links
  <2> QED BY <1>3, <2>2, <2>3
<1> QED BY <1>4, <1>5

(* The list is a path through all its nodes, none of them twice, and       *)
(* message_count is its length.                                            *)
Path(q, head, next, n) ==
    /\ q \in [1 .. n -> DOMAIN next] /\ Links(q, head, next, n)
    /\ \A i, j \in 1 .. n : q[i] = q[j] => i = j
    /\ \A node \in DOMAIN next : \E i \in 1 .. n : q[i] = node

FbInv ==
    FbTypeOK /\ \E q \in [1 .. fb_count -> Allocated] : Path(q, fb_head, fb_next, fb_count)

(* So the listing is that path. *)
LEMMA ListingIsPath ==
    ASSUME NEW n \in Nat, NEW next, NEW head, NEW q, Path(q, head, next, n)
    PROVE  (CHOOSE r \in [1 .. n -> DOMAIN next] : Links(r, head, next, n)) = q
  BY OneListing DEF Path

(* What feedback_system_add_message does to the list, by the nodes' order  *)
(* and by their links.                                                     *)
Pushed(q, n, node) ==
    [i \in 1 .. n |-> IF i = 1 THEN node ELSE q[i - 1]]

Linked(next, head, node) ==
    [m \in DOMAIN next \union {node} |-> IF m = node THEN head ELSE next[m]]

(* A new node before the list makes a longer path. *)
LEMMA PathLonger ==
    ASSUME NEW n \in Nat, NEW next, NEW head, NEW q, Path(q, head, next, n),
           NEW node, node \notin DOMAIN next
    PROVE  Path(Pushed(q, n + 1, node), node, Linked(next, head, node), n + 1)
<1> DEFINE r == [i \in 1 .. n + 1 |-> IF i = 1 THEN node ELSE q[i - 1]]
           longer == [m \in DOMAIN next \union {node} |-> IF m = node THEN head ELSE next[m]]
<1>1. /\ q \in [1 .. n -> DOMAIN next]
      /\ head = IF n = 0 THEN NIL ELSE q[1]
      /\ \A i \in 1 .. n : next[q[i]] = IF i = n THEN NIL ELSE q[i + 1]
      /\ \A i, j \in 1 .. n : q[i] = q[j] => i = j
      /\ \A m \in DOMAIN next : \E i \in 1 .. n : q[i] = m
  BY DEF Path, Links
<1>2. /\ r[1] = node
      /\ \A i \in 1 .. n + 1 : i # 1 =>
            r[i] = q[i - 1] /\ i - 1 \in 1 .. n /\ r[i] \in DOMAIN next /\ r[i] # node
  BY <1>1
<1>3. r \in [1 .. n + 1 -> DOMAIN longer]
  <2>1. \A i \in 1 .. n + 1 : r[i] \in DOMAIN next \union {node}
    BY <1>2
  <2> QED BY <2>1
<1>4. ASSUME NEW i \in 1 .. n + 1 PROVE longer[r[i]] = IF i = n + 1 THEN NIL ELSE r[i + 1]
  <2>1. CASE i = 1
    BY <1>1, <1>2, <2>1
  <2>2. CASE i # 1
    <3>1. i - 1 \in 1 .. n /\ longer[r[i]] = next[q[i - 1]]
      BY <1>2, <2>2
    <3>2. i # n + 1 => r[i + 1] = q[i]
      BY <2>2
    <3> QED BY <1>1, <3>1, <3>2
  <2> QED BY <2>1, <2>2
<1>5. \A i, j \in 1 .. n + 1 : r[i] = r[j] => i = j
  <2> SUFFICES ASSUME NEW i \in 1 .. n + 1, NEW j \in 1 .. n + 1, r[i] = r[j] PROVE i = j
    OBVIOUS
  <2>1. CASE i = 1 \/ j = 1
    BY <1>2, <2>1
  <2>2. CASE i # 1 /\ j # 1
    <3>1. i - 1 \in 1 .. n /\ j - 1 \in 1 .. n /\ q[i - 1] = q[j - 1]
      BY <1>2, <2>2
    <3> QED BY <1>1, <3>1
  <2> QED BY <2>1, <2>2
<1>6. ASSUME NEW m \in DOMAIN longer PROVE \E i \in 1 .. n + 1 : r[i] = m
  <2>1. CASE m = node
    BY <1>2, <2>1
  <2>2. CASE m # node
    <3>1. PICK i \in 1 .. n : q[i] = m
      BY <1>1, <2>2
    <3>2. i + 1 \in 1 .. n + 1 /\ r[i + 1] = m
      BY <3>1
    <3> QED BY <3>2
  <2> QED BY <2>1, <2>2
<1>7. r[1] = node /\ 1 \in 1 .. n + 1 /\ n + 1 # 0
  BY <1>2
<1> HIDE DEF r, longer
<1>8. Links(r, node, longer, n + 1)
  BY <1>4, <1>7 DEF Links
<1>9. Path(r, node, longer, n + 1)
  BY <1>3, <1>5, <1>6, <1>8 DEF Path
<1> QED BY <1>9 DEF r, longer, Pushed, Linked

(* Dropping the last node of a path of two or more leaves the others.      *)
LEMMA PathShorter ==
    ASSUME NEW n \in Nat \ {0}, NEW next, NEW head, NEW q, Path(q, head, next, n + 1),
           NIL \notin DOMAIN next
    PROVE  /\ DOMAIN DropLast(next) = DOMAIN next \ {q[n + 1]}
           /\ Path([i \in 1 .. n |-> q[i]], head, DropLast(next), n)
<1> DEFINE last == q[n + 1]
           r == [i \in 1 .. n |-> q[i]]
           shorter == [m \in DOMAIN next \ {last} |-> IF next[m] = last THEN NIL ELSE next[m]]
<1>1. /\ q \in [1 .. n + 1 -> DOMAIN next]
      /\ head = q[1]
      /\ \A i \in 1 .. n + 1 : next[q[i]] = IF i = n + 1 THEN NIL ELSE q[i + 1]
      /\ \A i, j \in 1 .. n + 1 : q[i] = q[j] => i = j
      /\ \A m \in DOMAIN next : \E i \in 1 .. n + 1 : q[i] = m
  BY DEF Path, Links
<1>2. last \in DOMAIN next /\ next[last] = NIL
  BY <1>1
<1>3. ASSUME NEW m \in DOMAIN next, next[m] = NIL PROVE m = last
  <2>1. PICK i \in 1 .. n + 1 : q[i] = m
    BY <1>1
  <2>2. CASE i # n + 1
    <3>1. i + 1 \in 1 .. n + 1 /\ next[m] = q[i + 1]
      BY <1>1, <2>1, <2>2
    <3> QED BY <1>1, <1>3, <3>1
  <2> QED BY <2>1, <2>2
<1>4. (CHOOSE m \in DOMAIN next : next[m] = NIL) = last
  BY <1>2, <1>3
<1>5. DropLast(next) = shorter
  BY <1>4 DEF DropLast
<1>6. \A i \in 1 .. n : r[i] = q[i] /\ r[i] \in DOMAIN next \ {last}
  BY <1>1
<1>7. r \in [1 .. n -> DOMAIN shorter]
  BY <1>6
<1>8. ASSUME NEW i \in 1 .. n PROVE shorter[r[i]] = IF i = n THEN NIL ELSE r[i + 1]
  <2>1. next[r[i]] = q[i + 1]
    BY <1>1, <1>6
  <2>2. CASE i = n
    BY <1>6, <2>1, <2>2
  <2>3. CASE i # n
    <3>1. q[i + 1] # last /\ r[i + 1] = q[i + 1]
      BY <1>1, <2>3
    <3> QED BY <1>6, <2>1, <2>3, <3>1
  <2> QED BY <2>2, <2>3
<1>9. \A i, j \in 1 .. n : r[i] = r[j] => i = j
  BY <1>1, <1>6
<1>10. ASSUME NEW m \in DOMAIN shorter PROVE \E i \in 1 .. n : r[i] = m
  <2>1. PICK i \in 1 .. n + 1 : q[i] = m
    BY <1>1
  <2>2. i \in 1 .. n
    BY <2>1
  <2> QED BY <1>6, <2>1, <2>2
<1>11. head = r[1] /\ n # 0
  BY <1>1
<1>12. DOMAIN shorter = DOMAIN next \ {last}
  OBVIOUS
<1> HIDE DEF r, shorter
<1>13. Links(r, head, shorter, n)
  BY <1>8, <1>11 DEF Links
<1>14. Path(r, head, shorter, n)
  BY <1>7, <1>9, <1>10, <1>13 DEF Path
<1> QED BY <1>5, <1>12, <1>14 DEF r

LEMMA AddOnPath ==
    ASSUME FbTypeOK, NEW q, Path(q, fb_head, fb_next, fb_count), NEW type, FbAdd(type)
    PROVE  \E node \in FbNodes :
              /\ fb_count' = IF fb_count < MaxMessages THEN fb_count + 1 ELSE MaxMessages
              /\ Path(Pushed(q, fb_count', node), fb_head', fb_next', fb_count')
              /\ DOMAIN fb_next' \subseteq Allocated \union {node}
              /\ node \notin Allocated
              /\ fb_head' = node
              /\ fb_next' \in [DOMAIN fb_next' -> FbNodes \union {NIL}]
              /\ fb_message' = [m \in DOMAIN fb_next' |->
                                   IF m = node THEN fb_added + 1 ELSE fb_message[m]]
<1> DEFINE n == fb_count
           longer(node) == [m \in Allocated \union {node} |->
                               IF m = node THEN fb_head ELSE fb_next[m]]
<1>1. PICK node \in FbNodes \ Allocated :
        /\ fb_head' = node
        /\ fb_next' = IF TooMany(n + 1) THEN DropLast(longer(node)) ELSE longer(node)
        /\ fb_message' = [m \in DOMAIN fb_next' |->
                             IF m = node THEN fb_added + 1 ELSE fb_message[m]]
        /\ fb_count' = IF TooMany(n + 1) THEN n ELSE n + 1
  BY DEF FbAdd
<1>2. n \in 0 .. MaxMessages /\ n \in Nat /\ MaxMessages \in Nat \ {0}
  BY FeedbackAssumption DEF FbTypeOK
<1>3. Path(Pushed(q, n + 1, node), node, longer(node), n + 1)
  <2>1. node \notin DOMAIN fb_next
    BY DEF Allocated
  <2>2. n \in Nat /\ Path(q, fb_head, fb_next, n)
    BY <1>2
  <2>3. longer(node) = Linked(fb_next, fb_head, node)
    BY DEF Linked, Allocated
  <2> HIDE DEF n, longer
  <2> QED BY <2>1, <2>2, <2>3, PathLonger
<1>4. DOMAIN longer(node) = Allocated \union {node}
  OBVIOUS
<1>5. longer(node) \in [Allocated \union {node} -> FbNodes \union {NIL}]
  BY DEF FbTypeOK
<1>6. CASE n < MaxMessages
  <2>1. ~TooMany(n + 1)
    BY <1>2, <1>6 DEF TooMany
  <2>2. fb_next' = longer(node) /\ fb_count' = n + 1
    BY <1>1, <2>1
  <2> HIDE DEF longer
  <2> QED BY <1>1, <1>3, <1>4, <1>5, <1>6, <2>2
<1>7. CASE n = MaxMessages
  <2>1. TooMany(n + 1)
    BY <1>2, <1>7 DEF TooMany
  <2>2. fb_next' = DropLast(longer(node)) /\ fb_count' = n
    BY <1>1, <2>1
  <2>3. n \in Nat \ {0} /\ NIL \notin DOMAIN longer(node)
    BY <1>1, <1>2, <1>4, <1>7, FeedbackAssumption DEF FbTypeOK
  <2>4. /\ DOMAIN DropLast(longer(node)) = DOMAIN longer(node) \ {Pushed(q, n + 1, node)[n + 1]}
        /\ Path([i \in 1 .. n |-> Pushed(q, n + 1, node)[i]], node, DropLast(longer(node)), n)
    <3> HIDE DEF longer
    <3> QED BY <1>3, <2>3, PathShorter
  <2>5. [i \in 1 .. n |-> Pushed(q, n + 1, node)[i]] = Pushed(q, n, node)
    BY <1>2 DEF Pushed
  <2>6. DropLast(longer(node)) \in [DOMAIN DropLast(longer(node)) -> FbNodes \union {NIL}]
    <3>1. DOMAIN DropLast(longer(node)) \subseteq DOMAIN longer(node)
      BY <2>4
    <3> HIDE DEF longer
    <3> QED BY <1>4, <1>5, <3>1 DEF DropLast
  <2> HIDE DEF longer
  <2>7. ~(n < MaxMessages)
    BY <1>2, <1>7
  <2>8. DOMAIN fb_next' \subseteq Allocated \union {node}
    BY <1>4, <2>2, <2>4
  <2>9. fb_next' \in [DOMAIN fb_next' -> FbNodes \union {NIL}]
    BY <2>2, <2>6
  <2>10. fb_count' = MaxMessages /\ fb_count' = n
    BY <1>7, <2>2
  <2>11. Path(Pushed(q, fb_count', node), fb_head', fb_next', fb_count')
    BY <1>1, <2>2, <2>4, <2>5
  <2> QED BY <1>1, <2>7, <2>8, <2>9, <2>10, <2>11
<1> QED BY <1>2, <1>6, <1>7

(* Each step of the list keeps it a path as long as its count.             *)
LEMMA FeedbackStep ==
    ASSUME FbInv, FbNext
    PROVE  FbInv'
<1>1. PICK q : Path(q, fb_head, fb_next, fb_count)
  BY DEF FbInv
<1>2. FbTypeOK
  BY DEF FbInv
<1>3. ASSUME NEW type \in FbTypes, FbAdd(type) PROVE FbInv'
  <2>1. PICK node \in FbNodes :
          /\ fb_count' = IF fb_count < MaxMessages THEN fb_count + 1 ELSE MaxMessages
          /\ Path(Pushed(q, fb_count', node), fb_head', fb_next', fb_count')
          /\ DOMAIN fb_next' \subseteq Allocated \union {node}
          /\ fb_head' = node
          /\ fb_next' \in [DOMAIN fb_next' -> FbNodes \union {NIL}]
          /\ fb_message' = [m \in DOMAIN fb_next' |->
                               IF m = node THEN fb_added + 1 ELSE fb_message[m]]
    BY <1>1, <1>2, <1>3, AddOnPath
  <2>2. fb_added \in 0 .. MaxAdds /\ fb_added < MaxAdds /\ fb_added' = fb_added + 1
        /\ UNCHANGED <<fb_level, fb_sound>>
    BY <1>2, <1>3 DEF FbAdd, FbTypeOK
  <2>3. fb_message' \in [DOMAIN fb_next' -> 1 .. MaxAdds]
    <3>1. fb_added + 1 \in 1 .. MaxAdds
      BY <2>2, FeedbackAssumption
    <3>2. \A m \in Allocated : fb_message[m] \in 1 .. MaxAdds
      BY <1>2 DEF FbTypeOK
    <3> QED BY <2>1, <3>1, <3>2
  <2>4. fb_count' \in 0 .. MaxMessages /\ fb_added' \in 0 .. MaxAdds
    BY <1>2, <2>1, <2>2, FeedbackAssumption DEF FbTypeOK
  <2>5. FbTypeOK'
    BY <1>2, <2>1, <2>2, <2>3, <2>4 DEF FbTypeOK, Allocated
  <2> QED BY <2>1, <2>5 DEF FbInv, Path, Allocated
<1>4. CASE FbClear
  <2>1. FbTypeOK'
    BY <1>2, <1>4, FeedbackAssumption DEF FbClear, FbTypeOK, Allocated
  <2>2. Path(<<>>, fb_head', fb_next', fb_count')
    BY <1>4 DEF FbClear, Path, Links
  <2> QED BY <2>1, <2>2 DEF FbInv, Path, Allocated
<1>5. CASE FbSwitchSound \/ \E level \in FbLevels : FbSetLevel(level)
  <2>1. UNCHANGED fbListVars /\ fb_level' \in FbLevels /\ fb_sound' \in BOOLEAN
    BY <1>2, <1>5 DEF FbSwitchSound, FbSetLevel, FbTypeOK
  <2>2. FbTypeOK'
    BY <1>2, <2>1 DEF FbTypeOK, Allocated, fbListVars
  <2>3. Path(q, fb_head', fb_next', fb_count')
    BY <1>1, <2>1, Zenon DEF fbListVars
  <2>4. q \in [1 .. fb_count' -> Allocated']
    BY <2>3, Zenon DEF Path, Allocated
  <2> QED BY <2>2, <2>3, <2>4, Zenon DEF FbInv
<1> QED BY <1>3, <1>4, <1>5 DEF FbNext

(* The messages read off a path, oldest first. *)
MessagesOn(q, n, message) == [i \in 1 .. n |-> message[q[n + 1 - i]]]

(* They are what the list shows, now and after the step. *)
LEMMA ShownMessages ==
    ASSUME NEW q
    PROVE  /\ fb_count \in Nat /\ Path(q, fb_head, fb_next, fb_count) =>
                 OldestFirst = MessagesOn(q, fb_count, fb_message)
           /\ fb_count' \in Nat /\ Path(q, fb_head', fb_next', fb_count') =>
                 OldestFirst' = MessagesOn(q, fb_count', fb_message')
<1>1. ASSUME fb_count \in Nat, Path(q, fb_head, fb_next, fb_count)
      PROVE  OldestFirst = MessagesOn(q, fb_count, fb_message)
  <2>1. Listing = q
    BY <1>1, ListingIsPath DEF Listing, Allocated
  <2> QED BY <2>1 DEF OldestFirst, MessagesOn
<1>2. ASSUME fb_count' \in Nat, Path(q, fb_head', fb_next', fb_count')
      PROVE  OldestFirst' = MessagesOn(q, fb_count', fb_message')
  <2>1. Listing' = q
    BY <1>2, ListingIsPath DEF Listing, Allocated
  <2> QED BY <2>1 DEF OldestFirst, MessagesOn
<1> QED BY <1>1, <1>2

(* A message added comes last; a full list loses its oldest one.           *)
LEMMA AddPushes ==
    ASSUME FbInv, NEW type \in FbTypes, FbAdd(type)
    PROVE  Messages!Push(fb_added + 1) /\ fb_added + 1 \in 1 .. MaxAdds
<1> DEFINE n == fb_count
<1>1. PICK q : Path(q, fb_head, fb_next, n)
  BY DEF FbInv
<1>2. PICK node \in FbNodes :
        /\ fb_count' = IF n < MaxMessages THEN n + 1 ELSE MaxMessages
        /\ Path(Pushed(q, fb_count', node), fb_head', fb_next', fb_count')
        /\ node \notin Allocated
        /\ fb_message' = [m \in DOMAIN fb_next' |->
                             IF m = node THEN fb_added + 1 ELSE fb_message[m]]
  BY <1>1, AddOnPath DEF FbInv
<1>3. /\ n \in 0 .. MaxMessages /\ n \in Nat /\ MaxMessages \in Nat \ {0} /\ fb_count' \in Nat
      /\ fb_added \in Nat /\ fb_message \in [Allocated -> 1 .. MaxAdds]
      /\ q \in [1 .. n -> Allocated]
  BY <1>1, <1>2, FeedbackAssumption DEF FbInv, FbTypeOK, Path, Allocated
<1>4. fb_added + 1 \in 1 .. MaxAdds
  BY <1>3, FeedbackAssumption DEF FbAdd
<1>5. OldestFirst = [i \in 1 .. n |-> fb_message[q[n + 1 - i]]]
  BY <1>1, <1>3, ShownMessages DEF MessagesOn
<1>6. OldestFirst' = [i \in 1 .. fb_count' |-> fb_message'[Pushed(q, fb_count', node)[fb_count' + 1 - i]]]
  BY <1>2, <1>3, ShownMessages DEF MessagesOn
<1>7. Pushed(q, fb_count', node) \in [1 .. fb_count' -> DOMAIN fb_next']
  BY <1>2 DEF Path
<1>8. \A k \in 1 .. fb_count' :
        fb_message'[Pushed(q, fb_count', node)[k]] =
            IF k = 1 THEN fb_added + 1 ELSE fb_message[q[k - 1]]
  <2> SUFFICES ASSUME NEW k \in 1 .. fb_count'
               PROVE  fb_message'[Pushed(q, fb_count', node)[k]] =
                         IF k = 1 THEN fb_added + 1 ELSE fb_message[q[k - 1]]
    OBVIOUS
  <2>1. Pushed(q, fb_count', node)[k] = IF k = 1 THEN node ELSE q[k - 1]
    BY DEF Pushed
  <2>2. Pushed(q, fb_count', node)[k] \in DOMAIN fb_next'
    BY <1>7
  <2>3. k # 1 => k - 1 \in 1 .. n /\ q[k - 1] # node
    BY <1>2, <1>3
  <2> QED BY <1>2, <2>1, <2>2, <2>3
<1>9. OldestFirst \in Seq(1 .. MaxAdds) /\ Len(OldestFirst) = n
  <2>1. \A i \in 1 .. n : fb_message[q[n + 1 - i]] \in 1 .. MaxAdds
    BY <1>3
  <2> QED BY <1>3, <1>5, <2>1
<1>10. CASE n < MaxMessages
  <2>1. fb_count' = n + 1
    BY <1>2, <1>10
  <2>2. \A i \in 1 .. n + 1 :
          OldestFirst'[i] = IF i = n + 1 THEN fb_added + 1 ELSE OldestFirst[i]
    <3> SUFFICES ASSUME NEW i \in 1 .. n + 1
                 PROVE  OldestFirst'[i] = IF i = n + 1 THEN fb_added + 1 ELSE OldestFirst[i]
      OBVIOUS
    <3>1. n + 2 - i \in 1 .. n + 1 /\ (n + 2 - i = 1 <=> i = n + 1) /\ (n + 1) + 1 - i = n + 2 - i
      BY <1>3
    <3>2. OldestFirst'[i] = fb_message'[Pushed(q, fb_count', node)[n + 2 - i]]
      BY <1>6, <2>1, <3>1
    <3>3. i # n + 1 => OldestFirst[i] = fb_message[q[n + 1 - i]] /\ (n + 2 - i) - 1 = n + 1 - i
      BY <1>3, <1>5
    <3> QED BY <1>8, <2>1, <3>1, <3>2, <3>3
  <2>3. OldestFirst' = Append(OldestFirst, fb_added + 1)
    <3>1. OldestFirst' = [i \in 1 .. n + 1 |-> IF i = n + 1 THEN fb_added + 1 ELSE OldestFirst[i]]
      BY <1>6, <2>1, <2>2
    <3>2. Append(OldestFirst, fb_added + 1) =
             [i \in 1 .. n + 1 |-> IF i = n + 1 THEN fb_added + 1 ELSE OldestFirst[i]]
      BY <1>3, <1>4, <1>9
    <3> QED BY <3>1, <3>2
  <2> QED BY <1>4, <1>9, <1>10, <2>3 DEF Messages!Push
<1>11. CASE ~(n < MaxMessages)
  <2>1. fb_count' = MaxMessages /\ n = MaxMessages
    BY <1>2, <1>3, <1>11
  <2>2. \A i \in 1 .. n : OldestFirst'[i] = IF i = n THEN fb_added + 1 ELSE OldestFirst[i + 1]
    <3> SUFFICES ASSUME NEW i \in 1 .. n
                 PROVE  OldestFirst'[i] = IF i = n THEN fb_added + 1 ELSE OldestFirst[i + 1]
      OBVIOUS
    <3>1. n + 1 - i \in 1 .. n /\ (n + 1 - i = 1 <=> i = n)
      BY <1>3
    <3>2. OldestFirst'[i] = fb_message'[Pushed(q, fb_count', node)[n + 1 - i]]
      BY <1>6, <2>1
    <3>3. i # n => OldestFirst[i + 1] = fb_message[q[n - i]] /\ (n + 1 - i) - 1 = n - i
      <4>1. i # n => i + 1 \in 1 .. n /\ n + 1 - (i + 1) = n - i /\ (n + 1 - i) - 1 = n - i
        BY <1>3
      <4> QED BY <1>5, <4>1
    <3> QED BY <1>8, <2>1, <3>1, <3>2, <3>3
  <2>3. OldestFirst' = [i \in 1 .. MaxMessages |->
                           IF i = MaxMessages THEN fb_added + 1 ELSE OldestFirst[i + 1]]
    BY <1>6, <2>1, <2>2
  <2> QED BY <1>4, <1>9, <1>11, <2>1, <2>3 DEF Messages!Push
<1> QED BY <1>10, <1>11

(* FbInv holds in every session. *)
LEMMA FeedbackInvariant == Spec => []FbInv
<1>1. Init => FbInv
  <2> SUFFICES ASSUME Init PROVE FbInv
    OBVIOUS
  <2>1. FbTypeOK
    <3>1. /\ fb_head = NIL /\ fb_next = <<>> /\ fb_message = <<>> /\ fb_count = 0
          /\ fb_level = 1 /\ fb_sound = FALSE /\ fb_added = 0
      BY DEF Init, FbInit
    <3>2. Allocated = {} /\ fb_next \in [{} -> FbNodes \union {NIL}] /\ fb_message \in [{} -> 1 .. MaxAdds]
      BY <3>1 DEF Allocated
    <3>3. /\ fb_next \in [Allocated -> FbNodes \union {NIL}]
          /\ fb_message \in [Allocated -> 1 .. MaxAdds] /\ Allocated \subseteq FbNodes
      BY <3>2
    <3>4. 0 \in 0 .. MaxMessages /\ 0 \in 0 .. MaxAdds /\ 1 \in FbLevels
      BY FeedbackAssumption DEF FbLevels
    <3> QED BY <3>1, <3>3, <3>4, Zenon DEF FbTypeOK
  <2>2. Path(<<>>, fb_head, fb_next, fb_count)
    BY DEF Init, FbInit, Path, Links
  <2> QED BY <2>1, <2>2 DEF FbInv, Path, Allocated
<1>2. FbInv /\ [Next]_vars => FbInv'
  <2> SUFFICES ASSUME FbInv, [Next]_vars PROVE FbInv'
    OBVIOUS
  <2>1. CASE FbNext
    BY <2>1, FeedbackStep
  <2>2. CASE UNCHANGED fbVars
    BY <2>2 DEF fbVars, fbListVars, FbInv, FbTypeOK, Allocated
  <2> QED BY <2>1, <2>2, OnePartMoves
<1> QED BY <1>1, <1>2, PTL DEF Spec

(* A step of the list pushes a message, drops them all, or does neither.   *)
LEMMA FeedbackRefines ==
    ASSUME FbInv, FbNext \/ UNCHANGED fbVars
    PROVE  [Messages!Next]_OldestFirst
<1>1. ASSUME NEW type \in FbTypes, FbAdd(type) PROVE Messages!Next
  BY <1>1, AddPushes DEF Messages!Next
<1>2. CASE FbClear
  <2>1. OldestFirst' = <<>>
    BY <1>2 DEF FbClear, OldestFirst
  <2> QED BY <2>1 DEF Messages!Next, Messages!Drop
<1>3. CASE FbSwitchSound \/ (\E level \in FbLevels : FbSetLevel(level)) \/ UNCHANGED fbVars
  <2>1. UNCHANGED fbListVars
    BY <1>3 DEF FbSwitchSound, FbSetLevel, fbVars
  <2> QED BY <2>1 DEF fbListVars, OldestFirst, Listing, Allocated
<1> QED BY <1>1, <1>2, <1>3 DEF FbNext

(* The feedback list implements the sliding window: it keeps the newest    *)
(* messages in their order, and the walk that drops the last node drops    *)
(* the oldest message (feedback_system_add_message).                       *)
THEOREM FeedbackIsWindow == Spec => ImplementsWindow
<1>1. Init => Messages!Init
  BY DEF Init, FbInit, OldestFirst, Messages!Init
<1>2. FbInv /\ [Next]_vars => [Messages!Next]_OldestFirst
  BY OnePartMoves, FeedbackRefines
<1> QED BY <1>1, <1>2, FeedbackInvariant, PTL DEF Spec, ImplementsWindow, Messages!Spec

-----------------------------------------------------------------------------
(* tui/i18n.c: the types of the language's variables.                      *)
LEMMA LanguageTypes ==
    ASSUME LangTypeOK, LangNext
    PROVE  LangTypeOK'
<1> USE LanguageAssumption DEF LangTypeOK
<1>1. \A l \in Languages : TextsOf(l) \in Languages
  BY DEF TextsOf
<1>2. \A l \in Languages, allocated \in SUBSET Blocks :
         Tables(l, allocated) \subseteq Blocks \union {NULL}
  BY DEF Tables
<1>3. CASE LangStart
  <2>1. /\ current_language' \in Languages /\ texts' \in Languages
        /\ messages' \in Blocks \union {NULL} /\ heap' \subseteq Blocks
    BY <1>1, <1>2, <1>3 DEF LangStart
  <2>2. phase' \in {"choose", "on"} /\ UNCHANGED <<corrupt, changed, po, language_conf>>
    BY <1>3 DEF LangStart
  <2> QED BY <2>1, <2>2
<1>4. ASSUME NEW l \in Languages, SetLanguage(l), phase' \in {phase, "remember"}
      PROVE  LangTypeOK'
  <2>1. heap \ {messages} \in SUBSET Blocks
    OBVIOUS
  <2>2. PICK b \in Tables(l, heap \ {messages}) :
           /\ messages' = b
           /\ heap' = ((heap \ {messages}) \union ({b} \ {NULL})) \ {messages}
           /\ corrupt' = (\/ corrupt \/ FreesBadly(heap, messages)
                          \/ FreesBadly((heap \ {messages}) \union ({b} \ {NULL}), messages))
    BY <1>4 DEF SetLanguage, SetLanguageThen
  <2>3. messages' \in Blocks \union {NULL} /\ heap' \subseteq Blocks
    BY <1>2, <2>1, <2>2
  <2>4. corrupt' \in BOOLEAN
    BY <2>2, Zenon
  <2>5. changed' \in BOOLEAN
    BY <1>4, Zenon DEF SetLanguage, SetLanguageThen
  <2>6. /\ current_language' \in Languages /\ texts' \in Languages
        /\ UNCHANGED <<po, language_conf>>
    BY <1>1, <1>4 DEF SetLanguage, SetLanguageThen
  <2> QED BY <1>4, <2>3, <2>4, <2>5, <2>6
<1>5. ASSUME NEW l \in Languages, LangChoose(l) PROVE LangTypeOK'
  BY <1>4, <1>5 DEF LangChoose
<1>6. ASSUME NEW l \in Languages, SelectLanguage(l) PROVE LangTypeOK'
  BY <1>4, <1>6 DEF SelectLanguage
<1>7. CASE LangCancel
  BY <1>7 DEF LangCancel, memoryVars
<1>8. CASE LangRemember
  BY <1>8 DEF LangRemember, memoryVars
<1>9. CASE LangEnds
  BY <1>9 DEF LangEnds
<1>10. ASSUME NEW l \in Languages, NEW state \in {"absent", "empty", "full"},
              InstallFile(l, state)
       PROVE  LangTypeOK'
  BY <1>10 DEF InstallFile, memoryVars
<1> QED BY <1>3, <1>5, <1>6, <1>7, <1>8, <1>9, <1>10 DEF LangNext

(* execute_background and wait_for_process: the types of their variables.  *)
LEMMA ProcessTypes ==
    ASSUME PwTypeOK, PwNext
    PROVE  PwTypeOK'
<1> USE ProcessWaitAssumption DEF PwTypeOK
<1>1. elapsed \in Int /\ elapsed >= -1 /\ elapsed <= MaxElapsed /\ MaxElapsed \in Nat
  OBVIOUS
<1>2. \A seconds \in {1, 2} : Passed(seconds) \in -1 .. MaxElapsed
  BY <1>1 DEF Passed
<1>3. CASE PwBackground
  BY <1>3 DEF PwBackground
<1>4. CASE PwPoll
  BY <1>4 DEF PwPoll, Return
<1>5. CASE PwCheck
  BY <1>2, <1>5 DEF PwCheck
<1>6. CASE PwGrace
  BY <1>2, <1>6 DEF PwGrace
<1>7. CASE PwLast
  <2>1. killed' \in BOOLEAN
    BY <1>7, Zenon DEF PwLast
  <2>2. child' \in {"none", "running", "zombie", "reaped"}
    BY <1>7 DEF PwLast
  <2> QED BY <1>7, <2>1, <2>2 DEF PwLast, Return
<1>8. CASE PwChildEnds
  BY <1>8 DEF PwChildEnds
<1>9. CASE PwTick
  BY <1>1, <1>9 DEF PwTick
<1>10. CASE PwSetBack
  BY <1>1, <1>10 DEF PwSetBack
<1>11. CASE PwEnds
  <2>1. 0 \in -1 .. MaxElapsed
    BY <1>1
  <2> QED BY <1>11, <2>1, Zenon DEF PwEnds
<1>12. ASSUME NEW timeout \in Timeouts, PwCall(timeout) PROVE PwTypeOK'
  BY <1>1, <1>12 DEF PwCall
<1> QED BY <1>3, <1>4, <1>5, <1>6, <1>7, <1>8, <1>9, <1>10, <1>11, <1>12 DEF PwNext, PwWait

(* They hold in every session.                                             *)
LEMMA OtherTypes == Spec => [](part \in Parts /\ LangTypeOK /\ PwTypeOK)
<1>1. Init => part \in Parts /\ LangTypeOK /\ PwTypeOK
  <2> SUFFICES ASSUME Init PROVE part \in Parts /\ LangTypeOK /\ PwTypeOK
    OBVIOUS
  <2>1. LangTypeOK
    BY LanguageAssumption DEF Init, LangInit, LangTypeOK
  <2>2. 0 \in -1 .. MaxElapsed /\ 0 \in 0 .. MaxSetBacks
    BY ProcessWaitAssumption
  <2>3. PwTypeOK
    BY <2>2, Zenon DEF Init, PwInit, PwTypeOK
  <2> QED BY <2>1, <2>3 DEF Init
<1>2. (part \in Parts /\ LangTypeOK /\ PwTypeOK) /\ [Next]_vars
         => (part \in Parts /\ LangTypeOK /\ PwTypeOK)'
  <2> SUFFICES ASSUME part \in Parts, LangTypeOK, PwTypeOK, [Next]_vars
               PROVE  (part \in Parts /\ LangTypeOK /\ PwTypeOK)'
    OBVIOUS
  <2>1. part' = part
    BY DEF Next, vars, LogViewerMoves, FileManagerMoves, FeedbackMoves, ThemesMove,
           LayoutMoves, LanguageMoves, ProcessMoves
  <2>2. UNCHANGED langVars => LangTypeOK'
    BY DEF langVars, memoryVars, LangTypeOK
  <2>3. UNCHANGED pwVars => PwTypeOK'
    BY DEF pwVars, PwTypeOK
  <2> QED BY <2>1, <2>2, <2>3, OnePartMoves, LanguageTypes, ProcessTypes
<1> QED BY <1>1, <1>2, PTL DEF Spec

(* Every variable of the dialogs keeps its type. For the file manager that *)
(* includes that everything stands in a directory, whatever was copied,    *)
(* moved, renamed or removed, and however it ended.                        *)
THEOREM DialogsTypes == Spec => []TypeOK
<1>1. /\ LvInv /\ ThInv /\ LoInv /\ FbInv /\ FmInv
      /\ part \in Parts /\ LangTypeOK /\ PwTypeOK
      => TypeOK
  BY FileManagerTypes DEF LvInv, ThInv, LoInv, FbInv, TypeOK
<1> QED BY <1>1, LogViewInvariant, ThemesInvariant, LayoutInvariant, FeedbackInvariant,
           FileManagerInvariant, OtherTypes, PTL
=============================================================================
