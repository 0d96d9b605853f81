------------------------------- MODULE Dialogs -------------------------------
(***************************************************************************)
(* A session of the program as far as its dialogs go: the log viewer, the  *)
(* file manager, the feedback list, the theme and layout managers, the     *)
(* language, and the function that waits for a child process.              *)
(*                                                                         *)
(* The program has one thread and is in one dialog at a time; none of them *)
(* reads what another one writes, and each keeps its state in statics of   *)
(* its own. So a session is taken apart: `part' says which component moves *)
(* and the others stay as they begin. What the rest of the program does to *)
(* a part, such as logging, is an action of that part.                     *)
(***************************************************************************)
EXTENDS LogView, FileManager, Feedback, Themes, Layout, Language, ProcessWait

CONSTANT Parts

ASSUME DialogsAssumption ==
    Parts \subseteq {"log", "files", "feedback", "themes", "layout", "language", "process"}

VARIABLE part

Init ==
    /\ part \in Parts
    /\ LvInit /\ FmInit /\ FbInit /\ ThInit /\ LoInit /\ LangInit /\ PwInit
    /\ part # "language" => po = [l \in Languages |-> "absent"]

LogViewerMoves ==
    /\ part = "log" /\ LvNext
    /\ UNCHANGED <<part, fmVars, fbVars, thVars, loVars, langVars, pwVars>>

FileManagerMoves ==
    /\ part = "files" /\ FmNext
    /\ UNCHANGED <<part, lvVars, fbVars, thVars, loVars, langVars, pwVars>>

FeedbackMoves ==
    /\ part = "feedback" /\ FbNext
    /\ UNCHANGED <<part, lvVars, fmVars, thVars, loVars, langVars, pwVars>>

ThemesMove ==
    /\ part = "themes" /\ ThNext
    /\ UNCHANGED <<part, lvVars, fmVars, fbVars, loVars, langVars, pwVars>>

LayoutMoves ==
    /\ part = "layout" /\ LoNext
    /\ UNCHANGED <<part, lvVars, fmVars, fbVars, thVars, langVars, pwVars>>

LanguageMoves ==
    /\ part = "language" /\ LangNext
    /\ UNCHANGED <<part, lvVars, fmVars, fbVars, thVars, loVars, pwVars>>

ProcessMoves ==
    /\ part = "process" /\ PwNext
    /\ UNCHANGED <<part, lvVars, fmVars, fbVars, thVars, loVars, langVars>>

Next ==
    \/ LogViewerMoves \/ FileManagerMoves \/ FeedbackMoves \/ ThemesMove
    \/ LayoutMoves \/ LanguageMoves \/ ProcessMoves

vars == <<part, lvVars, fmVars, fbVars, thVars, loVars, langVars, pwVars>>

Spec == Init /\ [][Next]_vars /\ PwFairness

(* With a user who does not leave the log viewer. *)
LiveSpec == Spec /\ LvUserStays

(* A type invariant. *)
TypeOK ==
    /\ part \in Parts
    /\ LvTypeOK /\ FmTypeOK /\ FbTypeOK /\ ThTypeOK /\ LoTypeOK /\ LangTypeOK /\ PwTypeOK
=============================================================================
