-------------------------------- MODULE Layout --------------------------------
(***************************************************************************)
(* tui/layout_manager.c and its dialogs: the three layouts, the size the   *)
(* terminal had when it was last looked at, and the size of dialogs, which *)
(* adapting a responsive layout computes from the stored size.             *)
(*                                                                         *)
(* Of a layout only the dialog's size and `responsive_design' are kept:    *)
(* its other fields are shown or edited and nothing computes with them.    *)
(* User layouts come from a function the repository lacks. No code opens   *)
(* the dialog of properties; LoSwitchResponsive and LoEnterSize are what   *)
(* it does when it is opened for a layout.                                 *)
(***************************************************************************)
EXTENDS Integers

CONSTANTS
    Terminals,      \* sizes the user gives the terminal
    Entered,        \* sizes the user enters for dialogs
    UsedLayouts,    \* bound: the layouts the user applies or edits
    NoSize

Size(w, h) == [width |-> w, height |-> h]
Sizes == Terminals \union {Size(80, 24)}
LayoutNames == {"compact", "widescreen", "mobile"}
Preset ==
    [l \in LayoutNames |-> CASE l = "compact" -> Size(60, 16)
                             [] l = "widescreen" -> Size(90, 20)
                             [] l = "mobile" -> Size(50, 14)]

ASSUME LayoutAssumption ==
    /\ Terminals \subseteq [width : Nat \ {0}, height : Nat \ {0}]
    /\ Entered \subseteq [width : Int, height : Int]
    /\ UsedLayouts \subseteq LayoutNames /\ NoSize \notin Sizes

VARIABLES
    lo_terminal,    \* the size the terminal has
    lo_ready,       \* the dialog's static flag `initialized'
    lo_screen,      \* screen_width and screen_height
    lo_current,     \* current_layout
    lo_dialog,      \* dialog_size of each layout
    lo_responsive,  \* responsive_design of each layout
    lo_adapted      \* history: the size a layout was last adapted to

loLayoutVars == <<lo_dialog, lo_responsive, lo_adapted>>
loVars       == <<lo_terminal, lo_ready, lo_screen, lo_current, loLayoutVars>>

LoInit ==
    /\ lo_terminal = Size(80, 24) /\ lo_ready = FALSE
    /\ lo_screen = NoSize /\ lo_current = "compact" /\ lo_dialog = Preset
    /\ lo_responsive = [l \in LayoutNames |-> FALSE]
    /\ lo_adapted = [l \in LayoutNames |-> NoSize]

-----------------------------------------------------------------------------
(* layout_manager_detect_terminal: 80x24 when the ioctl fails, as on a     *)
(* standard output that is no terminal. Without TERM it reads NULL and may *)
(* fault, which is LoEnds.                                                 *)
DetectedLate == UNCHANGED lo_screen
Detected == lo_screen' \in {lo_terminal, Size(80, 24)}

(* The first opening, which looks at the terminal and makes the presets. A *)
(* directory that cannot be made leaves the presets to the next opening.   *)
LoOpen ==
    /\ ~lo_ready /\ lo_ready' = TRUE /\ Detected
    /\ UNCHANGED <<lo_terminal, lo_current, loLayoutVars>>

LoDetect ==
    /\ lo_ready /\ Detected
    /\ UNCHANGED <<lo_terminal, lo_ready, lo_current, loLayoutVars>>

LoApply(l) ==
    /\ lo_ready /\ lo_current' = l
    /\ UNCHANGED <<lo_terminal, lo_ready, lo_screen, loLayoutVars>>

(* layout_manager_adapt_to_screen, which the dialog gives the stored size. *)
DialogForWide(s) ==
    CASE s.width < 60 -> Size(s.width - 10, s.height - 6)
      [] s.width > 120 -> Size(90, 25)
      [] OTHER -> Size(70, 20)

DialogFor(s) ==
    CASE s.width < 80 -> Size(s.width - 10, s.height - 6)
      [] s.width > 120 -> Size(90, 25)
      [] OTHER -> Size(70, 20)

LoAdapt ==
    /\ lo_ready /\ lo_responsive[lo_current]
    /\ lo_dialog' = [lo_dialog EXCEPT ![lo_current] = DialogFor(lo_screen)]
    /\ lo_adapted' = [lo_adapted EXCEPT ![lo_current] = lo_screen]
    /\ UNCHANGED <<lo_terminal, lo_ready, lo_screen, lo_current, lo_responsive>>

(* The dialogs of advanced options and of the dialog's size; the second is *)
(* left after the width, or after both.                                    *)
LoSwitchResponsive(l) ==
    /\ lo_ready /\ lo_responsive' = [lo_responsive EXCEPT ![l] = ~@]
    /\ UNCHANGED <<lo_terminal, lo_ready, lo_screen, lo_current, lo_dialog, lo_adapted>>

LoEnterSize(l, size) ==
    /\ lo_ready
    /\ lo_dialog' \in {[lo_dialog EXCEPT ![l] = size], [lo_dialog EXCEPT ![l].width = size.width]}
    /\ lo_adapted' = [lo_adapted EXCEPT ![l] = NoSize]
    /\ UNCHANGED <<lo_terminal, lo_ready, lo_screen, lo_current, lo_responsive>>

(* The user changes the size of the terminal, which nobody is told of; the *)
(* program ends, and the presets are as they were.                         *)
LoResized(size) ==
    /\ lo_terminal' = size
    /\ UNCHANGED <<lo_ready, lo_screen, lo_current, loLayoutVars>>

LoEnds ==
    /\ lo_ready' = FALSE /\ lo_screen' = NoSize /\ lo_current' = "compact"
    /\ lo_dialog' = Preset /\ lo_responsive' = [l \in LayoutNames |-> FALSE]
    /\ lo_adapted' = [l \in LayoutNames |-> NoSize]
    /\ UNCHANGED lo_terminal

LoNext ==
    \/ LoOpen \/ LoDetect \/ LoAdapt \/ LoEnds
    \/ \E l \in UsedLayouts : LoApply(l) \/ LoSwitchResponsive(l)
    \/ \E l \in UsedLayouts, size \in Entered : LoEnterSize(l, size)
    \/ \E size \in Terminals : LoResized(size)

-----------------------------------------------------------------------------
LoTypeOK ==
    /\ lo_terminal \in Sizes /\ lo_ready \in BOOLEAN
    /\ lo_screen \in Sizes \union {NoSize}
    /\ lo_ready => lo_screen # NoSize
    /\ lo_current \in LayoutNames
    /\ lo_dialog \in [LayoutNames -> [width : Int, height : Int]]
    /\ lo_responsive \in [LayoutNames -> BOOLEAN]
    /\ lo_adapted \in [LayoutNames -> Sizes \union {NoSize}]

(* A layout that was adapted to the size the terminal has keeps dialogs    *)
(* that fit the terminal, whatever was resized, detected, applied or       *)
(* switched since: in its width from 11 columns on; in its height only     *)
(* when the terminal has 25 rows, or 7 of them and less than 80 columns.   *)
AdaptedDialogFits ==
    \A l \in LayoutNames :
        lo_adapted[l] = lo_terminal =>
            LET s == lo_terminal  d == lo_dialog[l]
            IN  /\ s.width > 10 => d.width \in 1 .. s.width
                /\ s.height >= 25 \/ (s.width < 80 /\ s.height > 6) => d.height \in 1 .. s.height
=============================================================================
