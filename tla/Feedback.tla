------------------------------ MODULE Feedback ------------------------------
(***************************************************************************)
(* tui/feedback_system.c: the list of messages for the user, newest first, *)
(* from which the oldest one is dropped by a walk when there are too many. *)
(*                                                                         *)
(* The list is nodes on the heap; malloc gives any free one. A message is  *)
(* its number, counted from the first; its texts are left out. The mutex   *)
(* is taken by the one thread there is and always given back.              *)
(***************************************************************************)
EXTENDS Integers, Sequences

CONSTANTS
    FbNodes,        \* pieces of memory for messages
    MaxMessages,    \* max_messages (100 in the code)
    MaxAdds,        \* bound: messages added
    NIL

ASSUME FeedbackAssumption ==
    /\ MaxMessages \in Nat \ {0} /\ MaxAdds \in Nat /\ NIL \notin FbNodes

FbTypes  == {"DEBUG", "INFO"}       \* the others are treated as INFO is
FbLevels == 0 .. 3                  \* silent, normal, verbose, debug

VARIABLES
    fb_head,        \* fs->messages
    fb_next,        \* the next field of each allocated node
    fb_message,     \* the message in each allocated node
    fb_count,       \* message_count
    fb_level, fb_sound,
    fb_added        \* messages added so far

fbListVars == <<fb_head, fb_next, fb_message, fb_count, fb_added>>
fbVars     == <<fbListVars, fb_level, fb_sound>>

(* feedback_system_init, with the level main() gives it. *)
FbInit ==
    /\ fb_head = NIL /\ fb_next = <<>> /\ fb_message = <<>> /\ fb_count = 0
    /\ fb_level = 1 /\ fb_sound = FALSE /\ fb_added = 0

Allocated == DOMAIN fb_next

-----------------------------------------------------------------------------
(* feedback_system_add_message, behind all the feedback_ functions. A new  *)
(* node goes to the front; beyond the limit the walk ends at the last node *)
(* and the one before it, which becomes the last.                          *)
DropLast(next) ==
    LET last == CHOOSE n \in DOMAIN next : next[n] = NIL
    IN  [n \in DOMAIN next \ {last} |-> IF next[n] = last THEN NIL ELSE next[n]]

TooManyEarly(count) == count >= MaxMessages
TooMany(count) == count > MaxMessages

FbAdd(type) ==
    /\ fb_added < MaxAdds /\ (type = "DEBUG" => fb_level >= 3)
    /\ \E node \in FbNodes \ Allocated :
          LET longer == [n \in Allocated \union {node} |->
                            IF n = node THEN fb_head ELSE fb_next[n]]
              next   == IF TooMany(fb_count + 1) THEN DropLast(longer) ELSE longer
          IN  /\ fb_head' = node /\ fb_next' = next
              /\ fb_message' = [n \in DOMAIN next |->
                                   IF n = node THEN fb_added + 1 ELSE fb_message[n]]
              /\ fb_count' = IF TooMany(fb_count + 1) THEN fb_count ELSE fb_count + 1
    /\ fb_added' = fb_added + 1
    /\ UNCHANGED <<fb_level, fb_sound>>

(* feedback_system_clear_messages, and the cleanup at the end of main(). *)
FbClear ==
    /\ fb_head' = NIL /\ fb_next' = <<>> /\ fb_message' = <<>> /\ fb_count' = 0
    /\ UNCHANGED <<fb_added, fb_level, fb_sound>>

FbSetLevel(level) == fb_level' = level /\ UNCHANGED <<fbListVars, fb_sound>>

FbSwitchSound == fb_sound' = ~fb_sound /\ UNCHANGED <<fbListVars, fb_level>>

FbNext ==
    \/ \E type \in FbTypes : FbAdd(type)
    \/ FbClear \/ FbSwitchSound \/ \E level \in FbLevels : FbSetLevel(level)

-----------------------------------------------------------------------------
(* The nodes in the order of the links from a head, n of them, and the     *)
(* messages of the list in the order in which they came.                   *)
Links(q, head, next, n) ==
    /\ head = IF n = 0 THEN NIL ELSE q[1]
    /\ \A i \in 1 .. n : next[q[i]] = IF i = n THEN NIL ELSE q[i + 1]

Listing == CHOOSE q \in [1 .. fb_count -> Allocated] : Links(q, fb_head, fb_next, fb_count)
OldestFirst == [i \in 1 .. fb_count |-> fb_message[Listing[fb_count + 1 - i]]]

FbTypeOK ==
    /\ fb_head \in FbNodes \union {NIL} /\ Allocated \subseteq FbNodes
    /\ fb_next \in [Allocated -> FbNodes \union {NIL}]
    /\ fb_message \in [Allocated -> 1 .. MaxAdds]
    /\ fb_count \in 0 .. MaxMessages /\ fb_added \in 0 .. MaxAdds
    /\ fb_level \in FbLevels /\ fb_sound \in BOOLEAN

(* What the list promises: the newest MaxMessages messages in their order, *)
(* until they are cleared; none is dropped before its turn, none twice.    *)
Messages == INSTANCE SlidingWindow WITH
    Capacity <- MaxMessages, Samples <- 1 .. MaxAdds, window <- OldestFirst

ImplementsWindow == Messages!Spec
=============================================================================
