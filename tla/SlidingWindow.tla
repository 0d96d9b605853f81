--------------------------- MODULE SlidingWindow ---------------------------
(***************************************************************************)
(* What a bounded history of samples promises: the newest Capacity samples *)
(* and nothing else, oldest first, until it is thrown away.                *)
(***************************************************************************)
EXTENDS Naturals, Sequences

CONSTANTS Capacity, Samples

VARIABLE window

Init == window = <<>>

(* The newest sample comes in; a full window loses its oldest one. *)
Push(s) ==
    window' = IF Len(window) < Capacity
              THEN Append(window, s)
              ELSE [i \in 1 .. Capacity |-> IF i = Capacity THEN s ELSE window[i + 1]]

Drop == window' = <<>>

Next == (\E s \in Samples : Push(s)) \/ Drop

Spec == Init /\ [][Next]_window
=============================================================================
