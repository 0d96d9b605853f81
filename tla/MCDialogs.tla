------------------------------ MODULE MCDialogs ------------------------------
(* Bounds for Dialogs. The paths are "a" and "b", both again in "a", and   *)
(* both again in "a/a", so that trees are copied up, down and across. The  *)
(* terminals are small, normal, and wide and low.                          *)
EXTENDS Dialogs

MCPaths == {<<>>, <<"b">>, <<"a">>, <<"a", "a">>, <<"a", "b">>, <<"a", "a", "a">>,
            <<"a", "a", "b">>, <<"a", "a", "a", "b">>}
MCTerminals == {Size(60, 20), Size(100, 30), Size(132, 24)}
MCEntered == {Size(150, 40)}
=============================================================================
