---------------------------- MODULE MCSearchBox ----------------------------
(* Values of the constants for TLC.                                           *)
EXTENDS SearchBox, TLC

MCChars == {"c", "p", "s", Space}
MCLabel == <<"s">>

MCRow(name, kids) == [name |-> name, kids |-> kids]

(* Texts that differ in a space only; the first finds the last two rows, the  *)
(* other none.                                                                *)
MCTyped == {<<"c", "p">>, <<"c", Space, "p">>}
MCPressed == {"down", "up", "left", "right", "enter", "esc", "menu"}

(* The keys that move between the field, the results and the selection window.*)
MCFewKeys == {"down", "esc", "menu"}

MCsearchData ==
  <<0, "c">> :>
    <<MCRow(<<"c">>, 0), MCRow(<<"c", "p">>, 2), MCRow(<<"c", "p", "s">>, 0)>>
=============================================================================
