------------------------------ MODULE MCSettings ------------------------------
(***************************************************************************)
(* Settings with places on both sides of every line that matters: a digit, *)
(* ENTER right and left of the line between Accept and Modify, the key     *)
(* that erases, and a place that is no key.                                *)
(***************************************************************************)
EXTENDS Settings

MCSpots ==
  { [x |-> 2900, y |-> 2800],    \* 0
    [x |-> 3201, y |-> 2799],    \* 7
    [x |-> 3300, y |-> 3500],    \* BACKSPACE
    [x |-> 2001, y |-> 2800],    \* ENTER, or Accept
    [x |-> 2000, y |-> 2800],    \* ENTER, or Modify
    [x |-> 1900, y |-> 500] }    \* no key, or Modify
===============================================================================
