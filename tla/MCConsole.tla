----------------------------- MODULE MCConsole -----------------------------
(***************************************************************************)
(* The instance of Console for TLC: records of two nodes, one request for  *)
(* the first record of all and one for the last record of one node, in the *)
(* same area of the page.                                                  *)
(***************************************************************************)
EXTENDS Console

CONSTANTS s1, s2   \* browsers

MCKeys     == 1 .. 2
MCMatching == [all |-> MCKeys, second |-> {2}]

CSearchKey(restrict, start, item, count, tag) ==
  [restrict |-> restrict, start |-> start, end |-> None, item |-> item,
   count |-> count, tag |-> tag]

MCAsk == [first_one |-> CSearchKey("all", None, 0, 1, "list"),
          last_one  |-> CSearchKey("second", None, -1, 1, "list")]

=============================================================================
