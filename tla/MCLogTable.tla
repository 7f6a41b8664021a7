----------------------------- MODULE MCLogTable -----------------------------
(***************************************************************************)
(* The instance of LogTable for TLC: small limits in the proportion of the *)
(* real ones, and searches for the first record and for the last two.      *)
(***************************************************************************)
EXTENDS LogTable

CONSTANT MaxLines   \* records that are ever made

MCKeys     == 1 .. MaxLines
MCMatching == [all |-> MCKeys]

Page(item, count) == [restrict |-> "all", start |-> None, end |-> None,
                      item |-> item, count |-> count]
MCShows == {Page(0, 1), Page(-2, 2)}

=============================================================================
