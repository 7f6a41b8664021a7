----------------------------- MODULE WaitForAck -----------------------------
(***************************************************************************)
(* class WaitForAck: the one packet a party has sent and waits to see      *)
(* acknowledged.  An object of the class is a record; each method that     *)
(* changes it is an operator from the old record to the new one.           *)
(*                                                                         *)
(* waituntil, an absolute time in the code, is the pair of `waiting`       *)
(* (waituntil # 0, what is_waiting tests) and `remaining`, the time left   *)
(* until then (wait_remaining), which stops at 0: the code only compares   *)
(* it with 0.                                                              *)
(***************************************************************************)
EXTENDS Integers

CONSTANTS
  SL_ACK_WAIT,       \* time to wait for an acknowledgement before a resend
  MAX_RESEND_COUNT   \* resends of one packet before the sender gives up

ASSUME WaitAssumption == SL_ACK_WAIT \in Nat /\ MAX_RESEND_COUNT \in Nat

\* pkt is None
NoPkt == [op |-> "None", num |-> 0, fits |-> TRUE]

clear_wait ==
  [waiting |-> FALSE, remaining |-> 0, pkt |-> NoPkt,
   count |-> 0, do_insert |-> FALSE]

set_wait(pkt, do_insert) ==
  [waiting |-> TRUE, remaining |-> SL_ACK_WAIT, pkt |-> pkt,
   count |-> 0, do_insert |-> do_insert]

\* stop_wait clears the record; this is the packet it returns.
Stopped(w) == IF w.do_insert THEN w.pkt ELSE NoPkt

\* Mutation: the resend is not counted.
restart_uncounted(w) == [w EXCEPT !.remaining = SL_ACK_WAIT]

\* inc_resend_count, then restart_wait, as a resend does.
restart_wait(w) ==
  [w EXCEPT !.remaining = SL_ACK_WAIT, !.count = w.count + 1]

\* wait_remaining() <= 0 for a waiting record.
Expired(w) == w.waiting /\ w.remaining = 0

\* inc_resend_count() > MAX_RESEND_COUNT
Exhausted(w) == w.count + 1 > MAX_RESEND_COUNT

\* Time passes.
Elapse(w) == [w EXCEPT !.remaining = IF w.remaining > 0 THEN w.remaining - 1 ELSE 0]

=============================================================================
