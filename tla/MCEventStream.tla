---------------------------- MODULE MCEventStream ----------------------------
(***************************************************************************)
(* EventStream with a stream that fills and wraps within MaxAppends, and   *)
(* every limit around its size.                                            *)
(***************************************************************************)
EXTENDS EventStream

MCLimits == {-1, 0, 1, 2, 3, 4, NoLimit}
=============================================================================
