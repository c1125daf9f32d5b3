---------------------------- MODULE MCChartCache ----------------------------
(* Two threads of one process and one of another, for TLC. *)
EXTENDS ChartCache, TLC
CONSTANTS t1, t2, t3, builder, other
MCPuller == {t1, t2, t3}
MCProcess == {builder, other}
MCProcessOf == (t1 :> builder) @@ (t2 :> builder) @@ (t3 :> other)
MCUnremovable == {t1}
=============================================================================
