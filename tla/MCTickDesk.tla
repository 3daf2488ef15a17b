----------------------------- MODULE MCTickDesk -----------------------------
(* Four trades over two days, pages of three. *)
EXTENDS TickDesk

MCDayOf == [t \in Trades |-> IF t < 3 THEN 1 ELSE 2]
=============================================================================
