------------------------------ MODULE MCHttpDate ------------------------------
(***************************************************************************)
(* Constants for HttpDate: times of day around midnight, and instants a    *)
(* millisecond and an hour before them.                                    *)
(***************************************************************************)
EXTENDS HttpDate

At(hour, minute, second) == [hour |-> hour, minute |-> minute, second |-> second]

HeaderTimes == {At(0, 0, 0), At(0, 30, 0), At(23, 59, 59)}
ReadAt == {0, 1, 82798999, 82799000, 84600000, 86398999, 86399999}
=============================================================================
