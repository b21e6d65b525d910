------------------------------ MODULE MCLvTask ------------------------------
(* Small instances of LvTask. *)
EXTENDS LvTask

CONSTANTS t1, t2, t3
MCTwo == {t1, t2}
MCThree == {t1, t2, t3}
MCRepeat == {-1}
MCRepeatBoth == {-1, 1}
=============================================================================
