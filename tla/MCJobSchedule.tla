----------------------------- MODULE MCJobSchedule -----------------------------
(* JobSchedule for TLC.                                                    *)
EXTENDS JobSchedule

CONSTANTS w1, w2

TwoWorkers == {w1, w2}
===============================================================================
