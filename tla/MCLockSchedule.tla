--------------------------- MODULE MCLockSchedule ---------------------------
(* LockSchedule is instantiated by its cfg file alone.                     *)
EXTENDS LockSchedule
=============================================================================
