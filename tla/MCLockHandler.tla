--------------------------- MODULE MCLockHandler ---------------------------
(* Three threads, two names: enough for two threads to race on the creation *)
(* of one lock while a third holds or creates the other.                    *)
EXTENDS LockHandler
=============================================================================
