------------------------------- MODULE Common -------------------------------
(***************************************************************************)
(* What the components outside the order lifecycle share. Each of them has *)
(* its own rows; the runs put several side by side, so their state and     *)
(* their actions have names of their own.                                  *)
(***************************************************************************)
CONSTANTS
    None,       \* NULL: no row, no value
    Requests    \* API requests in flight at one time, each in its own database session
=============================================================================
