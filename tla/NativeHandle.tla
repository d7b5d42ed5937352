----------------------------- MODULE NativeHandle -----------------------------
(***************************************************************************)
(* What the readers-writers scheme of SctpSocket promises, without its     *)
(* threads, its monitor, its counter and its native code: a handle that    *)
(* users hold and that is freed exactly once, after a close was asked for  *)
(* and when nobody holds it.                                               *)
(***************************************************************************)
CONSTANT User

VARIABLES
  phase,    \* "open", "retired" (nobody can get hold of it any more), "freed"
  users,    \* who holds the handle
  closing   \* "no", "asked", or "seen": every user knows of the close

vars == <<phase, users, closing>>

Init == phase = "open" /\ users = {} /\ closing = "no"

(* A user gets hold of an open handle, unless the close is known. *)
Acquire(u) ==
  /\ phase = "open" /\ closing # "seen" /\ u \notin users
  /\ users' = users \cup {u}
  /\ UNCHANGED <<phase, closing>>

(* The last user retires the handle if the close is known, and may do so if it *)
(* has only been asked for.                                                    *)
Release(u) ==
  /\ u \in users
  /\ users' = users \ {u}
  /\ \/ users' = {} /\ closing # "no" /\ phase' = "retired"
     \/ (users' # {} \/ closing # "seen") /\ UNCHANGED phase
  /\ UNCHANGED closing

AskClose ==
  /\ closing = "no" /\ closing' = "asked"
  /\ UNCHANGED <<phase, users>>

(* Closing is known from here on; without users the handle retires at once. *)
ConfirmClose ==
  /\ closing # "no" /\ closing' = "seen"
  /\ phase' = IF users = {} /\ phase = "open" THEN "retired" ELSE phase
  /\ UNCHANGED users

Free ==
  /\ phase = "retired" /\ phase' = "freed"
  /\ UNCHANGED <<users, closing>>

Next ==
  \/ \E u \in User : Acquire(u) \/ Release(u)
  \/ AskClose \/ ConfirmClose \/ Free

Spec == Init /\ [][Next]_vars
===============================================================================
