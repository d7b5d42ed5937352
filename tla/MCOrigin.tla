------------------------------- MODULE MCOrigin -------------------------------
(***************************************************************************)
(* The package net.sctp4nat.origin for model checking: a behaviour is one  *)
(* of SctpSocket or one of Sctp, as the initial state chooses; the other   *)
(* part stays in its initial state.                                        *)
(***************************************************************************)
EXTENDS SctpSocket, Sctp

VARIABLE part  \* the part that runs: "socket" or "stack"

MCInit == part \in {"socket", "stack"} /\ Init /\ StackInit

SocketPart == part = "socket" /\ Next /\ UNCHANGED <<stackVars, part>>
StackPart  == part = "stack" /\ StackNext /\ UNCHANGED <<vars, part>>

(* Threads keep running, as FairSpec of SctpSocket has it for calls on a       *)
(* socket; the thread inside finish() does.                                    *)
MCSpec ==
  /\ MCInit /\ [][SocketPart \/ StackPart]_<<vars, stackVars, part>>
  /\ \A t \in Thread : SF_vars(part = "socket" /\ Step(t))
  /\ WF_stackVars(part = "stack" /\ FinishStep)

-----------------------------------------------------------------------------
(* A closed socket is freed and unregistered in the end, every call on it      *)
(* returns although onSctpIn holds the monitor over acceptNative, and finish() *)
(* returns.                                                                    *)
Progress == CloseReleases /\ CallsReturn /\ FinishReturns
===============================================================================
