--------------------------- MODULE SctpNotification ---------------------------
(***************************************************************************)
(* The notifications of usrsctp (origin/SctpNotification.java).  Listeners *)
(* never look at their fields: they search the text of toString() for a    *)
(* keyword, so a notification is here the sequence of the words of that    *)
(* text, its type first.                                                   *)
(***************************************************************************)
EXTENDS Integers, Sequences

AssocState == {"COMM_UP", "COMM_LOST", "RESTART", "SHUTDOWN_COMP", "CANT_STR_ASSOC"}
AddrState  == {"ADDR_AVAILABLE", "ADDR_UNREACHABLE", "ADDR_REMOVED", "ADDR_ADDED",
               "ADDR_MADE_PRIM", "ADDR_CONFIRMED"}
OtherType  == {"SCTP_REMOTE_ERROR", "SCTP_SEND_FAILED", "SCTP_SHUTDOWN_EVENT",
               "SCTP_ADAPTATION_INDICATION", "SCTP_PARTIAL_DELIVERY_EVENT",
               "SCTP_AUTHENTICATION_EVENT", "SCTP_STREAM_RESET_EVENT", "SCTP_SENDER_DRY_EVENT",
               "SCTP_NOTIFICATIONS_STOPPED_EVENT", "SCTP_ASSOC_RESET_EVENT",
               "SCTP_STREAM_CHANGE_EVENT", "SCTP_SEND_FAILED_EVENT"}

AssociationChange(state) == <<"SCTP_ASSOC_CHANGE", state>>
PeerAddressChange(state) == <<"SCTP_PEER_ADDR_CHANGE", state>>
Event(type)              == <<type>>

Notification ==
  {AssociationChange(s) : s \in AssocState} \cup {PeerAddressChange(s) : s \in AddrState}
    \cup {Event(t) : t \in OtherType}

(* String.indexOf, as far as the listeners tell its results apart: -1 when the *)
(* keyword does not occur, 0 when the text starts with it.                     *)
indexOf(n, word) ==
  IF \E i \in 1..Len(n) : n[i] = word
  THEN (CHOOSE i \in 1..Len(n) : n[i] = word) - 1
  ELSE -1

(* What the listeners of SctpChannelBuilder and of connect() do on a           *)
(* notification; the search for SHUTDOWN_EVENT asks for an index above 0.      *)
closesChannel(n) ==
  \/ \E w \in {"SHUTDOWN_COMP", "ADDR_UNREACHABLE", "COMM_LOST"} : indexOf(n, w) >= 0
  \/ indexOf(n, "SCTP_SHUTDOWN_EVENT") > 0

resolvesConnect(n) == indexOf(n, "COMM_UP") >= 0
===============================================================================
