--------------------------- MODULE SocketOptions ---------------------------
(***************************************************************************)
(* The SCTP level of getsockopt() and setsockopt() (sctp_usrreq.c), on one *)
(* endpoint and its associations.  Most options exist twice: once in the   *)
(* endpoint, as the default of associations to come, and once in every     *)
(* association, which copies the endpoint's values when it is created      *)
(* (sctp_init_asoc).  The association identifier of a call chooses between *)
(* them, differently for the one-to-one ("tcp") and the one-to-many        *)
(* ("udp") style.  The options that concern single paths are in            *)
(* PathManagement.                                                         *)
(*                                                                         *)
(* An option value is a small number, a set of bits or a record of those.  *)
(* Limits the code names (SCTP_MAX_SACK_DELAY, ...) are small constants.   *)
(***************************************************************************)
EXTENDS Integers, FiniteSets, TLC

CONSTANTS
  Assoc,      \* the association identifiers above SCTP_ALL_ASSOC
  Groups,     \* the sets of options exercised together, one set per behaviour
  Envs,       \* the values of env to start from
  MaxSet      \* bound on the calls of setsockopt in a behaviour

VARIABLES
  style,      \* "tcp" (TCPTYPE or IN_TCPPOOL) or "udp"
  env,        \* PCB flags about the local address, and system-wide switches that are on
  group,      \* the options this behaviour uses
  inp,        \* the endpoint's settings
  asoc,       \* the settings of each existing association
  queued,     \* the associations with user data that is not yet acknowledged
  locked,     \* the associations whose TCB lock some call did not give back
  ret,        \* the last call, its outcome, and what could be read before it
  sets        \* how many calls of setsockopt were made

vars == <<style, env, group, inp, asoc, queued, locked, ret, sets>>

SCTP_MAX_SACK_DELAY == 3
SCTP_CMT_MAX == 2
SCTP_MAX_COOKIE_LIFE == 4
SCTP_MIN_COOKIE_LIFE == 2
SCTP_MAX_VRF_ID == 0
SCTP_SB_LIMIT_RCV == 2
Mtu == 1200                             \* smallest_mtu of the association's paths
StreamOut == 2                          \* pre_open_streams and streamoutcnt
Policy == {"p1", "p2", "p4"}            \* the low bits of sinfo_flags
PR_SCTP_MAX == {"p1", "p2"}             \* SCTP_PR_SCTP_RTX = 3
Supported == {"idata", "ecn", "pr", "auth", "asconf", "reconfig", "nrsack", "pktdrop"}
Event == {"assoc", "dry"}               \* the event types of the model
Tcp == style = "tcp"
None == "none"

(***************************************************************************)
(* What the endpoint holds and what an association copies from it.         *)
(***************************************************************************)

(* sctp_set_rtcc_initial_cc_param: the tunables of the RTCC module. *)
RtccInitial == [mode |-> 0, ecn |-> 0, step |-> 1]

Settings ==
  [features |-> {}, cmt |-> 0, cc |-> "default", context |-> 0, burst |-> 1,
   strreset |-> {}, delay |-> 2, freq |-> 2, frag |-> 65535, def |->
   [stream |-> 0, flags |-> {}, ttl |-> 0], rto |-> [min |-> 1, init |-> 2, max |-> 3],
   cookie |-> 3, maxrxt |-> 2, sup |-> Supported \ {"idata"}, chunks |-> {"ASCONF"}]

Endpoint ==
  Settings @@ [autoclose |-> 0, pdpoint |-> 1, adaptation |-> 0, dbgseq |-> 0, vrf |-> 0,
               initmsg |-> [out |-> 1, in |-> 1], hmacs |-> {"SHA1"}]

(* sctp_init_asoc: the first part copies the feature words and limits. *)
CopiedLimits ==
  [features |-> inp.features, cmt |-> inp.cmt, sup |-> inp.sup, burst |-> inp.burst,
   cookie |-> inp.cookie, frag |-> inp.frag]

(* Mutant: the association starts from the built-in RTO bounds. *)
CopiedDefaultsStale ==
  [maxrxt |-> inp.maxrxt, context |-> inp.context, strreset |-> inp.strreset,
   def |-> inp.def, delay |-> inp.delay, freq |-> inp.freq, rto |-> Settings.rto]

(* sctp_init_asoc: retransmission limits, defaults for sending, delayed acks. *)
CopiedDefaults ==
  [maxrxt |-> inp.maxrxt, context |-> inp.context, strreset |-> inp.strreset,
   def |-> inp.def, delay |-> inp.delay, freq |-> inp.freq, rto |-> inp.rto]

(* sctp_init_asoc: the pluggable congestion control module, initialised. *)
CopiedModules == [cc |-> inp.cc, rtcc |-> RtccInitial]

(* sctp_initialize_auth_params: the chunks that must come authenticated. *)
CopiedChunks == [chunks |-> inp.chunks]

sctp_init_asoc == CopiedLimits @@ CopiedDefaults @@ CopiedModules @@ CopiedChunks

(***************************************************************************)
(* SCTP_FIND_STCB, and the three ways options use what it finds.           *)
(* A call is [opt, id, val]; an outcome is [err, inp, asoc, held, dry].    *)
(***************************************************************************)

Ok == [err |-> "ok", inp |-> inp, asoc |-> asoc, held |-> {}, dry |-> {}]
Fail(e) == [Ok EXCEPT !.err = e]

(* An error return that forgets SCTP_TCB_UNLOCK(stcb). *)
FailHeld(e, a) == [Ok EXCEPT !.err = e, !.held = {a}]

SCTP_FIND_STCB(id) ==
  IF Tcp THEN IF DOMAIN asoc = {} THEN None ELSE CHOOSE a \in DOMAIN asoc : TRUE
  ELSE IF id \in DOMAIN asoc THEN id ELSE None

NoSuchAssoc(id) == ~Tcp /\ id \in Assoc \ DOMAIN asoc

OnAssoc(a, F(_)) == [Ok EXCEPT !.asoc[a] = F(asoc[a])]
OnEndpoint(F(_)) == [Ok EXCEPT !.inp = F(inp)]

(* The association found, or else endpoint and/or all associations by id. *)
SetAll(id, F(_)) ==
  LET a == SCTP_FIND_STCB(id)
  IN IF NoSuchAssoc(id) THEN Fail("ENOENT")
     ELSE IF a # None THEN OnAssoc(a, F)
     ELSE [Ok EXCEPT
             !.inp = IF Tcp \/ id \in {"future", "all"} THEN F(inp) ELSE inp,
             !.asoc = IF id \in {"current", "all"}
                      THEN [b \in DOMAIN asoc |-> F(asoc[b])] ELSE asoc]

(* The association found, or else the endpoint; CURRENT and ALL are errors. *)
SetFuture(id, F(_)) ==
  LET a == SCTP_FIND_STCB(id)
  IN IF NoSuchAssoc(id) THEN Fail("ENOENT")
     ELSE IF a # None THEN OnAssoc(a, F)
     ELSE IF Tcp \/ id = "future" THEN OnEndpoint(F)
     ELSE Fail("EINVAL")

(* Only for associations to come: an error when an association is found. *)
SetEndpoint(id, F(_)) ==
  IF NoSuchAssoc(id) THEN Fail("ENOENT")
  ELSE IF SCTP_FIND_STCB(id) # None THEN Fail("EINVAL")
  ELSE IF Tcp \/ id = "future" THEN OnEndpoint(F)
  ELSE Fail("EINVAL")

Put(f, v, o) == [o EXCEPT ![f] = v]
Feature(name, on, o) ==
  [o EXCEPT !.features = IF on THEN @ \cup {name} ELSE @ \ {name}]

(***************************************************************************)
(* setsockopt: the options of the endpoint alone.                          *)
(***************************************************************************)

Flags == {"NODELAY", "AUTOCLOSE", "AUTO_ASCONF", "EXPLICIT_EOR", "DISABLE_FRAGMENTS",
          "USE_EXT_RCVINFO", "I_WANT_MAPPED_V4_ADDR"}

(* Mutant: the autoclose time is stored before the style is checked. *)
SetFlagEarly(c) ==
  IF c.opt = "AUTOCLOSE"
  THEN [OnEndpoint(LAMBDA o : Put("autoclose", c.val, o)) EXCEPT !.err = IF Tcp THEN "EINVAL" ELSE "ok"]
  ELSE OnEndpoint(LAMBDA o : Feature(c.opt, c.val # 0, o))

SetFlag(c) ==
  IF \/ c.opt = "AUTO_ASCONF" /\ "BOUNDALL" \notin env
     \/ c.opt = "I_WANT_MAPPED_V4_ADDR" /\ "V6" \notin env
     \/ c.opt = "AUTOCLOSE" /\ Tcp
  THEN Fail("EINVAL")
  ELSE IF c.opt = "AUTO_ASCONF" /\ "auto_asconf" \notin env /\ c.val # 0 THEN Fail("EPERM")
  ELSE OnEndpoint(LAMBDA o :
         LET p == IF c.opt = "AUTOCLOSE" THEN Put("autoclose", c.val, o) ELSE o
         IN Feature(c.opt, c.val # 0, p))

(* The code tests the pointer, not the value behind it. *)
SetReusePort(c) ==
  IF "UNBOUND" \notin env \/ ~Tcp THEN Fail("EINVAL")
  ELSE OnEndpoint(LAMBDA o : Feature("REUSE_PORT", TRUE, o))

SetPartialDeliveryPoint(c) ==
  IF c.val > SCTP_SB_LIMIT_RCV THEN Fail("EINVAL")
  ELSE OnEndpoint(LAMBDA o : Put("pdpoint", c.val, o))

SetFragmentInterleave(c) ==
  IF c.val \notin 0..2 THEN Fail("EINVAL")
  ELSE OnEndpoint(LAMBDA o :
         Feature("FRAG_INTERLEAVE", c.val >= 1, Feature("INTERLEAVE_STRMS", c.val = 2, o)))

SetVrfId(c) ==
  IF c.val > SCTP_MAX_VRF_ID THEN Fail("EINVAL")
  ELSE OnEndpoint(LAMBDA o : Put("vrf", c.val, o))

SetAdaptationLayer(c) == OnEndpoint(LAMBDA o : Put("adaptation", c.val, o))

SetInitialDbgSeq(c) == OnEndpoint(LAMBDA o : Put("dbgseq", c.val, o))

KeepZero(new, old) == [f \in DOMAIN old |-> IF new[f] = 0 THEN old[f] ELSE new[f]]

SetInitMsg(c) == OnEndpoint(LAMBDA o : Put("initmsg", KeepZero(c.val, o.initmsg), o))

SetRecvRcvInfo(c) == OnEndpoint(LAMBDA o : Feature("RECVRCVINFO", c.val # 0, o))

SetRecvNxtInfo(c) == OnEndpoint(LAMBDA o : Feature("RECVNXTINFO", c.val # 0, o))

sctp_auth_add_chunk(ch, list) == IF ch = "INIT" THEN list ELSE list \cup {ch}

sctp_auth_delete_chunk(ch, list) == list \ {ch}

SetAuthChunk(c) ==
  IF c.val = "INIT" THEN Fail("EINVAL")
  ELSE OnEndpoint(LAMBDA o : Put("chunks", sctp_auth_add_chunk(c.val, o.chunks), o))

(* Every identifier must be known, and SHA1 among them. *)
SetHmacIdent(c) ==
  IF c.val \subseteq {"SHA1", "SHA256"} /\ "SHA1" \in c.val
  THEN OnEndpoint(LAMBDA o : Put("hmacs", c.val, o))
  ELSE Fail("EINVAL")

(***************************************************************************)
(* setsockopt: what only associations to come can change.                  *)
(***************************************************************************)

Support(name, c) ==
  SetEndpoint(c.id, LAMBDA o :
    [o EXCEPT !.sup = IF c.val # 0 THEN @ \cup {name} ELSE @ \ {name}])

SetInterleavingSupported(c) ==
  LET r == Support("idata", c)
  IN IF r.err = "ok" /\ c.val # 0 /\ ~({"FRAG_INTERLEAVE", "INTERLEAVE_STRMS"} \subseteq inp.features)
     THEN Fail("EINVAL") ELSE r

SetEcnSupported(c) == Support("ecn", c)

SetPrSupported(c) == Support("pr", c)

SetReconfigSupported(c) == Support("reconfig", c)

SetNrsackSupported(c) == Support("nrsack", c)

SetPktdropSupported(c) == Support("pktdrop", c)

(* Mutant: does not ask whether ASCONF relies on it. *)
SetAuthSupportedUnchecked(c) == Support("auth", c)

SetAuthSupported(c) ==
  LET r == Support("auth", c)
  IN IF r.err = "ok" /\ c.val = 0 /\ "asconf" \in inp.sup THEN Fail("EINVAL") ELSE r

SetAsconfSupported(c) ==
  LET r == Support("asconf", c)
  IN IF r.err # "ok" THEN r
     ELSE IF c.val # 0 /\ "auth" \notin inp.sup THEN Fail("EINVAL")
     ELSE [r EXCEPT !.inp.chunks = IF c.val # 0 THEN sctp_auth_add_chunk("ASCONF", @)
                                   ELSE sctp_auth_delete_chunk("ASCONF", @)]

(***************************************************************************)
(* setsockopt: an association, the endpoint, or all of them.               *)
(***************************************************************************)

SetCmtOnOff(c) ==
  IF "cmt" \notin env THEN Fail("ENOPROTOOPT")
  ELSE IF c.val > SCTP_CMT_MAX THEN Fail("EINVAL")
  ELSE SetAll(c.id, LAMBDA o : Put("cmt", c.val, o))

(* On an association the module also initialises its state of every path. *)
SetPluggableCc(c) ==
  IF c.val \notin {"default", "htcp", "rtcc"} THEN Fail("EINVAL")
  ELSE SetAll(c.id, LAMBDA o :
         LET p == Put("cc", c.val, o)
         IN IF "rtcc" \in DOMAIN o THEN Put("rtcc", RtccInitial, p) ELSE p)

(* sctp_cwnd_rtcc_socket_option, setting. *)
RtccRefuses(c) ==
  \/ c.val.option \notin DOMAIN RtccInitial
  \/ c.val.option # "step" /\ c.val.value \notin {0, 1}

RtccSet(c, o) ==
  IF o.cc = "rtcc" /\ ~RtccRefuses(c) THEN [o EXCEPT !.rtcc[c.val.option] = c.val.value] ELSE o

SetCcOption(c) ==
  LET a == SCTP_FIND_STCB(c.id)
  IN IF NoSuchAssoc(c.id) THEN Fail("ENOENT")
     ELSE IF a = None
     THEN IF c.id = "current"
          THEN [Ok EXCEPT !.asoc = [b \in DOMAIN asoc |-> RtccSet(c, asoc[b])]]
          ELSE Fail("EINVAL")
     ELSE IF asoc[a].cc # "rtcc" THEN Fail("ENOTSUP")
     ELSE IF RtccRefuses(c) THEN Fail("EINVAL")
     ELSE OnAssoc(a, LAMBDA o : RtccSet(c, o))

(* Mutant: FUTURE also changes the associations there are. *)
SetContextWide(c) ==
  [SetAll(c.id, LAMBDA o : Put("context", c.val, o)) EXCEPT
     !.asoc = [b \in DOMAIN @ |-> IF c.id = "future" THEN Put("context", c.val, @[b]) ELSE @[b]]]

SetContext(c) == SetAll(c.id, LAMBDA o : Put("context", c.val, o))

SetMaxBurst(c) == SetAll(c.id, LAMBDA o : Put("burst", c.val, o))

SetEnableStreamReset(c) ==
  IF ~(c.val \subseteq {"reset", "assoc", "change"}) THEN Fail("EINVAL")
  ELSE SetAll(c.id, LAMBDA o : Put("strreset", c.val, o))

(* Mutant: no upper bound on the delay. *)
SetDelayedSackUnbounded(c) ==
  SetAll(c.id, LAMBDA o : [o EXCEPT !.delay = IF c.val.delay = 0 THEN @ ELSE c.val.delay,
                                    !.freq = IF c.val.freq = 0 THEN @ ELSE c.val.freq])

SetDelayedSack(c) ==
  LET delay == IF c.val.delay > SCTP_MAX_SACK_DELAY THEN SCTP_MAX_SACK_DELAY ELSE c.val.delay
  IN SetAll(c.id, LAMBDA o : [o EXCEPT !.delay = IF delay = 0 THEN @ ELSE delay,
                                       !.freq = IF c.val.freq = 0 THEN @ ELSE c.val.freq])

(* An association refuses a stream it does not have; the endpoint takes any, *)
(* and the walk over all associations skips the ones that would refuse.      *)
SetDefault(c, F(_)) ==
  LET a == SCTP_FIND_STCB(c.id)
      r == SetAll(c.id, F)
  IN IF r.err # "ok" \/ c.val.stream < StreamOut THEN r
     ELSE IF a # None THEN Fail("EINVAL")
     ELSE [r EXCEPT !.asoc = asoc]

(* Mutant: the refusal keeps the lock. *)
SetDefaultSendParamHeld(c) ==
  LET a == SCTP_FIND_STCB(c.id)
  IN IF a # None /\ c.val.stream >= StreamOut THEN FailHeld("EINVAL", a)
     ELSE SetDefault(c, LAMBDA o : Put("def", c.val, o))

SetDefaultSendParam(c) == SetDefault(c, LAMBDA o : Put("def", c.val, o))

(* Keeps the partial-reliability policy: its bits are added to the flags. *)
SetDefaultSndinfo(c) ==
  SetDefault(c, LAMBDA o :
    [o EXCEPT !.def.stream = c.val.stream,
              !.def.flags = c.val.flags \cup (@ \cap Policy)])

SetDefaultPrinfo(c) ==
  LET a == SCTP_FIND_STCB(c.id)
  IN IF NoSuchAssoc(c.id) THEN Fail("ENOENT")
     ELSE IF ~(c.val.flags \subseteq PR_SCTP_MAX)
     THEN IF a = None THEN Fail("EINVAL") ELSE FailHeld("EINVAL", a)
     ELSE SetAll(c.id, LAMBDA o :
            [o EXCEPT !.def.flags = (@ \ Policy) \cup c.val.flags, !.def.ttl = c.val.ttl])

Overhead == IF "V6" \in env THEN 68 ELSE 48     \* SCTP_MED_OVERHEAD, SCTP_MED_V4_OVERHEAD
SCTP_DEFAULT_MAXSEGMENT == 65535

SetMaxSeg(c) ==
  SetFuture(c.id, LAMBDA o :
    Put("frag", IF c.val = 0 THEN SCTP_DEFAULT_MAXSEGMENT ELSE c.val + Overhead, o))

(* Mutant: the values passed are compared, not the ones that result. *)
SetRtoInfoPassed(c) ==
  IF c.val.min <= c.val.init /\ c.val.init <= c.val.max
  THEN SetFuture(c.id, LAMBDA o : Put("rto", KeepZero(c.val, o.rto), o))
  ELSE Fail("EINVAL")

SetRtoInfo(c) ==
  LET New(o) == KeepZero(c.val, o.rto)
      Bad(o) == ~(New(o).min <= New(o).init /\ New(o).init <= New(o).max)
      a == SCTP_FIND_STCB(c.id)
      r == SetFuture(c.id, LAMBDA o : Put("rto", New(o), o))
  IN IF r.err = "ok" /\ Bad(IF a = None THEN inp ELSE asoc[a]) THEN Fail("EINVAL") ELSE r

SetAssocInfo(c) ==
  LET life == IF c.val.cookie > SCTP_MAX_COOKIE_LIFE THEN SCTP_MAX_COOKIE_LIFE
              ELSE IF c.val.cookie < SCTP_MIN_COOKIE_LIFE THEN SCTP_MIN_COOKIE_LIFE
              ELSE c.val.cookie
  IN SetFuture(c.id, LAMBDA o :
       [o EXCEPT !.cookie = IF c.val.cookie = 0 THEN @ ELSE life,
                 !.maxrxt = IF c.val.maxrxt = 0 THEN @ ELSE c.val.maxrxt])

(***************************************************************************)
(* setsockopt: event subscriptions.                                        *)
(***************************************************************************)

Subscribe(set, o) == [o EXCEPT !.features = (@ \ Event) \cup set]

(* The endpoint first, then every association; the dry event is reported   *)
(* at once on a one-to-one socket that has nothing queued.                 *)
EventsOnEndpoint(c) == Subscribe(c.val, inp)

EventsOnAssociations(c) == [b \in DOMAIN asoc |-> Subscribe(c.val, asoc[b])]

(* Mutant: subscribing with empty queues reports nothing. *)
SetEventsSilent(c) ==
  [Ok EXCEPT !.inp = EventsOnEndpoint(c), !.asoc = EventsOnAssociations(c)]

SetEvents(c) ==
  [Ok EXCEPT !.inp = EventsOnEndpoint(c),
             !.asoc = EventsOnAssociations(c),
             !.dry = IF "dry" \in c.val /\ Tcp THEN DOMAIN asoc \ queued ELSE {}]

EventError(type) == CASE type \in Event -> "ok" [] type = "stopped" -> "ENOTSUP" [] OTHER -> "EINVAL"

SetEvent(c) ==
  LET a == SCTP_FIND_STCB(c.id)
      type == c.val.type
  IN IF NoSuchAssoc(c.id) THEN Fail("ENOENT")
     ELSE IF type \notin Event
     THEN IF a = None THEN Fail(EventError(type)) ELSE FailHeld(EventError(type), a)
     ELSE IF a = None /\ type = "dry" /\ ~Tcp /\ c.id \in {"all", "current"} THEN Fail("ENOTSUP")
     ELSE [SetAll(c.id, LAMBDA o : Feature(type, c.val.on, o)) EXCEPT
             !.dry = IF type = "dry" /\ c.val.on THEN {a} \cap (DOMAIN asoc \ queued) ELSE {}]

(***************************************************************************)
(* getsockopt.  An outcome is [err, val, held].                            *)
(***************************************************************************)

Out(v) == [err |-> "ok", val |-> v, held |-> {}]
NoOut(e) == [err |-> e, val |-> None, held |-> {}]

(* The association found, or else the endpoint for FUTURE and one-to-one. *)
GetScoped(id, V(_)) ==
  LET a == SCTP_FIND_STCB(id)
  IN IF NoSuchAssoc(id) THEN NoOut("ENOENT")
     ELSE IF a # None THEN Out(V(asoc[a]))
     ELSE IF Tcp \/ id = "future" THEN Out(V(inp))
     ELSE NoOut("EINVAL")

(* Only of an association. *)
GetAssoc(id, e, V(_)) ==
  LET a == SCTP_FIND_STCB(id)
  IN IF NoSuchAssoc(id) THEN NoOut("ENOENT")
     ELSE IF a = None THEN NoOut(e)
     ELSE Out(V(a))

On(b) == IF b THEN 1 ELSE 0

GetFlag(c) ==
  IF c.opt = "AUTO_ASCONF" /\ "BOUNDALL" \notin env THEN NoOut("EINVAL")
  ELSE IF c.opt = "AUTOCLOSE" THEN Out(On("AUTOCLOSE" \in inp.features) * inp.autoclose)
  ELSE Out(On(c.opt \in inp.features))

GetReusePort(c) == IF ~Tcp THEN NoOut("EINVAL") ELSE Out(On("REUSE_PORT" \in inp.features))

GetPartialDeliveryPoint(c) == Out(inp.pdpoint)

GetFragmentInterleave(c) ==
  Out(IF "FRAG_INTERLEAVE" \notin inp.features THEN 0
      ELSE 1 + On("INTERLEAVE_STRMS" \in inp.features))

GetVrfId(c) == Out(inp.vrf)

GetAdaptationLayer(c) == Out(inp.adaptation)

GetInitialDbgSeq(c) == Out(inp.dbgseq)

GetInitMsg(c) == Out(inp.initmsg)

GetRecvRcvInfo(c) == Out(On("RECVRCVINFO" \in inp.features))

GetRecvNxtInfo(c) == Out(On("RECVNXTINFO" \in inp.features))

GetHmacIdent(c) == Out(inp.hmacs)

GetInterleavingSupported(c) == GetScoped(c.id, LAMBDA o : On("idata" \in o.sup))

GetEcnSupported(c) == GetScoped(c.id, LAMBDA o : On("ecn" \in o.sup))

GetPrSupported(c) == GetScoped(c.id, LAMBDA o : On("pr" \in o.sup))

GetAuthSupported(c) == GetScoped(c.id, LAMBDA o : On("auth" \in o.sup))

GetAsconfSupported(c) == GetScoped(c.id, LAMBDA o : On("asconf" \in o.sup))

GetReconfigSupported(c) == GetScoped(c.id, LAMBDA o : On("reconfig" \in o.sup))

GetNrsackSupported(c) == GetScoped(c.id, LAMBDA o : On("nrsack" \in o.sup))

GetPktdropSupported(c) == GetScoped(c.id, LAMBDA o : On("pktdrop" \in o.sup))

GetCmtOnOff(c) == GetScoped(c.id, LAMBDA o : o.cmt)

GetPluggableCc(c) == GetScoped(c.id, LAMBDA o : o.cc)

(* sctp_cwnd_rtcc_socket_option, reading. *)
RtccGet(c, o) ==
  IF c.val.option \in DOMAIN RtccInitial THEN Out(o.rtcc[c.val.option]) ELSE NoOut("EINVAL")

GetCcOption(c) ==
  LET a == SCTP_FIND_STCB(c.id)
  IN IF NoSuchAssoc(c.id) THEN NoOut("ENOENT")
     ELSE IF a = None THEN NoOut("EINVAL")
     ELSE IF asoc[a].cc # "rtcc" THEN NoOut("ENOTSUP")
     ELSE RtccGet(c, asoc[a])

GetContext(c) == GetScoped(c.id, LAMBDA o : o.context)

GetMaxBurst(c) == GetScoped(c.id, LAMBDA o : o.burst)

GetEnableStreamReset(c) == GetScoped(c.id, LAMBDA o : o.strreset)

GetDelayedSack(c) == GetScoped(c.id, LAMBDA o : [delay |-> o.delay, freq |-> o.freq])

GetDefaultSendParam(c) == GetScoped(c.id, LAMBDA o : o.def)

GetDefaultSndinfo(c) ==
  GetScoped(c.id, LAMBDA o : [stream |-> o.def.stream, flags |-> o.def.flags \ Policy])

GetDefaultPrinfo(c) ==
  GetScoped(c.id, LAMBDA o : [flags |-> o.def.flags \cap Policy, ttl |-> o.def.ttl])

(* The size of the user data that fits one packet, in whole words. *)
sctp_get_frag_point(o) ==
  LET size == (IF o.frag > Mtu THEN Mtu ELSE o.frag) - Overhead - (IF "idata" \in o.sup THEN 4 ELSE 0)
  IN size - (size % 4)

GetMaxSeg(c) ==
  LET a == SCTP_FIND_STCB(c.id)
  IN GetScoped(c.id, LAMBDA o :
       IF a # None THEN sctp_get_frag_point(o)
       ELSE IF o.frag >= SCTP_DEFAULT_MAXSEGMENT THEN 0 ELSE o.frag - Overhead)

GetRtoInfo(c) == GetScoped(c.id, LAMBDA o : o.rto)

GetAssocInfo(c) == GetScoped(c.id, LAMBDA o : [cookie |-> o.cookie, maxrxt |-> o.maxrxt])

GetEvents(c) == Out(inp.features \cap Event)

GetEvent(c) ==
  LET a == SCTP_FIND_STCB(c.id)
      type == c.val.type
  IN IF NoSuchAssoc(c.id) THEN NoOut("ENOENT")
     ELSE IF type \notin Event
     THEN [NoOut(EventError(type)) EXCEPT !.held = {a} \ {None}]
     ELSE GetScoped(c.id, LAMBDA o : type \in o.features)

GetLocalAuthChunks(c) == GetScoped(c.id, LAMBDA o : o.chunks)

(***************************************************************************)
(* getsockopt: what describes an association, or counts them.              *)
(***************************************************************************)

(* Returns without SCTP_TCB_UNLOCK(stcb). *)
GetAsocVrf(c) ==
  [GetAssoc(c.id, "EINVAL", LAMBDA a : 0) EXCEPT !.held = {SCTP_FIND_STCB(c.id)} \ {None}]

GetNonceValues(c) == GetAssoc(c.id, "ENOTCONN", LAMBDA a : a)

GetSndbufUse(c) == GetAssoc(c.id, "ENOTCONN", LAMBDA a : On(a \in queued))

GetStatus(c) == GetAssoc(c.id, "EINVAL", LAMBDA a : sctp_get_frag_point(asoc[a]))

GetTimeouts(c) == GetAssoc(c.id, "EINVAL", LAMBDA a : a)

PrStatus(c, good) ==
  LET a == SCTP_FIND_STCB(c.id)
  IN IF NoSuchAssoc(c.id) THEN NoOut("ENOENT")
     ELSE IF a = None THEN NoOut("EINVAL")
     ELSE IF good THEN Out(a)
     ELSE [NoOut("EINVAL") EXCEPT !.held = {a}]

GetPrStreamStatus(c) == PrStatus(c, c.val.stream < StreamOut /\ c.val.policy = "all")

GetPrAssocStatus(c) == PrStatus(c, c.val.policy \in {"all", "ttl"})

GetAssocNumber(c) == IF Tcp THEN NoOut("EINVAL") ELSE Out(Cardinality(DOMAIN asoc))

(* The caller's buffer has room for c.val identifiers. *)
GetAssocIdList(c) ==
  IF Tcp \/ Cardinality(DOMAIN asoc) > c.val THEN NoOut("EINVAL") ELSE Out(DOMAIN asoc)

(***************************************************************************)
(* The two switches, and the values a caller passes.                       *)
(***************************************************************************)

sctp_setopt(c) ==
  CASE c.opt \in Flags -> SetFlag(c)
    [] c.opt = "REUSE_PORT" -> SetReusePort(c)
    [] c.opt = "PARTIAL_DELIVERY_POINT" -> SetPartialDeliveryPoint(c)
    [] c.opt = "FRAGMENT_INTERLEAVE" -> SetFragmentInterleave(c)
    [] c.opt = "VRF_ID" -> SetVrfId(c)
    [] c.opt = "ADAPTATION_LAYER" -> SetAdaptationLayer(c)
    [] c.opt = "SET_INITIAL_DBG_SEQ" -> SetInitialDbgSeq(c)
    [] c.opt = "INITMSG" -> SetInitMsg(c)
    [] c.opt = "RECVRCVINFO" -> SetRecvRcvInfo(c)
    [] c.opt = "RECVNXTINFO" -> SetRecvNxtInfo(c)
    [] c.opt = "AUTH_CHUNK" -> SetAuthChunk(c)
    [] c.opt = "HMAC_IDENT" -> SetHmacIdent(c)
    [] c.opt = "INTERLEAVING_SUPPORTED" -> SetInterleavingSupported(c)
    [] c.opt = "ECN_SUPPORTED" -> SetEcnSupported(c)
    [] c.opt = "PR_SUPPORTED" -> SetPrSupported(c)
    [] c.opt = "AUTH_SUPPORTED" -> SetAuthSupported(c)
    [] c.opt = "ASCONF_SUPPORTED" -> SetAsconfSupported(c)
    [] c.opt = "RECONFIG_SUPPORTED" -> SetReconfigSupported(c)
    [] c.opt = "NRSACK_SUPPORTED" -> SetNrsackSupported(c)
    [] c.opt = "PKTDROP_SUPPORTED" -> SetPktdropSupported(c)
    [] c.opt = "CMT_ON_OFF" -> SetCmtOnOff(c)
    [] c.opt = "PLUGGABLE_CC" -> SetPluggableCc(c)
    [] c.opt = "CC_OPTION" -> SetCcOption(c)
    [] c.opt = "CONTEXT" -> SetContext(c)
    [] c.opt = "MAX_BURST" -> SetMaxBurst(c)
    [] c.opt = "ENABLE_STREAM_RESET" -> SetEnableStreamReset(c)
    [] c.opt = "DELAYED_SACK" -> SetDelayedSack(c)
    [] c.opt = "DEFAULT_SEND_PARAM" -> SetDefaultSendParam(c)
    [] c.opt = "DEFAULT_SNDINFO" -> SetDefaultSndinfo(c)
    [] c.opt = "DEFAULT_PRINFO" -> SetDefaultPrinfo(c)
    [] c.opt = "MAXSEG" -> SetMaxSeg(c)
    [] c.opt = "RTOINFO" -> SetRtoInfo(c)
    [] c.opt = "ASSOCINFO" -> SetAssocInfo(c)
    [] c.opt = "EVENTS" -> SetEvents(c)
    [] c.opt = "EVENT" -> SetEvent(c)
    [] OTHER -> Fail("ENOPROTOOPT")

sctp_getopt(c) ==
  CASE c.opt \in Flags -> GetFlag(c)
    [] c.opt = "REUSE_PORT" -> GetReusePort(c)
    [] c.opt = "PARTIAL_DELIVERY_POINT" -> GetPartialDeliveryPoint(c)
    [] c.opt = "FRAGMENT_INTERLEAVE" -> GetFragmentInterleave(c)
    [] c.opt = "VRF_ID" -> GetVrfId(c)
    [] c.opt = "ADAPTATION_LAYER" -> GetAdaptationLayer(c)
    [] c.opt = "SET_INITIAL_DBG_SEQ" -> GetInitialDbgSeq(c)
    [] c.opt = "INITMSG" -> GetInitMsg(c)
    [] c.opt = "RECVRCVINFO" -> GetRecvRcvInfo(c)
    [] c.opt = "RECVNXTINFO" -> GetRecvNxtInfo(c)
    [] c.opt = "AUTH_CHUNK" -> GetLocalAuthChunks(c)      \* read as LOCAL_AUTH_CHUNKS
    [] c.opt = "HMAC_IDENT" -> GetHmacIdent(c)
    [] c.opt = "INTERLEAVING_SUPPORTED" -> GetInterleavingSupported(c)
    [] c.opt = "ECN_SUPPORTED" -> GetEcnSupported(c)
    [] c.opt = "PR_SUPPORTED" -> GetPrSupported(c)
    [] c.opt = "AUTH_SUPPORTED" -> GetAuthSupported(c)
    [] c.opt = "ASCONF_SUPPORTED" -> GetAsconfSupported(c)
    [] c.opt = "RECONFIG_SUPPORTED" -> GetReconfigSupported(c)
    [] c.opt = "NRSACK_SUPPORTED" -> GetNrsackSupported(c)
    [] c.opt = "PKTDROP_SUPPORTED" -> GetPktdropSupported(c)
    [] c.opt = "CMT_ON_OFF" -> GetCmtOnOff(c)
    [] c.opt = "PLUGGABLE_CC" -> GetPluggableCc(c)
    [] c.opt = "CC_OPTION" -> GetCcOption(c)
    [] c.opt = "CONTEXT" -> GetContext(c)
    [] c.opt = "MAX_BURST" -> GetMaxBurst(c)
    [] c.opt = "ENABLE_STREAM_RESET" -> GetEnableStreamReset(c)
    [] c.opt = "DELAYED_SACK" -> GetDelayedSack(c)
    [] c.opt = "DEFAULT_SEND_PARAM" -> GetDefaultSendParam(c)
    [] c.opt = "DEFAULT_SNDINFO" -> GetDefaultSndinfo(c)
    [] c.opt = "DEFAULT_PRINFO" -> GetDefaultPrinfo(c)
    [] c.opt = "MAXSEG" -> GetMaxSeg(c)
    [] c.opt = "RTOINFO" -> GetRtoInfo(c)
    [] c.opt = "ASSOCINFO" -> GetAssocInfo(c)
    [] c.opt = "EVENTS" -> GetEvents(c)
    [] c.opt = "EVENT" -> GetEvent(c)
    [] c.opt = "GET_ASOC_VRF" -> GetAsocVrf(c)
    [] c.opt = "GET_NONCE_VALUES" -> GetNonceValues(c)
    [] c.opt = "GET_SNDBUF_USE" -> GetSndbufUse(c)
    [] c.opt = "STATUS" -> GetStatus(c)
    [] c.opt = "TIMEOUTS" -> GetTimeouts(c)
    [] c.opt = "PR_STREAM_STATUS" -> GetPrStreamStatus(c)
    [] c.opt = "PR_ASSOC_STATUS" -> GetPrAssocStatus(c)
    [] c.opt = "GET_ASSOC_NUMBER" -> GetAssocNumber(c)
    [] c.opt = "GET_ASSOC_ID_LIST" -> GetAssocIdList(c)
    [] OTHER -> NoOut("ENOPROTOOPT")

EndpointOptions ==
  Flags \cup {"REUSE_PORT", "PARTIAL_DELIVERY_POINT", "FRAGMENT_INTERLEAVE", "VRF_ID",
    "ADAPTATION_LAYER", "SET_INITIAL_DBG_SEQ", "INITMSG", "RECVRCVINFO", "RECVNXTINFO",
    "AUTH_CHUNK", "HMAC_IDENT", "EVENTS", "GET_ASSOC_NUMBER", "GET_ASSOC_ID_LIST"}

ReadOnly == {"GET_ASOC_VRF", "GET_NONCE_VALUES", "GET_SNDBUF_USE", "STATUS", "TIMEOUTS",
             "PR_STREAM_STATUS", "PR_ASSOC_STATUS", "GET_ASSOC_NUMBER", "GET_ASSOC_ID_LIST"}

Ids(opt) == IF opt \in EndpointOptions THEN {"future"} ELSE {"future", "current", "all"} \cup Assoc

Values(opt) ==
  CASE opt \in {"PARTIAL_DELIVERY_POINT", "FRAGMENT_INTERLEAVE", "CMT_ON_OFF"} -> 0..3
    [] opt = "AUTH_CHUNK" -> {"INIT", "ASCONF", "DATA"}
    [] opt = "HMAC_IDENT" -> {{"SHA1"}, {"SHA1", "SHA256"}, {"SHA256"}, {"SHA1", "MD5"}}
    [] opt = "INITMSG" -> [out : {0, 2}, in : {0, 2}]
    [] opt = "PLUGGABLE_CC" -> {"default", "htcp", "rtcc", "none"}
    [] opt = "CC_OPTION" -> [option : {"mode", "step", "other"}, value : {1, 2}]
    [] opt = "ENABLE_STREAM_RESET" -> {{}, {"reset", "change"}, {"reset", "other"}}
    [] opt = "DELAYED_SACK" -> [delay : {0, 1, 4}, freq : 0..1]
    [] opt = "DEFAULT_SEND_PARAM" ->
         [stream : {0, StreamOut}, flags : {{"unordered", "p1"}}, ttl : {1}]
    [] opt = "DEFAULT_SNDINFO" -> [stream : {1, StreamOut}, flags : {{}, {"unordered"}}]
    [] opt = "DEFAULT_PRINFO" -> [flags : {{"p2"}, {"p4"}}, ttl : {2}]
    [] opt = "MAXSEG" -> {0, 6, 1300, 65535}
    [] opt = "RTOINFO" -> [min : {0, 1, 3}, init : {0, 3}, max : {0, 1, 3}]
    [] opt = "ASSOCINFO" -> [cookie : {0, 1, 5}, maxrxt : 0..1]
    [] opt = "EVENTS" -> SUBSET Event
    [] opt = "EVENT" -> [type : Event \cup {"stopped", "unknown"}, on : BOOLEAN]
    [] opt \in {"PR_STREAM_STATUS", "PR_ASSOC_STATUS"} ->
         [stream : {0, StreamOut}, policy : {"all", "ttl", "none"}]
    [] OTHER -> 0..2

(***************************************************************************)
(* The steps: a call from the user, and an association's life around it.   *)
(***************************************************************************)

Call(opt, id, val) == [opt |-> opt, id |-> id, val |-> val]

(* What ret holds after a step that sets no option. *)
Idle(dry) == [kind |-> "idle", call |-> Call("none", "future", 0), err |-> "ok", held |-> {},
              dry |-> dry, old |-> <<>>]

(* What each identifier reads for the option and value of a call. *)
Reads(c) == [i \in {"future"} \cup DOMAIN asoc |-> sctp_getopt([c EXCEPT !.id = i])]

(* A TCB lock that was not given back stops the next thread that takes it. *)
Waits(c) ==
  \/ c.opt \notin EndpointOptions /\ SCTP_FIND_STCB(c.id) \in locked
  \/ (c.opt = "EVENTS" \/ c.id \in {"current", "all"}) /\ locked # {}

usrsctp_setsockopt(c) ==
  LET r == sctp_setopt(c)
  IN /\ c.opt \notin ReadOnly
     /\ sets < MaxSet
     /\ ~Waits(c)
     /\ inp' = r.inp
     /\ asoc' = r.asoc
     /\ locked' = locked \cup r.held
     /\ ret' = [kind |-> "set", call |-> c, err |-> r.err, held |-> r.held, dry |-> r.dry,
                old |-> Reads(c)]
     /\ sets' = sets + 1
     /\ UNCHANGED <<style, env, group, queued>>

usrsctp_getsockopt(c) ==
  LET r == sctp_getopt(c)
  IN /\ ~Waits(c)
     /\ locked' = locked \cup r.held
     /\ ret' = [Idle({}) EXCEPT !.kind = "get", !.call.opt = c.opt, !.err = r.err, !.held = r.held]
     /\ UNCHANGED <<style, env, group, inp, asoc, queued, sets>>

(* An association is set up, by either side: the endpoint is bound by then. *)
NewAssociation(a) ==
  /\ a \notin DOMAIN asoc
  /\ Tcp => DOMAIN asoc = {}
  /\ asoc' = asoc @@ (a :> sctp_init_asoc)
  /\ env' = env \ {"UNBOUND"}
  /\ ret' = [kind |-> "new", call |-> Call("none", a, 0), err |-> "ok", held |-> {}, dry |-> {},
             old |-> [o \in group |-> [v \in Values(o) |-> sctp_getopt(Call(o, "future", v))]]]
  /\ UNCHANGED <<style, group, inp, queued, locked, sets>>

FreeAssociation(a) ==
  /\ a \in DOMAIN asoc \ locked
  /\ asoc' = [b \in DOMAIN asoc \ {a} |-> asoc[b]]
  /\ queued' = queued \ {a}
  /\ ret' = Idle({})
  /\ UNCHANGED <<style, env, group, inp, locked, sets>>

(* The user sends a message. *)
QueueData(a) ==
  /\ a \in DOMAIN asoc \ (locked \cup queued)
  /\ queued' = queued \cup {a}
  /\ ret' = Idle({})
  /\ UNCHANGED <<style, env, group, inp, asoc, locked, sets>>

(* A SACK that empties the queues tells a subscribed user the sender is dry. *)
SackEmptiesQueues(a) ==
  /\ a \in queued \ locked
  /\ queued' = queued \ {a}
  /\ ret' = Idle(IF "dry" \in asoc[a].features THEN {a} ELSE {})
  /\ UNCHANGED <<style, env, group, inp, asoc, locked, sets>>

(* The options that look at env; for the others one value of it is enough. *)
EnvOptions == {"AUTO_ASCONF", "I_WANT_MAPPED_V4_ADDR", "REUSE_PORT", "CMT_ON_OFF", "MAXSEG"}

Init ==
  /\ style \in {"tcp", "udp"}
  /\ group \in Groups
  /\ env \in IF group \cap EnvOptions # {} THEN Envs ELSE {CHOOSE e \in Envs : TRUE}
  /\ inp = Endpoint
  /\ asoc = [a \in {} |-> sctp_init_asoc]
  /\ queued = {}
  /\ locked = {}
  /\ ret = Idle({})
  /\ sets = 0

SetOption ==
  \E o \in group : \E i \in Ids(o), v \in Values(o) : usrsctp_setsockopt(Call(o, i, v))

GetOption ==
  \E o \in group : \E i \in Ids(o), v \in Values(o) : usrsctp_getsockopt(Call(o, i, v))

Next ==
  \/ SetOption
  \/ GetOption
  \/ \E a \in Assoc :
       \/ NewAssociation(a)
       \/ FreeAssociation(a)
       \/ group \cap {"EVENT", "EVENTS", "GET_SNDBUF_USE"} # {} /\ QueueData(a)
       \/ SackEmptiesQueues(a)

Spec == Init /\ [][Next]_vars

(***************************************************************************)
(* Properties                                                              *)
(***************************************************************************)

Objects == {inp} \cup {asoc[a] : a \in DOMAIN asoc}

TypeOK ==
  /\ style \in {"tcp", "udp"}
  /\ group \in Groups
  /\ DOMAIN asoc \subseteq Assoc
  /\ queued \subseteq DOMAIN asoc
  /\ locked \subseteq DOMAIN asoc
  /\ DOMAIN inp = DOMAIN Endpoint
  /\ \A a \in DOMAIN asoc : DOMAIN asoc[a] = DOMAIN Settings \cup {"rtcc"}
  /\ \A o \in Objects : o.delay \in 1..SCTP_MAX_SACK_DELAY

(* The identifiers through which a call's effect is read. *)
Reached(c) ==
  IF c.opt = "AUTH_CHUNK" THEN IF Tcp /\ DOMAIN asoc # {} THEN {} ELSE {"future"}
  ELSE IF Tcp \/ c.opt \in EndpointOptions \/ c.id = "all" THEN DOMAIN ret.old
  ELSE IF c.id = "current" THEN DOMAIN ret.old \ {"future"}
  ELSE {c.id} \cap DOMAIN ret.old

(* A walk over all associations drops the errors of the single ones. *)
SilentlySkipped(c) ==
  /\ c.id \in {"all", "current"}
  /\ \/ c.opt = "CC_OPTION" /\ RtccRefuses(c)
     \/ c.opt \in {"DEFAULT_SEND_PARAM", "DEFAULT_SNDINFO"} /\ c.val.stream >= StreamOut

Least(x, y) == IF x < y THEN x ELSE y

(* What a read must give after the call, from what it gave before. *)
Expected(c, i, old) ==
  CASE c.opt \in {"INITMSG", "RTOINFO"} -> KeepZero(c.val, old)
    [] c.opt = "DELAYED_SACK" ->
         KeepZero([c.val EXCEPT !.delay = Least(@, SCTP_MAX_SACK_DELAY)], old)
    [] c.opt = "ASSOCINFO" ->
         KeepZero([c.val EXCEPT !.cookie =
                     IF @ = 0 THEN 0 ELSE Least(IF @ < SCTP_MIN_COOKIE_LIFE THEN SCTP_MIN_COOKIE_LIFE
                                                ELSE @, SCTP_MAX_COOKIE_LIFE)], old)
    [] c.opt \in (Flags \ {"AUTOCLOSE"}) \cup {"RECVRCVINFO", "RECVNXTINFO", "ECN_SUPPORTED",
         "PR_SUPPORTED", "AUTH_SUPPORTED", "ASCONF_SUPPORTED", "RECONFIG_SUPPORTED",
         "NRSACK_SUPPORTED", "PKTDROP_SUPPORTED", "INTERLEAVING_SUPPORTED"} -> On(c.val # 0)
    [] c.opt = "REUSE_PORT" -> 1
    [] c.opt = "AUTH_CHUNK" -> old \cup {c.val}
    [] c.opt = "EVENT" -> c.val.on
    [] c.opt = "CC_OPTION" -> c.val.value
    [] c.opt = "MAXSEG" ->
         LET want == IF c.val = 0 THEN Mtu ELSE c.val
             size == Least(want, Mtu - Overhead)
         IN IF SCTP_FIND_STCB(i) # None THEN size - (size % 4)
            ELSE IF c.val + Overhead >= SCTP_DEFAULT_MAXSEGMENT THEN 0 ELSE c.val
    [] OTHER -> c.val

(* A value that setsockopt accepted is the value getsockopt gives: for the *)
(* association named, for the default of associations to come, or for all  *)
(* of them, whichever the identifier means in the socket's style.  A zero  *)
(* that means "leave it" leaves it, a value out of bounds is clamped.      *)
(* REUSE_PORT reads back on whatever was asked for.                        *)
ReadsBack ==
  LET c == ret.call
  IN ret.kind = "set" /\ ret.err = "ok" /\ ~SilentlySkipped(c) =>
       \A i \in Reached(c) :
         LET now == sctp_getopt([c EXCEPT !.id = i])
         IN now.err = "ok" => now.val = Expected(c, i, ret.old[i].val)

(* A call changes nothing outside what its identifier means: not the other *)
(* associations, not the defaults when it names associations, and not the  *)
(* existing associations when it names the defaults.                       *)
Scoping ==
  LET c == ret.call
  IN ret.kind = "set" =>
       \A i \in DOMAIN ret.old \ Reached(c) : sctp_getopt([c EXCEPT !.id = i]) = ret.old[i]

(* A call that returns an error has changed no setting: the checks that    *)
(* come after a first assignment in the code refuse nothing.               *)
FailedCallChangesNothing == [][ret'.err # "ok" => inp' = inp /\ asoc' = asoc]_vars

(* The calls that return with an association's TCB lock still held: the    *)
(* unknown event types of SCTP_EVENT, an unknown policy, an invalid        *)
(* PR_*_STATUS, and every SCTP_GET_ASOC_VRF.  All others give it back.     *)
LocksReleased ==
  ret.held # {} =>
    \/ ret.call.opt = "GET_ASOC_VRF"
    \/ ret.call.opt \in {"EVENT", "DEFAULT_PRINFO", "PR_STREAM_STATUS", "PR_ASSOC_STATUS"}
         /\ ret.err # "ok"

(* An association starts with the values its endpoint had: every option    *)
(* that reads the endpoint's default before reads the same through the     *)
(* association after.  (MAXSEG reads the size that fits instead.)          *)
Inherits ==
  LET a == ret.call.id
  IN ret.kind = "new" =>
       \A o \in group \ ({"MAXSEG"} \cup ReadOnly \cup EndpointOptions) : \A v \in Values(o) :
         ret.old[o][v].err = "ok" => sctp_getopt(Call(o, a, v)) = ret.old[o][v]

(* Address reconfiguration is never offered without authentication, and    *)
(* its chunks stay on the list of those that must be authenticated, for    *)
(* every order of the AUTH, ASCONF and AUTH_CHUNK options.                 *)
AsconfProtected ==
  \A o \in Objects : "asconf" \in o.sup => "auth" \in o.sup /\ "ASCONF" \in o.chunks

(* RTO.Min <= RTO.Initial <= RTO.Max in the endpoint and in every          *)
(* association, although a call may change one of the three alone.         *)
RtoOrdered == \A o \in Objects : o.rto.min <= o.rto.init /\ o.rto.init <= o.rto.max

Dry(a) == a \notin queued /\ "dry" \in asoc[a].features

(* On a one-to-one socket, whenever a subscribed association comes to have *)
(* nothing left to send, because the queues drain or because the user      *)
(* subscribes when they are empty, the user is told in that very step.     *)
DryTold ==
  [][Tcp => \A a \in DOMAIN asoc \cap DOMAIN asoc' :
       Dry(a)' /\ ~Dry(a) => a \in ret'.dry]_vars


(* A call sets what it names and nothing else, or nothing at all.          *)
CallsDoWhatTheySay == [](ReadsBack /\ Scoping) /\ FailedCallChangesNothing

(* The settings of the endpoint and of its associations fit each other.    *)
SettingsConsistent == TypeOK /\ Inherits /\ AsconfProtected /\ RtoOrdered /\ LocksReleased
=============================================================================
