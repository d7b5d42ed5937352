SPECIFICATION Spec
CONSTANTS
  Assoc = {"a1", "a2"}
  Groups = { {"NODELAY"}, {"AUTOCLOSE"}, {"AUTO_ASCONF"}, {"EXPLICIT_EOR", "DISABLE_FRAGMENTS"}, {"USE_EXT_RCVINFO"}, {"I_WANT_MAPPED_V4_ADDR"},
 {"REUSE_PORT"}, {"PARTIAL_DELIVERY_POINT"}, {"FRAGMENT_INTERLEAVE", "INTERLEAVING_SUPPORTED"}, {"VRF_ID", "SET_INITIAL_DBG_SEQ"},
 {"ADAPTATION_LAYER"}, {"INITMSG"}, {"RECVRCVINFO", "RECVNXTINFO"}, {"AUTH_SUPPORTED", "ASCONF_SUPPORTED", "AUTH_CHUNK"}, {"HMAC_IDENT"},
 {"ECN_SUPPORTED"}, {"PR_SUPPORTED"}, {"RECONFIG_SUPPORTED"}, {"NRSACK_SUPPORTED"}, {"PKTDROP_SUPPORTED"},
 {"CMT_ON_OFF"}, {"PLUGGABLE_CC", "CC_OPTION"}, {"CONTEXT"}, {"MAX_BURST"}, {"ENABLE_STREAM_RESET"}, {"DELAYED_SACK"},
 {"DEFAULT_SEND_PARAM", "DEFAULT_SNDINFO", "DEFAULT_PRINFO"}, {"MAXSEG"}, {"RTOINFO"}, {"ASSOCINFO"}, {"EVENTS", "EVENT"},
 {"GET_ASOC_VRF"}, {"GET_NONCE_VALUES"}, {"GET_SNDBUF_USE"}, {"STATUS"}, {"TIMEOUTS"}, {"PR_STREAM_STATUS"}, {"PR_ASSOC_STATUS"},
 {"GET_ASSOC_NUMBER"}, {"GET_ASSOC_ID_LIST"}, {"UNKNOWN"} }
  Envs = { {"UNBOUND", "BOUNDALL", "V6", "cmt", "auto_asconf"}, {"UNBOUND"} }
  MaxSet = 2
CHECK_DEADLOCK FALSE
 
PROPERTIES CallsDoWhatTheySay DryTold
