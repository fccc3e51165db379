------------------------------ MODULE Registry ------------------------------
(***************************************************************************)
(* The registry of Jiku's modules (modules/modules.go): one key says       *)
(* whether the documentation module is installed and on which service it   *)
(* answers, a ping whether it answers now.                                 *)
(***************************************************************************)

\* What the bucket holds for the module: nothing, a value that is no usable record,
\* a record of another protocol, or a record of the caller's, for one of two services.
Keys == {"absent", "unreadable", "foreign", "docs", "docs2"}

\* decodeRecord: a value that addresses nothing is refused.
Decodes(key) == key \notin {"absent", "unreadable"}

\* Registry.Ping, over a bus that may refuse the ping to this identity.
PingOf(granted, up) ==
    IF ~granted THEN "refused" ELSE IF up THEN "answered" ELSE "silent"

\* Registry.Status: absent, incompatible and down are told apart; a refused ping says
\* nothing against the module.
StatusOf(key, ping) ==
    IF key = "absent" THEN "not_installed"
    ELSE IF ~Decodes(key) \/ key = "foreign" THEN "incompatible"
    ELSE IF ping = "silent" THEN "unavailable"
    ELSE "available"

\* translate: a watch tells the present first, also of a key that does not exist, then every
\* write and every deletion.
PresentFirst(key) == <<key>>
=============================================================================
