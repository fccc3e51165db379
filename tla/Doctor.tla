------------------------------- MODULE Doctor -------------------------------
(***************************************************************************)
(* `jiku doctor` (cmd/jiku/doctor.go): five checks of the links between a  *)
(* caller and core, in causal order, stopping at the first that fails,     *)
(* and a line about the optional module once all five passed.  Links      *)
(* break and are mended while it looks at them.                           *)
(***************************************************************************)
EXTENDS Naturals, Sequences, SequencesExt

CONSTANT Upsets    \* bound: how often a link breaks or is mended while the doctor runs

ASSUME DoctorAssumption == Upsets \in Nat

Chain == <<"config", "token", "bus", "reply", "authorize">>

\* What each check looks at.  "grant": the bus lets the caller publish the query.  "healthy": core
\* has no fault of its own; what it answers then is an error envelope, like a refusal.
LinksOf ==
    [config |-> {"settings", "creds"}, token |-> {"login", "roles"}, bus |-> {"accepts"},
     reply |-> {"accepts", "grant", "core"}, authorize |-> {"allows", "healthy"}]
ChainLinks == UNION {LinksOf[Chain[n]] : n \in DOMAIN Chain}

ModuleLines == {"available", "unverified", "unavailable", "incompatible", "not installed", "unknown"}

VARIABLES
    holds, upsets,
    looking,        \* the check at hand, modules, or the exit status: failed, passed
    answered,       \* what came of the describe request: nothing yet, or how it ended
    marks,          \* the checks that were printed: [check, ok]
    module, line,   \* the module as the registry and the ping have it; what is printed
    heldOnce, brokenOnce   \* history: links that held, and were broken, while the doctor ran

doctorVars == <<holds, upsets, looking, answered, marks, module, line, heldOnce, brokenOnce>>

Outside == UNCHANGED <<holds, upsets, heldOnce, brokenOnce>>

Ticks(check, ok) == marks' = Append(marks, [check |-> check, ok |-> ok])

\* config, token and bus: what they need is looked at, and the first that fails is the last.
Looks(check, next) ==
    /\ looking = check
    /\ LET ok == LinksOf[check] \subseteq holds IN
        Ticks(check, ok) /\ looking' = IF ok THEN next ELSE "failed"
    /\ Outside /\ UNCHANGED <<answered, module, line>>

ConfigCheck == Looks("config", "token")
TokenCheck == Looks("token", "bus")
BusCheck == Looks("bus", "reply")

\* meta.describe, as the bus and core answer it.
Describe ==
    /\ looking = "reply" /\ answered = "nothing"
    /\ answered' = CASE "accepts" \notin holds -> "failed"
                     [] "accepts" \in holds /\ "grant" \notin holds -> "refused"
                     [] {"accepts", "grant"} \subseteq holds /\ "core" \notin holds -> "timeout"
                     [] OTHER -> IF {"allows", "healthy"} \subseteq holds THEN "contract" ELSE "error"
    /\ Outside /\ UNCHANGED <<looking, marks, module, line>>

TimeoutReplies == {"contract", "error", "timeout"}
\* A contract and an error envelope: core replied.
CoreReplied == {"contract", "error"}

ReplyCheck ==
    /\ looking = "reply" /\ answered # "nothing"
    /\ IF answered \in CoreReplied
         THEN /\ marks' = marks \o <<[check |-> "reply", ok |-> TRUE],
                                     [check |-> "authorize", ok |-> answered = "contract"]>>
              /\ looking' = IF answered = "contract" THEN "modules" ELSE "failed"
         ELSE Ticks("reply", FALSE) /\ looking' = "failed"
    /\ Outside /\ UNCHANGED <<answered, module, line>>

\* printModules: not counted, whatever it finds.
PrintModules ==
    /\ looking = "modules" /\ looking' = "passed"
    /\ line' = module
    /\ Outside /\ UNCHANGED <<answered, marks, module>>

\* Links change while they are looked at; the configuration was read once.
LinkTurns(l) ==
    /\ looking \notin {"failed", "passed"} /\ upsets < Upsets /\ l \notin LinksOf["config"]
    /\ upsets' = upsets + 1
    /\ holds' = IF l \in holds THEN holds \ {l} ELSE holds \cup {l}
    /\ heldOnce' = heldOnce \cup holds' /\ brokenOnce' = brokenOnce \cup (ChainLinks \ holds')
    /\ UNCHANGED <<looking, answered, marks, module, line>>

DoctorInit ==
    /\ holds \in SUBSET ChainLinks /\ heldOnce = holds /\ brokenOnce = ChainLinks \ holds
    /\ upsets = 0 /\ looking = "config" /\ answered = "nothing" /\ marks = <<>>
    /\ module \in ModuleLines /\ line = "none"

DoctorNext ==
    \/ ConfigCheck \/ TokenCheck \/ BusCheck \/ Describe \/ ReplyCheck \/ PrintModules
    \/ \E l \in ChainLinks : LinkTurns(l)

-----------------------------------------------------------------------------
(* Properties.                                                             *)

\* "Name the broken one" (doctor.go:44): the checks are printed in causal order, one that is
\* ticked had its links hold, and the one it stops at had one of its own broken while it looked;
\* the status is zero only if all five were ticked.
DoctorHonest ==
    /\ \A n \in DOMAIN marks :
        /\ marks[n].check = Chain[n]
        /\ marks[n].ok => LinksOf[marks[n].check] \subseteq heldOnce
        /\ ~marks[n].ok => n = Len(marks) /\ LinksOf[marks[n].check] \cap brokenOnce # {}
    /\ looking = "passed" => Len(marks) = Len(Chain) /\ \A n \in DOMAIN marks : marks[n].ok
=============================================================================
