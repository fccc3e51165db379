------------------------------ MODULE Settings ------------------------------
(***************************************************************************)
(* What is in force of a file, the environment and the flags: for the      *)
(* connection of every command (config.go, cmd/jiku/root.go) and for the   *)
(* daemon (internal/docsync/settings.go, cmd/jiku/docs_sync.go), which     *)
(* differ in what they do with a value that is wrong; whom the command     *)
(* authenticates as; and the documents the daemon syncs.                   *)
(*                                                                         *)
(* A value in force is named by the layer it came from.                    *)
(***************************************************************************)
EXTENDS Naturals, FiniteSets, SequencesExt

CONSTANTS SyncFields, ConnectFields     \* bound: the fields that are looked at

ASSUME SettingsAssumption ==
    /\ SyncFields \subseteq {"root", "include", "exclude", "debounce", "notifications", "level"}
    /\ ConnectFields \subseteq {"servers", "instance", "creds", "issuer", "clientId", "keyFile", "timeout"}
    /\ "keyFile" \in ConnectFields

VARIABLES
    purpose,       \* sync, connect
    says,          \* per layer and field, what a layer that was read said: absent, clears, bad, good
    layerAt,       \* the layer being read, or how it ended: identify, ready, refused
    inForce,       \* per field: the layer, default, or none for what was cleared
    identity       \* nobody, person, service

settingVars == <<purpose, says, layerAt, inForce, identity>>

Layers == <<"file", "env", "flags">>
Fields == IF purpose = "sync" THEN SyncFields ELSE ConnectFields
ListFields == {"include", "exclude"}

MayBeWrong == ListFields \cup {"debounce", "notifications", "level", "timeout"}

\* What a layer may say.  A text is wrong only where the file gives an empty root; elsewhere an
\* empty one is as if it were absent.  A flag cannot clear a list, for an empty prefix is a wrong
\* one; a timeout that is zero is the default's.
Sayings(layer, f) ==
    {"absent", "good"}
        \cup (IF f \in ListFields \cup {"timeout"} /\ layer # "flags" THEN {"clears"} ELSE {})
        \cup (IF f \in MayBeWrong \/ (f = "root" /\ layer = "file") THEN {"bad"} ELSE {})

WholeLayer(layer) ==
    {s \in [Fields -> {"absent", "clears", "bad", "good"}] : \A f \in Fields : s[f] \in Sayings(layer, f)}

\* setStr, overrideStr, applyEnv and what the flags change: what is said replaces what was.
OnlyIfAny(f, layer, said) == IF said[f] = "good" THEN layer ELSE inForce[f]
Override(f, layer, said) ==
    CASE said[f] = "good" -> layer
      [] said[f] = "clears" -> "none"
      [] OTHER -> inForce[f]

\* LoadSettings, parse, applyEnv: a wrong value refuses.  Config.applyEnv drops a timeout that is
\* none; LoadConfig refuses the file that has one.
Wrong(layer, said) == \E f \in Fields : said[f] = "bad" /\ (purpose = "sync" \/ layer = "file")

After(layer) ==
    CASE layer = "file" -> "env" [] layer = "env" -> "flags"
      [] OTHER -> IF purpose = "sync" THEN "ready" ELSE "identify"

ReadLayer(layer) ==
    /\ layerAt = layer
    /\ \E said \in WholeLayer(layer) :
        /\ says' = [says EXCEPT ![layer] = said]
        /\ IF Wrong(layer, said) THEN layerAt' = "refused" /\ UNCHANGED inForce
           ELSE /\ layerAt' = After(layer)
                /\ inForce' = [f \in Fields |-> Override(f, layer, said)]
    /\ UNCHANGED <<purpose, identity>>

Given(f) == f \in Fields /\ inForce[f] # "default"

LastGiven == IF Given("clientId") THEN "person" ELSE IF Given("keyFile") THEN "service" ELSE "nobody"
\* tokenSource: a key file wins.
TokenSource == IF Given("keyFile") THEN "service" ELSE IF Given("clientId") THEN "person" ELSE "nobody"

\* loadConfig, and what Connect validates: an identity, and the creds file.
Identify ==
    /\ layerAt = "identify"
    /\ identity' = TokenSource
    /\ layerAt' = IF identity' = "nobody" \/ ("creds" \in Fields /\ ~Given("creds")) THEN "refused" ELSE "ready"
    /\ UNCHANGED <<purpose, says, inForce>>

\* Engine.inScope, of a path described by the layers whose include, and whose exclude, prefixes
\* it is under.
InScope(included, excluded) ==
    /\ inForce["exclude"] \notin excluded
    /\ inForce["include"] \in {"default", "none"} \cup included

SettingsInit ==
    /\ purpose \in {"sync", "connect"}
    /\ says = [l \in ToSet(Layers) |-> [f \in Fields |-> "absent"]]
    /\ layerAt = "file" /\ inForce = [f \in Fields |-> "default"] /\ identity = "nobody"

SettingsNext == Identify \/ \E layer \in ToSet(Layers) : ReadLayer(layer)

-----------------------------------------------------------------------------
(* Properties.                                                             *)

\* The last layer that says anything of a field, none if it is cleared there.
Topmost(told, f) ==
    LET who == {n \in DOMAIN Layers : told[Layers[n]][f] \in {"good", "clears"}}
        last == Layers[CHOOSE n \in who : \A m \in who : m <= n] IN
    IF who = {} THEN "default" ELSE IF told[last][f] = "clears" THEN "none" ELSE last

\* "File < environment < flags" (docs_sync.go:119, config.go:89): what is in force is what the last
\* layer that says anything says, also where that is nothing, which lifts what a lower one excluded;
\* a wrong value in any layer ends the daemon, though a higher one replaces it (settings.go:44-45);
\* and a command that any layer gave a key file is never run as a person (root.go:158-159).
LayersHold ==
    /\ layerAt = "ready" =>
        /\ \A f \in Fields : inForce[f] = Topmost(says, f)
        /\ purpose = "sync" => \A l \in ToSet(Layers), f \in Fields : says[l][f] # "bad"
        /\ ListFields \subseteq Fields => \A inc, exc \in SUBSET ToSet(Layers) :
            InScope(inc, exc) <=> /\ Topmost(says, "exclude") \notin exc
                                  /\ Topmost(says, "include") \in {"default", "none"} \cup inc
    /\ identity = "person" => \A l \in ToSet(Layers) : "keyFile" \in Fields => says[l]["keyFile"] # "good"
    /\ layerAt = "refused" =>
        \/ \E l \in ToSet(Layers), f \in Fields : says[l][f] = "bad"
        \/ purpose = "connect" /\ \E f \in {"creds", "keyFile"} \cap Fields : Topmost(says, f) = "default"
=============================================================================
