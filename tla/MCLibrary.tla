----------------------------- MODULE MCLibrary ------------------------------
(***************************************************************************)
(* Small instances, for TLC, of what calls of the library and of the       *)
(* command line do.  They share no state, so a behaviour is of one part.   *)
(***************************************************************************)
EXTENDS Bus, Paging, Contract, ServiceToken, DocsCommands, Folders, DeviceLogin, Frontmatter, Batch, Links,
        Doctor, Settings
LOCAL INSTANCE TLC

VARIABLE part
vars == <<part, busVars, pagingVars, queryVars, serviceVars, deskVars, folderVars, deviceVars, frontVars,
          batchVars, linkVars, doctorVars, settingVars>>

\* Two variants that both filter by a type, with different values.
TaskOrRequirement ==
    [task |-> [type |-> {"area", "state"}, since |-> {}],
     requirement |-> [type |-> {"tag", "state"}, since |-> {}, id |-> {}]]

\* Good conditions of every kind, a value that is no number, and an operator that is none.
SmallExpressions ==
    [name : {"type"}, op : {"eq", "ne"}, vals : {{"area"}, {"tag", "state"}}]
        \cup [name : {"since"}, op : {"gte", "lt", "eq"}, vals : {{"1"}}]
        \cup [name : {"id"}, op : {"eq", "contains", "gte"}, vals : {{"1"}, {"area"}}]
        \cup [name : {"id"}, op : {"bad"}, vals : {{"1"}}]

ListsOfOne == {<<>>, <<1>>, <<1, 1>>}
ListsToAdd == {<<>>, <<2>>, <<2, 1>>, <<2, 2>>}

Parts == {"bus", "paging", "query", "token", "desk", "folders", "device", "front", "batch", "links", "doctor", "settings"}

\* Two calls, in one order of their kinds: which of them is called 1 makes no difference, nor does
\* what is granted, or who listens, of a kind that neither has.
KindsInOrder == <<"command", "kv", "write", "contract", "ping", "registry">>
Called == {kind[c] : c \in Calls}
OrderedKinds ==
    /\ \E i, j \in DOMAIN KindsInOrder : i <= j /\ kind = <<KindsInOrder[i], KindsInOrder[j]>>
    /\ CallKinds \ Called \subseteq granted
    /\ CallKinds \ Called \subseteq listening \/ Called \cap {"ping", "command", "registry"} # {}

\* Nothing is a person's own but what that person types, nor a process's but its credential.
AnyOfThem == Permutations(People) \cup Permutations(Services)

\* A behaviour is of one part; the others stand still, at one of their initial states.
Still(p, A) == IF part = p THEN TRUE ELSE A

LibraryInit ==
    /\ part \in Parts
    /\ Still("bus", kind = [c \in Calls |-> "kv"] /\ granted = CallKinds \ {"kv"} /\ listening = CallKinds)
    /\ Still("paging", walker = "page" /\ table = {})
    /\ Still("token", cred = [p \in Services |-> CHOOSE c \in Credentials : TRUE])
    /\ Still("folders", caller = "person" /\ placed = [d \in Filed |-> Root] /\ mayRead = {} /\ mayList = {})
    /\ Still("front", text = Block([k \in Keys |-> <<>>]))
    /\ Still("batch", input = <<>> /\ stopOnError = FALSE /\ moduleUp = FALSE)
    /\ Still("doctor", holds = {} /\ module = "unknown")
    /\ Still("settings", purpose = "connect")
    /\ BusInit /\ OrderedKinds /\ PagingInit /\ QueryInit /\ ServiceInit /\ DeskInit
    /\ FoldersInit /\ DeviceInit /\ FrontInit /\ BatchInit /\ LinksInit /\ DoctorInit
    /\ SettingsInit

\* A part acts when the behaviour is its own.
OnlyOf(p, A, v) == IF part = p THEN A ELSE UNCHANGED v

LibraryNext ==
    /\ UNCHANGED part
    /\ OnlyOf("bus", BusNext, busVars)
    /\ OnlyOf("paging", PagingNext, pagingVars)
    /\ OnlyOf("query", QueryNext, queryVars)
    /\ OnlyOf("token", ServiceNext, serviceVars)
    /\ OnlyOf("desk", DeskNext, deskVars)
    /\ OnlyOf("folders", FoldersNext, folderVars)
    /\ OnlyOf("device", DeviceNext, deviceVars)
    /\ OnlyOf("front", FrontNext, frontVars)
    /\ OnlyOf("batch", BatchNext, batchVars)
    /\ OnlyOf("links", LinksNext, linkVars)
    /\ OnlyOf("doctor", DoctorNext, doctorVars)
    /\ OnlyOf("settings", SettingsNext, settingVars)

LibrarySpec == LibraryInit /\ [][LibraryNext]_vars
=============================================================================
