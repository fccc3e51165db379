------------------------------ MODULE Folders -------------------------------
(***************************************************************************)
(* `jiku docs ls`, opened folder by folder from the root, and the folder   *)
(* that `--folder` names (cmd/jiku/docs.go, modules/docs/paths.go), for    *)
(* the three answers a caller gets of the module: everything (an admin),   *)
(* the folders that may be read (a person before contract 1.3.0), or a     *)
(* refusal (a person since), where folders are worked out from documents.  *)
(*                                                                         *)
(* A path is the sequence of its names.  Letter case, which both sides     *)
(* ignore, is left out.                                                    *)
(***************************************************************************)
EXTENDS Naturals, FiniteSets, SequencesExt

CONSTANTS
    FolderNames,
    Filed,         \* documents
    Depth          \* bound: how deep a document is filed

ASSUME FolderAssumption == Depth \in Nat /\ Filed \subseteq Nat \ {0}

VARIABLES
    caller,        \* "admin", "older", "person"
    placed,        \* the folder each document is in
    mayRead,       \* documents the caller reads
    mayList,       \* folders the module lists to them
    opened,        \* folders that were listed
    entries        \* every entry they showed: a folder, or a document in one

folderVars == <<caller, placed, mayRead, mayList, opened, entries>>

Root == <<>>
NoDocument == 0
Parent(f) == Front(f)
AllFolders == SeqOf(FolderNames, Depth)
\* The folders that hold something, however deep.
Exists == {f \in AllFolders : f = Root \/ \E d \in Filed : IsPrefix(f, placed[d])}

FoldersRefused == caller = "person"

FolderEntries(fs) == [at : fs, doc : {NoDocument}]
DocumentEntries(ds) == {[at |-> placed[d], doc |-> d] : d \in ds}

\* Client.Children.
Children(f) ==
    FolderEntries({g \in mayList \ {Root} : Parent(g) = f})
        \cup DocumentEntries({d \in mayRead : placed[d] = f})

BelowRoot(fs) == {f \in fs : Len(f) = 1}
\* topmostFolders: those whose parent is not among them.
TopmostFolders(fs) == {f \in fs : f = Root \/ Parent(f) \notin fs}

\* The documents somewhere under a folder, by their paths.
Under(dir) == {d \in mayRead : IsPrefix(dir, placed[d])}

\* entriesUnder: documents right there, and the folder of each deeper one.
EntriesUnder(dir) ==
    FolderEntries({SubSeq(placed[d], 1, Len(dir) + 1) : d \in {d \in Under(dir) : placed[d] # dir}})
        \cup DocumentEntries({d \in Under(dir) : placed[d] = dir})

\* Client.ResolveFolder: the listed folder of a path, if there is one.
ResolveFolder(f) == {f} \cap mayList

\* newDocsLsCmd: what ls prints, nothing when it fails.
Ls(f) ==
    CASE FoldersRefused -> EntriesUnder(f)
      [] ~FoldersRefused /\ ResolveFolder(f) # {} -> Children(f)
      [] ~FoldersRefused /\ ResolveFolder(f) = {} /\ f = Root -> FolderEntries(TopmostFolders(mayList))
      [] OTHER -> {}

\* From the root into the folders that were listed.
LsCmd(f) ==
    /\ f \notin opened
    /\ f = Root \/ [at |-> f, doc |-> NoDocument] \in entries
    /\ opened' = opened \cup {f}
    /\ entries' = entries \cup Ls(f)
    /\ UNCHANGED <<caller, placed, mayRead, mayList>>

\* resolveFolderID, of a folder given by its path: the folder whose id it answers, or none.  A
\* document right in it tells a person its id, by path.Dir with a slash put after it: for the
\* root, "//", which is no folder's path.
ResolveFolderID(f) ==
    IF FoldersRefused THEN {placed[d] : d \in {d \in Under(f) : placed[d] = f /\ f # Root}}
    ELSE ResolveFolder(f)

\* The module lists everything to an admin, the folders that may be read to a person before 1.3.0
\* (never the root), and none since.
FoldersInit ==
    /\ caller \in {"admin", "older", "person"}
    /\ placed \in [Filed -> AllFolders]
    /\ mayRead \in SUBSET Filed /\ mayList \in SUBSET Exists
    /\ caller = "admin" => mayRead = Filed /\ mayList = Exists
    /\ caller = "older" => Root \notin mayList /\ mayRead = {d \in Filed : placed[d] \in mayList}
    /\ caller = "person" => mayList = {}
    /\ opened = {} /\ entries = {}

FoldersNext == \E f \in AllFolders : LsCmd(f)

-----------------------------------------------------------------------------
(* Properties.                                                             *)

ShownFolders == {e.at : e \in {e \in entries : e.doc = NoDocument}}
ShownDocuments == {e.doc : e \in entries} \ {NoDocument}

\* "So there is somewhere to start" (docs.go:659-660): whoever opens every folder that ls lists
\* has seen every document they can read, and was listed none they cannot nor a folder that is
\* not there; and a folder they see a document in can be named, but for the root.
LsComplete ==
    /\ ShownDocuments \subseteq mayRead /\ ShownFolders \subseteq Exists
    /\ {Root} \cup ShownFolders \subseteq opened => ShownDocuments = mayRead
    /\ \A d \in ShownDocuments : placed[d] # Root => ResolveFolderID(placed[d]) = {placed[d]}
=============================================================================
