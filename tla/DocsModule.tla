----------------------------- MODULE DocsModule -----------------------------
(***************************************************************************)
(* The documentation module as the sync daemon meets it: documents with a  *)
(* version history, a change feed that is trimmed at its old end, and      *)
(* notifications that reach a subscriber at most once.  The module is a    *)
(* service outside this repository: it is modelled from how                *)
(* internal/docsync calls it (the Remote interface, remote.go:34-52) and   *)
(* from what modules/docs says of its answers.  Other people act on it at  *)
(* any time, OtherActs times in all.                                       *)
(***************************************************************************)
EXTENDS Integers, Sequences

CONSTANTS
    NumDocs,              \* how many document ids there are
    Paths,                \* the paths a document can be filed at
    None,                 \* "no record", "no entry", "no path"
    Initial,              \* the documents that exist before the daemon first runs
    Home,                 \* the path each of them is filed at
    OtherActs,            \* bound: how often other people act
    OtherKinds,           \* which of their acts a configuration enables
    MaxNotes,             \* bound: notifications buffered for a subscriber
    DeleteCarriesVersion, \* does a deletion's entry in the feed carry a version?
    RetryReturnsAny       \* does documents.new with a known id answer that document
                          \* whatever content was sent with it?

Docs == 1..NumDocs   \* document ids; 0 is no document

ASSUME IdAssumption == NumDocs \in Nat /\ Initial \subseteq Docs
ASSUME HomeAssumption == /\ Home \in [Docs -> Paths]
                         /\ \A d, e \in Initial : Home[d] = Home[e] => d = e
ASSUME BoundAssumption == OtherActs \in Nat /\ MaxNotes \in Nat
ASSUME SwitchAssumption == DeleteCarriesVersion \in BOOLEAN /\ RetryReturnsAny \in BOOLEAN
ASSUME NoneAssumption == None \notin Paths /\ None \notin Docs

VARIABLES
    doc,      \* per id: life, path, who may read it, whether somebody holds its lock
    hist,     \* per id: the content of each version; <<>> for an id not created yet
    feed,     \* every change the module ever announced, oldest first
    floor,    \* how many of them the feed no longer keeps
    notes,    \* notifications sent to the daemon and not handled yet
    session,  \* the daemon's session with the module: "off", "starting" or "up"
    fresh,    \* the next content nobody has written yet
    acts      \* how often other people have acted

moduleVars == <<doc, hist, feed, floor, fresh, acts>>

Nothing == 0            \* the content of a file that does not exist
Contents == Nat \ {0}   \* a document's text, told apart from every other by a number

Lives == {"unborn", "live", "deleted"}
Versions(d) == DOMAIN hist[d]
Current(d) == Len(hist[d])
Content(d) == hist[d][Current(d)]
Published == UNION {{hist[d][v] : v \in Versions(d)} : d \in Docs}

Readable(d) == doc[d].life = "live" /\ doc[d].readable
Taken(p) == \E d \in Docs : doc[d].life = "live" /\ doc[d].path = p

Change(type, d, path, ver) == [type |-> type, id |-> d, path |-> path, ver |-> ver]
NoEntry == Change("none", 0, None, 0)

\* Core NATS delivers to a live subscription at most once; a full buffer drops.
Notify(n) ==
    \/ notes' = notes
    \/ session # "off" /\ Len(notes) < MaxNotes /\ notes' = Append(notes, n)

Announce(e, reaches) ==
    /\ feed' = Append(feed, e)
    /\ IF reaches THEN Notify(e) ELSE notes' = notes

ModuleInit ==
    /\ doc = [d \in Docs |-> [life |-> IF d \in Initial THEN "live" ELSE "unborn",
                              path |-> Home[d], readable |-> TRUE, locked |-> FALSE]]
    /\ hist = [d \in Docs |-> IF d \in Initial THEN <<d>> ELSE <<>>]
    /\ feed = <<>>
    /\ floor = 0
    /\ notes = <<>>
    /\ fresh = NumDocs + 1
    /\ acts = 0

-----------------------------------------------------------------------------
(* What other people do in the module.                                     *)

Other(kind) ==
    /\ kind \in OtherKinds
    /\ acts < OtherActs
    /\ acts' = acts + 1

OtherCreates(d, p) ==
    /\ Other("create")
    /\ doc[d].life = "unborn" /\ ~Taken(p)
    /\ doc' = [doc EXCEPT ![d].life = "live", ![d].path = p]
    /\ hist' = [hist EXCEPT ![d] = <<fresh>>]
    /\ fresh' = fresh + 1
    /\ Announce(Change("changed", d, p, 1), TRUE)
    /\ UNCHANGED floor

OtherSaves(d) ==
    /\ Other("save")
    /\ doc[d].life = "live" /\ ~doc[d].locked
    /\ hist' = [hist EXCEPT ![d] = Append(@, fresh)]
    /\ fresh' = fresh + 1
    /\ Announce(Change("changed", d, doc[d].path, Current(d) + 1), doc[d].readable)
    /\ UNCHANGED <<doc, floor>>

\* A move is announced like any change and makes no version of its own.
OtherMoves(d, p) ==
    /\ Other("move")
    /\ doc[d].life = "live" /\ ~Taken(p)
    /\ doc' = [doc EXCEPT ![d].path = p]
    /\ Announce(Change("changed", d, p, Current(d)), doc[d].readable)
    /\ UNCHANGED <<hist, fresh, floor>>

\* A deletion makes no version; a restore does, with the content it had.
OtherDeletes(d) ==
    /\ Other("delete")
    /\ doc[d].life = "live"
    /\ doc' = [doc EXCEPT ![d].life = "deleted", ![d].locked = FALSE]
    /\ feed' = Append(feed, Change("deleted", d, doc[d].path,
                                   IF DeleteCarriesVersion THEN Current(d) ELSE 0))
    /\ IF doc[d].readable THEN Notify(Change("deleted", d, doc[d].path, Current(d)))
                          ELSE notes' = notes
    /\ UNCHANGED <<hist, fresh, floor>>

OtherRestores(d) ==
    /\ Other("restore")
    /\ doc[d].life = "deleted" /\ ~Taken(doc[d].path)
    /\ doc' = [doc EXCEPT ![d].life = "live"]
    /\ hist' = [hist EXCEPT ![d] = Append(@, Content(d))]
    /\ Announce(Change("changed", d, doc[d].path, Current(d) + 1), doc[d].readable)
    /\ UNCHANGED <<fresh, floor>>

\* Granting or revoking read access is announced to the person, never in the feed.
OtherChangesAccess(d) ==
    /\ Other("access")
    /\ doc[d].life # "unborn"
    /\ doc' = [doc EXCEPT ![d].readable = ~@]
    /\ Notify(Change("access", 0, None, 0))
    /\ UNCHANGED <<hist, feed, floor, fresh>>

OtherLocks(d) ==
    /\ Other("lock")
    /\ doc[d].life = "live" /\ ~doc[d].locked
    /\ doc' = [doc EXCEPT ![d].locked = TRUE]
    /\ UNCHANGED <<hist, feed, floor, notes, fresh>>

\* A lock is released, or expires: it needs nobody's act, so it is not counted.
LockEnds(d) ==
    /\ doc[d].locked
    /\ doc' = [doc EXCEPT ![d].locked = FALSE]
    /\ Notify(Change("unlocked", d, None, 0))
    /\ UNCHANGED <<hist, feed, floor, fresh, acts>>

TrimFeed ==
    /\ Other("trim")
    /\ floor < Len(feed)
    /\ floor' = Len(feed)
    /\ UNCHANGED <<doc, hist, feed, notes, fresh>>

OtherPeople ==
    \/ \E d \in Docs, p \in Paths : OtherCreates(d, p) \/ OtherMoves(d, p)
    \/ \E d \in Docs : \/ OtherSaves(d) \/ OtherDeletes(d) \/ OtherRestores(d)
                       \/ OtherChangesAccess(d) \/ OtherLocks(d) \/ LockEnds(d)
    \/ TrimFeed

-----------------------------------------------------------------------------
(* What the module does with a write of the daemon.                        *)

\* The daemon is notified of what it wrote like anybody else.
Echo == Notify(feed'[Len(feed')])

\* A save is refused while another session holds the lock, accepted without a
\* new version when nothing changes, and refused on a base that is not current.
SaveReply(d, base, body) ==
    IF ~Readable(d) THEN "not_found"
    ELSE IF doc[d].locked THEN "locked"
    ELSE IF Content(d) = body THEN "same"
    ELSE IF base # Current(d) THEN "version_conflict"
    ELSE "saved"

ModuleSaves(d, body) ==
    /\ hist' = [hist EXCEPT ![d] = Append(@, body)]
    /\ feed' = Append(feed, Change("changed", d, doc[d].path, Current(d) + 1))
    /\ UNCHANGED <<doc, floor, fresh, acts>>

\* The same id again is the same creation, answered with the document.
CreateReply(d, p, body) ==
    IF hist[d] # <<>>
    THEN IF RetryReturnsAny \/ (Readable(d) /\ Content(d) = body) THEN "known" ELSE "exists"
    ELSE IF Taken(p) THEN "exists" ELSE "created"

ModuleCreates(d, p, body) ==
    /\ doc' = [doc EXCEPT ![d].life = "live", ![d].path = p]
    /\ hist' = [hist EXCEPT ![d] = <<body>>]
    /\ feed' = Append(feed, Change("changed", d, p, 1))
    /\ UNCHANGED <<floor, fresh, acts>>
=============================================================================
