------------------------------- MODULE Links --------------------------------
(***************************************************************************)
(* The links that commands print: `jiku docs attach`, which asks where to  *)
(* upload a file, uploads it and confirms it, and `share` and `revoke`     *)
(* (cmd/jiku/docs.go, modules/docs/attach.go).  A request whose reply is   *)
(* late or lost may still be served, and a caller of the library tries     *)
(* again with the id it gave.                                              *)
(*                                                                         *)
(* The module and the storage are external: they are modelled from what    *)
(* attach.go says of them.                                                 *)
(***************************************************************************)
EXTENDS Naturals, FiniteSets

CONSTANTS
    Callers,       \* each runs one command at a time; an id is a number
    MaxIds,        \* bound: ids of attachments and links
    MaxSaves,      \* bound: versions saved meanwhile
    MaxLost    \* bound: replies that are lost, or uploads that fail

ASSUME LinkAssumption == MaxIds \in Nat /\ MaxSaves \in Nat /\ MaxLost \in Nat

VARIABLES
    linkStep,      \* per caller: free, uploads, waits
    made,          \* per caller: the command, [id, what, version]
    waitsFor,      \* per caller: the request, none
    mailbox,       \* per caller: the reply to it, none
    onTheWire,     \* requests that may still be served
    attachments,   \* per id: none, pending, ready
    uploaded,        \* ids whose bytes are in the storage
    shares,        \* per id: none, live, revoked
    shows,         \* per id: the version its link shows, 0 for the latest
    latest,        \* the document's last version
    prunedBelow,   \* versions under it were compacted, those that live links show excepted
    linkIds, lostReplies,
    printed, revokedFor   \* history: links that were printed, and revocations that were

linkServer == <<attachments, uploaded, shares, shows, latest, prunedBelow>>
linkHistory == <<printed, revokedFor>>
linkVars == <<linkStep, made, waitsFor, mailbox, onTheWire, linkServer, linkIds, lostReplies, linkHistory>>

NoLinkRequest == [kind |-> "none"]
\* Versions the module still has: 0 stands for the latest.
Has(v) ==
    /\ v <= latest
    /\ v \in {0, 1} \/ v >= prunedBelow \/ \E i \in 1..linkIds : shares[i] = "live" /\ shows[i] = v

-----------------------------------------------------------------------------
(* Commands.                                                               *)

SendsLink(c, kind) ==
    LET m == [c |-> c, kind |-> kind, id |-> made'[c].id, version |-> made'[c].version] IN
    /\ waitsFor' = [waitsFor EXCEPT ![c] = m]
    /\ onTheWire' = onTheWire \cup {m}
    /\ mailbox' = [mailbox EXCEPT ![c] = "none"]
    /\ linkStep' = [linkStep EXCEPT ![c] = "waits"]

LinkEnds(c) ==
    /\ linkStep' = [linkStep EXCEPT ![c] = "free"]
    /\ waitsFor' = [waitsFor EXCEPT ![c] = NoLinkRequest] /\ mailbox' = [mailbox EXCEPT ![c] = "none"]
    /\ UNCHANGED onTheWire

FirstRequest(what) ==
    CASE what = "attach" -> "request-upload" [] what = "revoke" -> "revoke" [] OTHER -> "share"

\* An id is made for the call; a pinned link is of the version that was read.
RunsLink(c, what, id, version) ==
    /\ linkStep[c] = "free"
    /\ made' = [made EXCEPT ![c] = [id |-> id, what |-> what, version |-> version]]
    /\ SendsLink(c, FirstRequest(what))
    /\ UNCHANGED <<linkServer, lostReplies, linkHistory>>

NewLink == linkIds < MaxIds /\ linkIds' = linkIds + 1
AttachCmd(c) == NewLink /\ RunsLink(c, "attach", linkIds + 1, 0)
ShareCmd(c) == NewLink /\ \E v \in {0} \cup {v \in 1..latest : Has(v)} : RunsLink(c, "share", linkIds + 1, v)
\* The id is of a link that was printed, or listed by `shares`.
RevokeCmd(c) == \E i \in 1..linkIds : shares[i] # "none" /\ RunsLink(c, "revoke", i, 0) /\ UNCHANGED linkIds

\* A caller of the library gives the same id again.
AgainWithId(c) ==
    /\ linkStep[c] = "free" /\ made[c].id # 0 /\ made[c].what # "revoke" /\ made[c].id \notin printed
    /\ RunsLink(c, made[c].what, made[c].id, made[c].version) /\ UNCHANGED linkIds

\* The PUT to the presigned URL: refused, unanswered, or done.
UploadsFile(c) ==
    /\ linkStep[c] = "uploads"
    /\ UNCHANGED made
    /\ \/ uploaded' = uploaded \cup {made[c].id} /\ SendsLink(c, "confirm") /\ UNCHANGED lostReplies
       \/ /\ lostReplies < MaxLost /\ lostReplies' = lostReplies + 1 /\ LinkEnds(c)
          /\ uploaded' \in {uploaded, uploaded \cup {made[c].id}}
    /\ UNCHANGED <<attachments, shares, shows, latest, prunedBelow, linkIds, linkHistory>>

ToUpload(c) ==
    /\ linkStep' = [linkStep EXCEPT ![c] = "uploads"]
    /\ waitsFor' = [waitsFor EXCEPT ![c] = NoLinkRequest] /\ mailbox' = [mailbox EXCEPT ![c] = "none"]
    /\ UNCHANGED <<onTheWire, linkHistory>>

PrintsLink(c) == LinkEnds(c) /\ printed' = printed \cup {made[c].id} /\ UNCHANGED revokedFor

Unconfirmed(c) == PrintsLink(c)
\* The attachment stays pending until confirm.
UploadFirst(c) == ToUpload(c)

LinkReply(c) ==
    /\ linkStep[c] = "waits" /\ mailbox[c] # "none"
    /\ CASE mailbox[c] = "refused" -> LinkEnds(c) /\ UNCHANGED linkHistory
         [] mailbox[c] = "done" /\ waitsFor[c].kind = "request-upload" -> UploadFirst(c)
         [] mailbox[c] = "done" /\ waitsFor[c].kind \in {"confirm", "share"} -> PrintsLink(c)
         [] OTHER -> LinkEnds(c) /\ revokedFor' = revokedFor \cup {made[c].id} /\ UNCHANGED printed
    /\ UNCHANGED <<made, linkServer, linkIds, lostReplies>>

LinkGivesUp(c) ==
    /\ linkStep[c] = "waits" /\ lostReplies < MaxLost /\ lostReplies' = lostReplies + 1
    /\ LinkEnds(c)
    /\ UNCHANGED <<made, linkServer, linkIds, linkHistory>>

-----------------------------------------------------------------------------
(* The module.                                                             *)

LinkReplies(m, how) ==
    mailbox' = IF waitsFor[m.c] = m THEN [mailbox EXCEPT ![m.c] = how] ELSE mailbox

\* A repeated creation answers what exists, and a confirmation looks at the bytes.
LinkServed(m) ==
    CASE m.kind = "request-upload" ->
            /\ attachments' = [attachments EXCEPT ![m.id] = IF @ = "none" THEN "pending" ELSE @]
            /\ LinkReplies(m, "done") /\ UNCHANGED <<shares, shows>>
      [] m.kind = "confirm" ->
            /\ attachments' = IF m.id \in uploaded THEN [attachments EXCEPT ![m.id] = "ready"] ELSE attachments
            /\ LinkReplies(m, IF m.id \in uploaded THEN "done" ELSE "refused") /\ UNCHANGED <<shares, shows>>
      [] m.kind = "share" ->
            /\ IF shares[m.id] = "none" /\ Has(m.version)
                 THEN shares' = [shares EXCEPT ![m.id] = "live"] /\ shows' = [shows EXCEPT ![m.id] = m.version]
                 ELSE UNCHANGED <<shares, shows>>
            /\ \E how \in IF shares[m.id] = "live" THEN {"done", "refused"} ELSE {"refused"} :
                LinkReplies(m, IF shares[m.id] = "none" /\ Has(m.version) THEN "done" ELSE how)
            /\ UNCHANGED attachments
      [] OTHER ->
            /\ shares' = [shares EXCEPT ![m.id] = "revoked"]
            /\ LinkReplies(m, "done") /\ UNCHANGED <<attachments, shows>>

ServeLink(m) ==
    /\ onTheWire' = onTheWire \ {m}
    /\ LinkServed(m)
    /\ UNCHANGED <<linkStep, made, waitsFor, uploaded, latest, prunedBelow, linkIds, lostReplies, linkHistory>>

\* A request that is lost on its way.
LosesRequest(m) ==
    /\ waitsFor[m.c] # m /\ onTheWire' = onTheWire \ {m}
    /\ UNCHANGED <<linkStep, made, waitsFor, mailbox, linkServer, linkIds, lostReplies, linkHistory>>

DocumentSaved ==
    /\ latest < MaxSaves /\ latest' = latest + 1
    /\ UNCHANGED <<linkStep, made, waitsFor, mailbox, onTheWire, attachments, uploaded, shares, shows,
                   prunedBelow, linkIds, lostReplies, linkHistory>>

HistoryCompacts ==
    /\ prunedBelow < latest /\ prunedBelow' = latest
    /\ UNCHANGED <<linkStep, made, waitsFor, mailbox, onTheWire, attachments, uploaded, shares, shows,
                   latest, linkIds, lostReplies, linkHistory>>

LinksInit ==
    /\ linkStep = [c \in Callers |-> "free"]
    /\ made = [c \in Callers |-> [id |-> 0, what |-> "none", version |-> 0]]
    /\ waitsFor = [c \in Callers |-> NoLinkRequest] /\ mailbox = [c \in Callers |-> "none"]
    /\ onTheWire = {} /\ uploaded = {} /\ latest = 1 /\ prunedBelow = 1 /\ linkIds = 0 /\ lostReplies = 0
    /\ attachments = [i \in 1..MaxIds |-> "none"] /\ shares = [i \in 1..MaxIds |-> "none"]
    /\ shows = [i \in 1..MaxIds |-> 0] /\ printed = {} /\ revokedFor = {}

LinksNext ==
    \/ \E c \in Callers :
        \/ AttachCmd(c) \/ ShareCmd(c) \/ RevokeCmd(c) \/ AgainWithId(c)
        \/ UploadsFile(c) \/ LinkReply(c) \/ LinkGivesUp(c)
    \/ \E m \in onTheWire : ServeLink(m) \/ LosesRequest(m)
    \/ DocumentSaved \/ HistoryCompacts

-----------------------------------------------------------------------------
(* Properties.                                                             *)

\* A link that was printed opens: an attachment's is of bytes the module has confirmed
\* (attach.go:33-34), a shared one of a version the module still has, whatever was retried or
\* lost on the way; and one that was reported as revoked stays revoked.
LinksOpen ==
    /\ \A i \in printed :
        \/ attachments[i] = "ready" /\ i \in uploaded
        \/ shares[i] = "live" /\ Has(shows[i])
        \/ shares[i] = "revoked"
    /\ \A i \in revokedFor : shares[i] = "revoked"
=============================================================================
