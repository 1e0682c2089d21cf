------------------------------ MODULE ReplicaPush ------------------------------
(***************************************************************************)
(* The daemon's own replication of one snapshot from a sender to one       *)
(* receiver: the manifest pushed after authentication, the offsets the     *)
(* receiver answers with, one chunk in flight at a time, the receiver's    *)
(* resumable partial files, rate limiting, lost answers, broken links and  *)
(* a receiver that stops inside the write of a chunk.                      *)
(*                                                                         *)
(* Sizes and offsets count chunks.  A request carries what the sender      *)
(* stored as its OutboundContext, and a request the receiver rejects is    *)
(* answered by the failure its closed channel causes.                      *)
(***************************************************************************)
EXTENDS Naturals, Sequences, FiniteSets, Bags

CONSTANTS
    Size,           \* Size[b]: the number of chunks of blob b
    Pushes,         \* how often a link's handshake makes the sender push: 1, 2
    MaxLinks,       \* bound on connections
    MaxLosses,      \* bound on requests that time out
    MaxLimits,      \* bound on requests refused by the admission window
    MaxStops,       \* bound on receivers stopped inside a write
    NoTransfer      \* no transfer

VARIABLES
    up,             \* the link is up and authenticated
    links,          \* connections so far
    todo,           \* handshake events of this link the sender has yet to see
    net,            \* bag of requests and answers in flight
    replication,    \* ReplicationState of the sender for this receiver
    ended,          \* the sender's daemon returned an error
    partial,        \* length of the receiver's .part files
    have,           \* the receiver's complete blobs
    negotiated,     \* pending_manifests holds the manifest
    committed,      \* the receiver finalized the snapshot
    losses, limits, stops

pushVars == <<up, links, todo, net, replication, ended, partial, have, negotiated,
          committed, losses, limits, stops>>
receiver == <<partial, have, negotiated, committed>>
counters == <<links, losses, limits, stops>>

Offered == DOMAIN Size

Manifest == [type |-> "manifest"]
ManifestAnswer(missing) == [type |-> "accepted", missing |-> missing]
Chunk(t, b, next) == [type |-> t, hash |-> b, next |-> next]
Finished(m) == m.next = Size[m.hash]

Messages(ts) == {m \in BagToSet(net) : m.type \in ts}
Exchange(m, r) == net' = (net (-) SetToBag({m})) (+) SetToBag(r)

(***************************************************************************)
(* The sender.                                                             *)
(***************************************************************************)

(* Mutated form of Unsent: a blob at its full size is sent once more. *)
NothingPopped(pending) == pending

(* send_next_replication_chunk: blobs whose offset is already the encoded  *)
(* size are popped, the next chunk of the first other one is sent.         *)
Unsent(pending) == SelectSeq(pending, LAMBDA r : r.offset # Size[r.hash])

send_next_replication_chunk(pending, answered) ==
    LET rest == Unsent(pending)
    IN  /\ Exchange(answered, IF rest = <<>> THEN {}
                              ELSE {Chunk("chunk", rest[1].hash, rest[1].offset + 1)})
        /\ replication' = IF rest = <<>> THEN NoTransfer
                          ELSE [pending |-> rest, in_flight |-> TRUE, retry |-> FALSE]

(* The daemon ends: every connection and every transfer ends with it. *)
EndDaemon ==
    /\ ended' = TRUE /\ up' = FALSE /\ todo' = 0
    /\ net' = EmptyBag /\ replication' = NoTransfer

LinkUp ==
    /\ ~up /\ ~ended
    /\ links < MaxLinks
    /\ up' = TRUE /\ links' = links + 1
    /\ todo' \in Pushes
    /\ UNCHANGED <<net, replication, ended, receiver, losses, limits, stops>>

(* Disconnected, and the failures of the requests that were in flight. *)
LinkDown ==
    /\ up
    /\ links < MaxLinks
    /\ up' = FALSE /\ todo' = 0
    /\ net' = EmptyBag /\ replication' = NoTransfer
    /\ UNCHANGED <<ended, receiver, counters>>

(* push_known_worlds, on Authenticated and again on HelloAccepted. *)
push_known_worlds ==
    /\ up /\ todo > 0
    /\ todo' = todo - 1
    /\ net' = net (+) SetToBag({Manifest})
    /\ UNCHANGED <<up, replication, ended, receiver, counters>>

ManifestAccepted ==
    /\ \E m \in Messages({"accepted"}) : send_next_replication_chunk(m.missing, m)
    /\ UNCHANGED <<up, todo, ended, receiver, counters>>

Advances(m) ==
    /\ replication.pending # <<>>
    /\ Head(replication.pending).hash = m.hash
    /\ Head(replication.pending).offset < m.next

BlobChunkAccepted ==
    \E m \in Messages({"chunkAccepted"}) :
        /\ IF replication = NoTransfer
           THEN Exchange(m, {}) /\ UNCHANGED <<up, todo, replication, ended>>
           ELSE IF Advances(m)
           THEN /\ send_next_replication_chunk(
                      IF Finished(m) THEN Tail(replication.pending)
                      ELSE [replication.pending EXCEPT ![1].offset = m.next], m)
                /\ UNCHANGED <<up, todo, ended>>
           ELSE EndDaemon
        /\ UNCHANGED <<receiver, counters>>

RateLimited ==
    \E m \in Messages({"limited"}) :
        /\ Exchange(m, {})
        /\ replication' = IF replication = NoTransfer THEN NoTransfer
                          ELSE [replication EXCEPT !.in_flight = FALSE, !.retry = TRUE]
        /\ UNCHANGED <<up, todo, ended, receiver, counters>>

(* retry_due_replication, once the backoff is over. *)
retry_due_replication ==
    /\ replication # NoTransfer
    /\ replication.retry /\ ~replication.in_flight
    /\ LET r == Unsent(replication.pending)[1]
       IN  net' = net (+) SetToBag({Chunk("chunk", r.hash, r.offset + 1)})
    /\ replication' = [replication EXCEPT !.in_flight = TRUE, !.retry = FALSE]
    /\ UNCHANGED <<up, todo, ended, receiver, counters>>

OutboundFailure ==
    \E m \in Messages({"failed"}) :
        /\ Exchange(m, {})
        /\ replication' = NoTransfer
        /\ UNCHANGED <<up, todo, ended, receiver, counters>>

(***************************************************************************)
(* The receiver.                                                           *)
(***************************************************************************)
(* Mutated form of missing_blobs: a partial file counts as the blob. *)
MissingWithoutPartials(complete) == {b \in Offered \ complete : partial[b] = 0}

missing_blobs(complete) == Offered \ complete

Resume(complete) ==
    [i \in 1 .. Cardinality(missing_blobs(complete)) |->
        LET b == CHOOSE b \in missing_blobs(complete) :
                     Cardinality({c \in missing_blobs(complete) : c < b}) = i - 1
        IN  [hash |-> b, offset |-> partial[b]]]

SnapshotManifest ==
    \E m \in Messages({"manifest"}) :
        /\ Exchange(m, {ManifestAnswer(Resume(have))})
        /\ negotiated' = (missing_blobs(have) # {})
        /\ committed' = (committed \/ missing_blobs(have) = {})
        /\ UNCHANGED <<up, todo, replication, ended, partial, have, counters>>

(* receive_blob_chunk: only the chunk at the end of the partial file of a  *)
(* blob of the negotiated manifest is written; the last one is verified    *)
(* and renamed onto the blob.                                              *)
Writable(m) == negotiated /\ m.hash \in Offered /\ partial[m.hash] + 1 = m.next

BlobChunk ==
    \E m \in Messages({"chunk"}) :
        /\ Writable(m)
        /\ Exchange(m, {[m EXCEPT !.type = "chunkAccepted"]})
        /\ partial' = [partial EXCEPT ![m.hash] = IF Finished(m) THEN 0 ELSE m.next]
        /\ have' = IF Finished(m) THEN have \cup {m.hash} ELSE have
        /\ LET complete == Finished(m) /\ missing_blobs(have') = {}
           IN  /\ committed' = (committed \/ complete)
               /\ negotiated' = ~complete
        /\ UNCHANGED <<up, todo, replication, ended, counters>>

BlobChunkRejected ==
    \E m \in Messages({"chunk"}) :
        /\ ~Writable(m)
        /\ Exchange(m, {[m EXCEPT !.type = "failed"]})
        /\ UNCHANGED <<up, todo, replication, ended, receiver, counters>>

(* admit_request refuses the request before the daemon sees it. *)
Admission ==
    \E m \in Messages({"chunk"}) :
        /\ limits < MaxLimits
        /\ limits' = limits + 1
        /\ Exchange(m, {[m EXCEPT !.type = "limited"]})
        /\ UNCHANGED <<up, todo, replication, ended, receiver, links, losses, stops>>

(* The receiver's daemon stops after the chunk is on disk: before the      *)
(* rename of a last chunk, or between removing the blob it replaces and    *)
(* the rename.  It restarts with no negotiated manifest.                   *)
ReceiverStops ==
    \E m \in Messages({"chunk"}) :
        /\ Writable(m)
        /\ stops < MaxStops
        /\ stops' = stops + 1
        /\ partial' = [partial EXCEPT ![m.hash] = m.next]
        /\ have' \in {have, have \ {m.hash}}
        /\ have' # have => Finished(m)
        /\ negotiated' = FALSE
        /\ up' = FALSE /\ todo' = 0
        /\ net' = EmptyBag /\ replication' = NoTransfer
        /\ UNCHANGED <<ended, committed, links, losses, limits>>

(* A request or its answer is lost; the sender sees the timeout. *)
TimeOut ==
    /\ losses < MaxLosses /\ links < MaxLinks
    /\ losses' = losses + 1
    /\ \E m \in Messages({"manifest", "accepted", "chunk", "chunkAccepted"}) :
          Exchange(m, IF m.type \in {"chunk", "chunkAccepted"}
                      THEN {[m EXCEPT !.type = "failed"]} ELSE {})
    /\ UNCHANGED <<up, todo, replication, ended, receiver, links, limits, stops>>

PushInit ==
    /\ up = FALSE /\ links = 0 /\ todo = 0
    /\ net = EmptyBag /\ replication = NoTransfer /\ ended = FALSE
    /\ partial = [b \in Offered |-> 0] /\ have = {}
    /\ negotiated = FALSE /\ committed = FALSE
    /\ losses = 0 /\ limits = 0 /\ stops = 0

PushProgress ==
    \/ LinkUp \/ push_known_worlds
    \/ ManifestAccepted \/ BlobChunkAccepted \/ RateLimited
    \/ retry_due_replication \/ OutboundFailure
    \/ SnapshotManifest \/ BlobChunk \/ BlobChunkRejected

PushNext == PushProgress \/ LinkDown \/ Admission \/ ReceiverStops \/ TimeOut

PushSpec == PushInit /\ [][PushNext]_pushVars

-----------------------------------------------------------------------------
(* Every variable has the shape of the daemon's field it stands for. *)
PushTypeOK ==
    /\ up \in BOOLEAN /\ todo \in {0} \cup Pushes \cup 0 .. 2
    /\ IsABag(net)
    /\ replication = NoTransfer \/ replication.pending # <<>>
    /\ ended \in BOOLEAN /\ negotiated \in BOOLEAN /\ committed \in BOOLEAN
    /\ \A b \in Offered : partial[b] \in 0 .. Size[b]
    /\ have \subseteq Offered

(* A receiver acknowledges a snapshot only when every blob is complete,    *)
(* and what it committed stays complete whatever duplicates, losses and    *)
(* stops follow.                                                           *)
CommittedHeld == committed => have = Offered
=============================================================================
