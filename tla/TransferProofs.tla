---------------------------- MODULE TransferProofs ----------------------------
(***************************************************************************)
(* A manual transfer is final: for any hosts, any number of generations,   *)
(* sessions, tokens presented late or again, and recoveries meanwhile, one *)
(* generation is handed over at most once, its source adds nothing to the  *)
(* snapshot it hands over, and transfers never fork the epochs.            *)
(***************************************************************************)
EXTENDS ManualTransfer, FiniteSetTheorems, TLAPS

(* A step that does not name the SMT solver is left to Zenon. *)
USE ZenonT(20)

-----------------------------------------------------------------------------
(* The inductive invariant                                                 *)

Ancestries == {c \in Seq(Epochs) : Len(c) \in 1 .. MaxGeneration}
Histories == {s \in Seq(Snapshots) : s # <<>>}
EpochTokens == [phase : {"Epoch"}, chain : Ancestries]

(* The types of the files, of the votes and of the tokens.  A promise to   *)
(* oneself is made below the last generation.                              *)
TransferTyped ==
    /\ chain \in [Hosts -> Ancestries]
    /\ snaps \in [Hosts -> Histories]
    /\ serving \in [Hosts -> 0 .. MaxGeneration]
    /\ asleep \in [Hosts -> BOOLEAN]
    /\ moving \in [Hosts -> Transfers \union {NoRecord}]
    /\ promised \in [Hosts -> Promises \union {NoRecord}]
    /\ voters \in [Hosts -> SUBSET Hosts]
    /\ tokens \subseteq Transfers \union EpochTokens

OwnPromiseBelow ==
    \A p \in Hosts : promised[p] # NoRecord /\ promised[p].cand = p => promised[p].gen < MaxGeneration

(* No snapshot belongs to a generation its holder has not accepted, a      *)
(* sleeping world is not served, and every record was also a token.        *)
HostConsistent ==
    \A p \in Hosts : /\ latest_snapshot(p).gen <= generation(p)
                     /\ asleep[p] => serving[p] = 0
                     /\ moving[p] # NoRecord => moving[p] \in tokens

(* A snapshot has the number of its place in the history, and whoever made *)
(* it has the whole history it closes.                                     *)
Shares(q, i) ==
    LET a == snaps[q][i].auth
    IN  /\ snaps[q][i].no = i
        /\ i <= Len(snaps[a])
        /\ \A j \in 1 .. i : snaps[a][j] = snaps[q][j]

SnapshotsShared == \A q \in Hosts : \A i \in 1 .. Len(snaps[q]) : Shares(q, i)

(* The fields that a phase leaves alone. *)
Alike(t, u) == t.from = u.from /\ t.to = u.to /\ t.base = u.base /\ t.next = u.next

Issued == {t \in tokens : t.phase # "Epoch"}

(* A transfer out of the generation its source is still in is the one the  *)
(* source has on record, and the source does not run the world.            *)
SourceBound(t) ==
    /\ t.next <= generation(t.from) + 1
    /\ t.next = generation(t.from) + 1 =>
         /\ authority(t.from) = t.from
         /\ serving[t.from] # generation(t.from)
         /\ moving[t.from] # NoRecord /\ Alike(moving[t.from], t)

(* The source has the snapshot it handed over and none of its own after it *)
(* in that generation.                                                     *)
BaseLast(t) ==
    /\ t.base.no \in 1 .. Len(snaps[t.from])
    /\ snaps[t.from][t.base.no] = t.base
    /\ \A n \in 1 .. Len(snaps[t.from]) :
         snaps[t.from][n].gen = t.next - 1 /\ snaps[t.from][n].auth = t.from => n <= t.base.no

TransfersBound == \A t \in Issued : SourceBound(t) /\ BaseLast(t)

(* The transfers out of one generation of one source differ in phase only. *)
TransfersAlike == \A t, u \in Issued : t.from = u.from /\ t.next = u.next => Alike(t, u)

(* An epoch that is not due to a recovery is due to a committed transfer   *)
(* from the authority before it.                                           *)
HandedOver(c, g) ==
    \E t \in tokens : /\ t \in Transfers /\ t.phase = "Committed"
                      /\ t.from = c[g - 1].auth /\ t.next = g
                      /\ t.to = c[g].auth /\ t.base.root = c[g].base

FirstEpoch == epoch_record(Source, "Quorum", <<Source, 1>>)

Ancestral(c) ==
    /\ c[1] = FirstEpoch
    /\ \A g \in 2 .. Len(c) : c[g].mode = "Quorum" => HandedOver(c, g)

EpochsAncestral ==
    /\ \A p \in Hosts : Ancestral(chain[p])
    /\ \A t \in tokens : t.phase = "Epoch" => Ancestral(t.chain)

(* The inductive invariant. *)
TransferInv ==
    /\ TransferTyped /\ OwnPromiseBelow /\ HostConsistent
    /\ SnapshotsShared /\ TransfersBound /\ TransfersAlike /\ EpochsAncestral

-----------------------------------------------------------------------------
(* Sequences of epochs and of snapshots                                    *)

LEMMA HistoryFacts ==
    ASSUME NEW s \in Histories
    PROVE  /\ Len(s) \in Nat /\ Len(s) >= 1
           /\ Last(s) = s[Len(s)] /\ Last(s) \in Snapshots
           /\ \A i \in 1 .. Len(s) : s[i] \in Snapshots
  BY SMTT(30) DEF Histories, Last

LEMMA HistoryGrows ==
    ASSUME NEW s \in Histories, NEW e \in Snapshots
    PROVE  /\ Append(s, e) \in Histories
           /\ Len(Append(s, e)) = Len(s) + 1
           /\ Last(Append(s, e)) = e
           /\ Append(s, e)[Len(s) + 1] = e
           /\ \A i \in 1 .. Len(s) : Append(s, e)[i] = s[i]
  BY SMTT(30) DEF Histories, Last

LEMMA AncestryFacts ==
    ASSUME NEW c \in Ancestries, TransferConstants
    PROVE  /\ Len(c) \in 1 .. MaxGeneration
           /\ Last(c) = c[Len(c)] /\ Last(c) \in Epochs
           /\ \A i \in 1 .. Len(c) : c[i] \in Epochs
  BY SMTT(30) DEF Ancestries, Last, TransferConstants

LEMMA AncestryGrows ==
    ASSUME NEW c \in Ancestries, NEW e \in Epochs, Len(c) < MaxGeneration, TransferConstants
    PROVE  /\ Append(c, e) \in Ancestries
           /\ Len(Append(c, e)) = Len(c) + 1
           /\ Last(Append(c, e)) = e
           /\ Append(c, e)[Len(c) + 1] = e
           /\ \A i \in 1 .. Len(c) : Append(c, e)[i] = c[i]
  BY SMTT(30) DEF Ancestries, Last, TransferConstants

LEMMA AncestryPrefix ==
    ASSUME NEW c \in Ancestries, NEW g \in 1 .. Len(c), TransferConstants
    PROVE  /\ SubSeq(c, 1, g) \in Ancestries
           /\ Len(SubSeq(c, 1, g)) = g
           /\ \A i \in 1 .. g : SubSeq(c, 1, g)[i] = c[i]
  BY SMTT(30) DEF Ancestries, TransferConstants

(* The daemon's same_transfer compares everything but the phase. *)
LEMMA SameIsAlike ==
    ASSUME NEW t \in Transfers, NEW u \in Transfers
    PROVE  same_transfer(t, u) <=> Alike(t, u)
  BY SMTT(30) DEF Transfers, same_transfer, Alike

LEMMA PhaseAlike ==
    ASSUME NEW t \in Transfers, NEW f \in {"Prepared", "Accepted", "Committed"}
    PROVE  /\ [t EXCEPT !.phase = f] \in Transfers
           /\ Alike([t EXCEPT !.phase = f], t)
           /\ [t EXCEPT !.phase = f].phase = f
  BY SMTT(30) DEF Transfers, Alike

-----------------------------------------------------------------------------
(* Types                                                                   *)

LEMMA HostFacts ==
    ASSUME TransferTyped, TransferConstants, NEW p \in Hosts
    PROVE  /\ chain[p] \in Ancestries /\ snaps[p] \in Histories
           /\ generation(p) \in 1 .. MaxGeneration /\ authority(p) \in Hosts
           /\ latest_snapshot(p) \in Snapshots
           /\ Len(snaps[p]) \in Nat /\ Len(snaps[p]) >= 1
<1>1. chain[p] \in Ancestries /\ snaps[p] \in Histories
  BY DEF TransferTyped
<1>2. Last(chain[p]) \in Epochs /\ Len(chain[p]) \in 1 .. MaxGeneration
  BY <1>1, AncestryFacts
<1>3. authority(p) \in Hosts
  BY <1>2, SMTT(30) DEF authority, Epochs
<1> QED
  BY <1>1, <1>2, <1>3, HistoryFacts DEF generation, latest_snapshot

(* A snapshot that p makes in the generation g of its epoch. *)
LEMMA SnapshotTyped ==
    ASSUME TransferTyped, TransferConstants, NEW p \in Hosts, NEW g \in 1 .. MaxGeneration,
           NEW content \in Hosts \X Nat
    PROVE  /\ snapshot(p, g, content) \in Snapshots
           /\ snapshot(p, g, content).no = Len(snaps[p]) + 1
           /\ snapshot(p, g, content).auth = p
           /\ snapshot(p, g, content).gen = g
  BY HostFacts, SMTT(30) DEF snapshot, Snapshots

LEMMA RootTyped ==
    ASSUME TransferTyped, TransferConstants, NEW p \in Hosts
    PROVE  /\ latest_snapshot(p).root \in Hosts \X Nat
           /\ latest_snapshot(p).gen \in 1 .. MaxGeneration
           /\ <<p, Len(snaps[p]) + 1>> \in Hosts \X Nat
  BY HostFacts, SMTT(30) DEF Snapshots

(* What a step may add to the history of p: a snapshot of its own, or the  *)
(* next one of another host, made by the authority of its own epoch.       *)
OwnSnapshot(p, g, s) ==
    /\ s \in Snapshots /\ s.no = Len(snaps[p]) + 1 /\ s.auth = p /\ s.gen = g
    /\ snaps' = [snaps EXCEPT ![p] = Append(@, s)]

Replicated(p) ==
    \E q \in Hosts :
        /\ Len(snaps[q]) = Len(snaps[p]) + 1 /\ Front(snaps[q]) = snaps[p]
        /\ latest_snapshot(q).gen = generation(p) /\ latest_snapshot(q).auth = authority(p)
        /\ snaps' = [snaps EXCEPT ![p] = snaps[q]]

(* A launch writes the promoted snapshot unless it is there already. *)
LEMMA LaunchSnapshot ==
    ASSUME TransferTyped, TransferConstants, NEW p \in Hosts, Launch(p)
    PROVE  UNCHANGED snaps \/ \E s : OwnSnapshot(p, generation(p), s)
<1>1. snaps' = [snaps EXCEPT ![p] = Promoted(p)]
  BY DEF Launch
<1>2. CASE latest_snapshot(p).gen < generation(p)
  <2> DEFINE s == snapshot(p, generation(p), latest_snapshot(p).root)
  <2>1. snaps' = [snaps EXCEPT ![p] = Append(@, s)]
    BY <1>1, <1>2, SMTT(30) DEF Promoted, TransferTyped
  <2>2. latest_snapshot(p).root \in Hosts \X Nat /\ generation(p) \in 1 .. MaxGeneration
    BY RootTyped, HostFacts
  <2>3. s \in Snapshots /\ s.no = Len(snaps[p]) + 1 /\ s.auth = p /\ s.gen = generation(p)
    BY <2>2, SnapshotTyped, SMTT(30)
  <2> QED
    BY <2>1, <2>3 DEF OwnSnapshot
<1>3. CASE ~(latest_snapshot(p).gen < generation(p))
  BY <1>1, <1>3, SMTT(30) DEF Promoted, TransferTyped
<1> QED
  BY <1>2, <1>3

LEMMA EndSnapshot ==
    ASSUME TransferTyped, TransferConstants, NEW p \in Hosts, Ends(p)
    PROVE  IF ensure_authority_generation(p) THEN \E s : OwnSnapshot(p, generation(p), s)
           ELSE UNCHANGED snaps
<1>1. CASE ensure_authority_generation(p)
  <2>1. PICK s \in checkpoints(p) : snaps' = [snaps EXCEPT ![p] = Append(@, s)]
    BY <1>1 DEF Ends
  <2>2. PICK content \in {latest_snapshot(p).root, <<p, Len(snaps[p]) + 1>>} :
               s = snapshot(p, generation(p), content)
    BY <2>1 DEF checkpoints
  <2>3. content \in Hosts \X Nat
    BY <2>2, RootTyped
  <2>4. s \in Snapshots /\ s.no = Len(snaps[p]) + 1 /\ s.auth = p /\ s.gen = generation(p)
    BY <2>2, <2>3, SnapshotTyped, HostFacts, SMTT(30)
  <2> QED
    BY <1>1, <2>1, <2>4 DEF OwnSnapshot
<1>2. CASE ~ensure_authority_generation(p)
  BY <1>2 DEF Ends
<1> QED
  BY <1>1, <1>2

-----------------------------------------------------------------------------
(* Every step is one of seven kinds                                        *)

Launches(p) ==
    /\ authority(p) = p /\ ~asleep[p] /\ ~active(p)
    /\ UNCHANGED snaps \/ \E s : OwnSnapshot(p, generation(p), s)
    /\ serving' = [serving EXCEPT ![p] = generation(p)]
    /\ UNCHANGED <<chain, asleep, moving, tokens>>

Stops(p) ==
    /\ IF ensure_authority_generation(p) THEN \E s : OwnSnapshot(p, generation(p), s)
       ELSE UNCHANGED snaps
    /\ serving' = [serving EXCEPT ![p] = 0]
    /\ asleep' \in {asleep, [asleep EXCEPT ![p] = TRUE]}
    /\ UNCHANGED <<chain, moving, tokens>>

(* The source prepares at its latest snapshot and does not serve. *)
Prepares(p, t) ==
    /\ authority(p) = p /\ ~active(p)
    /\ UNCHANGED snaps \/ \E s : OwnSnapshot(p, generation(p), s)
    /\ t \in Transfers /\ t.phase = "Prepared"
    /\ t.from = p /\ t.next = generation(p) + 1 /\ t.base = Last(snaps'[p])
    /\ serving' \in {serving, [serving EXCEPT ![p] = 0]} /\ serving'[p] = 0
    /\ moving' = [moving EXCEPT ![p] = t]
    /\ tokens' = tokens \union {t}
    /\ UNCHANGED <<chain, asleep>>

(* A record is saved that differs from an issued one in phase only. *)
Stages(p, t) ==
    /\ t \in Transfers /\ \E u \in tokens : u \in Transfers /\ Alike(t, u)
    /\ active(p) => Alike(moving[p], t)
    /\ moving' = [moving EXCEPT ![p] = t]
    /\ tokens' = tokens \union {t}
    /\ UNCHANGED <<chain, snaps, serving, asleep>>

(* The next epoch of p, with what proves it. *)
Advances(p, c) ==
    /\ c \in Ancestries /\ Len(c) = generation(p) + 1
    /\ \A i \in 1 .. generation(p) : c[i] = chain[p][i]
    /\ Last(c).mode = "Quorum" => HandedOver(c, Len(c))
    /\ chain' = [chain EXCEPT ![p] = c]
    /\ asleep' = [asleep EXCEPT ![p] = FALSE]
    /\ UNCHANGED snaps \/ \E s : OwnSnapshot(p, generation(p) + 1, s)
    /\ \/ UNCHANGED moving
       \/ \E t \in tokens : t \in Transfers /\ moving' = [moving EXCEPT ![p] = t]
    /\ tokens' \in {tokens, tokens \union {[phase |-> "Epoch", chain |-> c]}}
    /\ UNCHANGED serving

LEMMA FrontFacts ==
    ASSUME TransferConstants, NEW c \in Ancestries, NEW d \in Ancestries, Front(c) = d
    PROVE  Len(c) = Len(d) + 1 /\ \A i \in 1 .. Len(d) : c[i] = d[i]
  BY SMTT(30) DEF Ancestries, Front, TransferConstants

LEMMA LaunchKind ==
    ASSUME TransferInv, TransferConstants, NEW p \in Hosts, Launch(p)
    PROVE  Launches(p)
<1>1. UNCHANGED snaps \/ \E s : OwnSnapshot(p, generation(p), s)
  BY LaunchSnapshot DEF TransferInv
<1> QED
  BY <1>1 DEF Launch, launch_allowed, Launches

LEMMA StopKind ==
    ASSUME TransferInv, TransferConstants, NEW p \in Hosts, request_world_stop(p)
    PROVE  Stops(p)
<1>1. Ends(p)
  BY DEF request_world_stop
<1>2. IF ensure_authority_generation(p) THEN \E s : OwnSnapshot(p, generation(p), s)
      ELSE UNCHANGED snaps
  BY <1>1, EndSnapshot DEF TransferInv
<1>3. asleep' \in {asleep, [asleep EXCEPT ![p] = TRUE]}
  BY DEF request_world_stop
<1>4. UNCHANGED chain /\ serving' = [serving EXCEPT ![p] = 0]
  BY <1>1 DEF Ends
<1>5. UNCHANGED <<moving, tokens>>
  BY DEF request_world_stop
<1> QED
  BY <1>2, <1>3, <1>4, <1>5 DEF Stops

LEMMA PreparedTyped ==
    ASSUME TransferTyped, TransferConstants, NEW p \in Hosts, NEW q \in Hosts, NEW b \in Snapshots
    PROVE  LET t == create_prepared_transfer(p, q, b)
           IN  /\ t \in Transfers /\ t.phase = "Prepared"
               /\ t.from = p /\ t.next = generation(p) + 1 /\ t.base = b
<1>1. generation(p) \in 1 .. MaxGeneration /\ MaxGeneration \in Nat
  BY HostFacts DEF TransferConstants
<1> QED
  BY <1>1, SMTT(30) DEF create_prepared_transfer, Transfers

LEMMA PrepareRunningKind ==
    ASSUME TransferInv, TransferConstants, NEW p \in Hosts, NEW q \in Hosts, prepare_running(p, q)
    PROVE  \E t : Prepares(p, t)
<1> DEFINE t == create_prepared_transfer(p, q, Last(snaps'[p]))
<1>1. Ends(p) /\ ensure_authority_generation(p) /\ validate_transfer_target(p, q)
  BY DEF prepare_running
<1>2. PICK s : OwnSnapshot(p, generation(p), s)
  BY <1>1, EndSnapshot DEF TransferInv
<1>3. snaps[p] \in Histories /\ s \in Snapshots /\ snaps'[p] = Append(snaps[p], s)
  BY <1>2, HostFacts DEF OwnSnapshot, TransferInv, TransferTyped
<1>4. Last(snaps'[p]) \in Snapshots
  BY <1>3, HistoryGrows
<1>5. /\ t \in Transfers /\ t.phase = "Prepared"
      /\ t.from = p /\ t.next = generation(p) + 1 /\ t.base = Last(snaps'[p])
  BY <1>4, PreparedTyped DEF TransferInv
<1>6. moving' = [moving EXCEPT ![p] = t] /\ tokens' = tokens \union {t} /\ UNCHANGED asleep
  BY DEF prepare_running, Issue
<1>7. UNCHANGED chain /\ serving' = [serving EXCEPT ![p] = 0]
  BY <1>1 DEF Ends
<1>8. serving'[p] = 0
  BY <1>7 DEF TransferInv, TransferTyped
<1>9. authority(p) = p /\ ~active(p)
  BY <1>1 DEF ensure_authority_generation, validate_transfer_target
<1> HIDE DEF t
<1> QED
  BY <1>2, <1>5, <1>6, <1>7, <1>8, <1>9 DEF Prepares

LEMMA PrepareAsleepKind ==
    ASSUME TransferInv, TransferConstants, NEW p \in Hosts, NEW q \in Hosts, prepare_asleep(p, q)
    PROVE  \E t : Prepares(p, t)
<1> DEFINE t == create_prepared_transfer(p, q, latest_snapshot(p))
<1>1. authority(p) = p /\ asleep[p] /\ ~active(p)
  BY DEF prepare_asleep, validate_transfer_target
<1>2. /\ moving' = [moving EXCEPT ![p] = t] /\ tokens' = tokens \union {t}
      /\ UNCHANGED <<chain, snaps, serving, asleep>>
  BY DEF prepare_asleep, Issue
<1>3. serving[p] = 0
  BY <1>1 DEF TransferInv, HostConsistent
<1>4. latest_snapshot(p) \in Snapshots
  BY HostFacts DEF TransferInv
<1>5. /\ t \in Transfers /\ t.phase = "Prepared"
      /\ t.from = p /\ t.next = generation(p) + 1 /\ t.base = latest_snapshot(p)
  BY <1>4, PreparedTyped DEF TransferInv
<1>6. latest_snapshot(p) = Last(snaps'[p])
  BY <1>2 DEF latest_snapshot
<1> HIDE DEF t
<1> QED
  BY <1>1, <1>2, <1>3, <1>5, <1>6 DEF Prepares

LEMMA TokenKinds ==
    ASSUME TransferTyped, NEW t \in tokens
    PROVE  /\ t.phase # "Epoch" => t \in Transfers
           /\ t.phase = "Epoch" => t \in EpochTokens /\ t.chain \in Ancestries
           /\ t \in Transfers => t.phase # "Epoch"
<1>1. t \in Transfers \/ t \in EpochTokens
  BY DEF TransferTyped
<1>2. t \in EpochTokens => t.phase = "Epoch" /\ t.chain \in Ancestries
  BY SMTT(30) DEF EpochTokens
<1>3. t \in Transfers => t.phase # "Epoch"
  BY SMTT(30) DEF Transfers
<1> QED
  BY <1>1, <1>2, <1>3

LEMMA AcceptKind ==
    ASSUME TransferInv, TransferConstants, NEW p \in Hosts, accept_manual_transfer(p)
    PROVE  \E t : Stages(p, t)
<1>1. PICK t \in tokens : /\ t.phase = "Prepared"
                          /\ Continues(t, p, {"Prepared"})
                          /\ Stage(p, [t EXCEPT !.phase = "Accepted"])
  BY DEF accept_manual_transfer
<1> DEFINE u == [t EXCEPT !.phase = "Accepted"]
<1>2. t \in Transfers
  BY <1>1, TokenKinds DEF TransferInv
<1>3. u \in Transfers /\ Alike(u, t)
  BY <1>2, PhaseAlike
<1>4. active(p) => Alike(moving[p], u)
  BY <1>1, <1>2, <1>3, SameIsAlike
    DEF Continues, Alike, active, TransferInv, TransferTyped
<1>5. /\ moving' = [moving EXCEPT ![p] = u] /\ tokens' = tokens \union {u}
      /\ UNCHANGED <<chain, snaps, serving, asleep>>
  BY <1>1 DEF Stage, Issue
<1> HIDE DEF u
<1> QED
  BY <1>1, <1>2, <1>3, <1>4, <1>5 DEF Stages

LEMMA CommitKind ==
    ASSUME TransferInv, TransferConstants, NEW p \in Hosts, commit_manual_transfer(p)
    PROVE  \E t : Stages(p, t)
<1>1. PICK t \in tokens : /\ t.phase = "Accepted"
                          /\ Continues(t, p, {"Prepared", "Accepted"})
                          /\ Stage(p, [t EXCEPT !.phase = "Committed"])
  BY DEF commit_manual_transfer
<1> DEFINE u == [t EXCEPT !.phase = "Committed"]
<1>2. t \in Transfers
  BY <1>1, TokenKinds DEF TransferInv
<1>3. u \in Transfers /\ Alike(u, t)
  BY <1>2, PhaseAlike
<1>4. active(p) => Alike(moving[p], u)
  BY <1>1, <1>2, <1>3, SameIsAlike
    DEF Continues, Alike, active, TransferInv, TransferTyped
<1>5. /\ moving' = [moving EXCEPT ![p] = u] /\ tokens' = tokens \union {u}
      /\ UNCHANGED <<chain, snaps, serving, asleep>>
  BY <1>1 DEF Stage, Issue
<1> HIDE DEF u
<1> QED
  BY <1>1, <1>2, <1>3, <1>4, <1>5 DEF Stages

LEMMA PushedKind ==
    ASSUME TransferInv, TransferConstants, NEW p \in Hosts, NEW q \in Hosts, AuthorityTransfer(q, p)
    PROVE  \E t : Stages(p, t)
<1>1. /\ moving[q] # NoRecord /\ validate_transfer(p, moving[q])
      /\ moving' = [moving EXCEPT ![p] = moving[q]]
      /\ UNCHANGED <<chain, snaps, serving, asleep, tokens>>
  BY DEF AuthorityTransfer
<1>2. moving[q] \in Transfers /\ moving[q] \in tokens
  BY <1>1 DEF TransferInv, TransferTyped, HostConsistent
<1>3. active(p) => Alike(moving[p], moving[q])
  BY <1>1, <1>2, SameIsAlike DEF validate_transfer, active, TransferInv, TransferTyped
<1>4. tokens' = tokens \union {moving[q]}
  BY <1>1, <1>2
<1> QED
  BY <1>1, <1>2, <1>3, <1>4 DEF Stages, Alike

(* The epoch a host would write next. *)
LEMMA EpochTyped ==
    ASSUME TransferTyped, TransferConstants, NEW p \in Hosts, NEW mode \in {"Quorum", "Recovery"}
    PROVE  LET e == epoch_record(p, mode, latest_snapshot(p).root)
           IN  /\ e \in Epochs /\ e.auth = p /\ e.mode = mode
               /\ e.base = latest_snapshot(p).root
<1>1. latest_snapshot(p).root \in Hosts \X Nat
  BY RootTyped
<1> QED
  BY <1>1, SMTT(30) DEF epoch_record, Epochs

LEMMA ActivateKind ==
    ASSUME TransferInv, TransferConstants, NEW p \in Hosts, activate_manual_transfer(p)
    PROVE  \E c : Advances(p, c)
<1> DEFINE e == epoch_record(p, "Quorum", latest_snapshot(p).root)
<1> DEFINE c == Append(chain[p], e)
<1>1. PICK t \in tokens :
        /\ t.phase = "Committed" /\ t.to = p
        /\ validate_transfer_record(t, p)
        /\ generation(p) < MaxGeneration
        /\ chain' = [chain EXCEPT ![p] = c]
        /\ tokens' = tokens \union {[phase |-> "Epoch", chain |-> c]}
        /\ moving' = [moving EXCEPT ![p] = t]
        /\ asleep' = [asleep EXCEPT ![p] = FALSE]
        /\ UNCHANGED <<snaps, serving>>
  BY DEF activate_manual_transfer, Issue
<1>2. t \in Transfers
  BY <1>1, TokenKinds DEF TransferInv
<1>3. e \in Epochs /\ e.auth = p /\ e.base = latest_snapshot(p).root
  BY EpochTyped DEF TransferInv
<1>4. chain[p] \in Ancestries /\ Len(chain[p]) = generation(p) /\ generation(p) \in 1 .. MaxGeneration
  BY HostFacts DEF TransferInv, generation
<1> HIDE DEF e
<1>0. Len(chain[p]) < MaxGeneration
  BY <1>1 DEF generation
<1>5. /\ c \in Ancestries /\ Len(c) = generation(p) + 1 /\ Last(c) = e
      /\ c[generation(p) + 1] = e
      /\ \A i \in 1 .. generation(p) : c[i] = chain[p][i]
  BY <1>0, <1>3, <1>4, AncestryGrows DEF generation
<1>6. authority(p) = chain[p][generation(p)]["auth"]
  BY <1>4, AncestryFacts DEF authority
<1> HIDE DEF c
<1>7. Len(c) - 1 = generation(p) /\ c[Len(c) - 1] = chain[p][generation(p)] /\ c[Len(c)] = e
  BY <1>4, <1>5, SMTT(30)
<1>8. t.from = authority(p) /\ t.next = Len(c) /\ t.base = latest_snapshot(p)
  BY <1>1, <1>5 DEF validate_transfer_record, transfer_is_source_generation
<1>9. HandedOver(c, Len(c))
  BY <1>1, <1>2, <1>3, <1>6, <1>7, <1>8 DEF HandedOver
<1> QED
  BY <1>1, <1>2, <1>5, <1>9 DEF Advances

(* An epoch that p takes from another host or from a token. *)
LEMMA FollowsKind ==
    ASSUME TransferInv, TransferConstants, NEW p \in Hosts, NEW c \in Ancestries, Follows(p, c),
           Last(c).mode = "Quorum" => HandedOver(c, Len(c))
    PROVE  Advances(p, c)
<1>1. Len(c) = generation(p) + 1 /\ Front(c) = chain[p]
  BY DEF Follows
<1>2. chain[p] \in Ancestries
  BY HostFacts DEF TransferInv
<1>3. \A i \in 1 .. generation(p) : c[i] = chain[p][i]
  BY <1>1, <1>2, FrontFacts DEF generation
<1> QED
  BY <1>1, <1>3 DEF Follows, Advances

LEMMA ObserveKind ==
    ASSUME TransferInv, TransferConstants, NEW p \in Hosts, observe_manual_transfer_epoch(p)
    PROVE  \E c : Advances(p, c)
<1>1. PICK t \in tokens : t.phase = "Epoch" /\ Follows(p, t.chain)
  BY DEF observe_manual_transfer_epoch
<1>2. t.chain \in Ancestries /\ Ancestral(t.chain)
  BY <1>1, TokenKinds DEF TransferInv, EpochsAncestral
<1>3. Len(t.chain) \in 2 .. Len(t.chain) /\ Last(t.chain) = t.chain[Len(t.chain)]
  <2>1. Len(t.chain) = generation(p) + 1 /\ generation(p) \in 1 .. MaxGeneration /\ MaxGeneration \in Nat
    BY <1>1, HostFacts DEF Follows, TransferInv, TransferConstants
  <2>2. Last(t.chain) = t.chain[Len(t.chain)]
    BY <1>2, AncestryFacts
  <2> QED
    BY <2>1, <2>2, SMTT(30)
<1>4. Last(t.chain).mode = "Quorum" => HandedOver(t.chain, Len(t.chain))
  BY <1>2, <1>3 DEF Ancestral
<1> QED
  BY <1>1, <1>2, <1>4, FollowsKind

LEMMA EpochKind ==
    ASSUME TransferInv, TransferConstants, NEW p \in Hosts, NEW q \in Hosts, EpochTo(q, p)
    PROVE  \E c : Advances(p, c)
<1>1. PICK g \in 2 .. Len(chain[q]) : Follows(p, SubSeq(chain[q], 1, g))
  BY DEF EpochTo
<1> DEFINE c == SubSeq(chain[q], 1, g)
<1>2. chain[q] \in Ancestries /\ Ancestral(chain[q]) /\ Len(chain[q]) \in 1 .. MaxGeneration
  BY HostFacts DEF TransferInv, EpochsAncestral, generation
<1>3. g \in 1 .. Len(chain[q]) /\ g - 1 \in 1 .. g /\ g \in 1 .. g
  BY <1>2, SMTT(30) DEF TransferConstants
<1>4. c \in Ancestries /\ Len(c) = g /\ \A i \in 1 .. g : c[i] = chain[q][i]
  BY <1>2, <1>3, AncestryPrefix
<1>5. Last(c) = c[g]
  BY <1>4, AncestryFacts
<1> HIDE DEF c
<1>6. Last(c).mode = "Quorum" => HandedOver(chain[q], g)
  BY <1>2, <1>3, <1>4, <1>5 DEF Ancestral
<1>7. HandedOver(chain[q], g) => HandedOver(c, Len(c))
  BY <1>3, <1>4 DEF HandedOver
<1>8. Advances(p, c)
  BY <1>1, <1>4, <1>6, <1>7, FollowsKind DEF c
<1> QED
  BY <1>8

LEMMA RecoveredKind ==
    ASSUME TransferInv, TransferConstants, NEW p \in Hosts, Recovered(p)
    PROVE  \E c : Advances(p, c)
<1> DEFINE base == latest_snapshot(p).root
           e == epoch_record(p, "Recovery", base)
           c == Append(chain[p], e)
           s == snapshot(p, generation(p) + 1, base)
<1>1. /\ promised[p] = [gen |-> generation(p), cand |-> p]
      /\ chain' = [chain EXCEPT ![p] = Append(@, e)]
      /\ snaps' = [snaps EXCEPT ![p] = Append(@, s)]
      /\ asleep' = [asleep EXCEPT ![p] = FALSE]
      /\ UNCHANGED <<serving, moving, tokens>>
  BY DEF Recovered
<1>2. e \in Epochs /\ e.mode = "Recovery"
  BY EpochTyped DEF TransferInv
<1>3. generation(p) < MaxGeneration
  <2>1. promised[p] \in Promises /\ promised[p].gen = generation(p) /\ promised[p].cand = p
    BY <1>1, HostFacts, SMTT(30) DEF Promises, TransferInv
  <2>2. promised[p] # NoRecord
    BY <2>1 DEF TransferConstants
  <2> QED
    BY <2>1, <2>2 DEF TransferInv, OwnPromiseBelow
<1>4. chain[p] \in Ancestries /\ Len(chain[p]) = generation(p) /\ generation(p) \in 1 .. MaxGeneration
  BY HostFacts DEF TransferInv, generation
<1>5. generation(p) + 1 \in 1 .. MaxGeneration
  BY <1>3, <1>4, SMTT(30) DEF TransferConstants
<1>6. base \in Hosts \X Nat
  BY RootTyped DEF TransferInv
<1>7. s \in Snapshots /\ s.no = Len(snaps[p]) + 1 /\ s.auth = p /\ s.gen = generation(p) + 1
  BY <1>5, <1>6, SnapshotTyped, SMTT(30) DEF TransferInv
<1> HIDE DEF e, s
<1>8. /\ c \in Ancestries /\ Len(c) = generation(p) + 1 /\ Last(c) = e
      /\ \A i \in 1 .. generation(p) : c[i] = chain[p][i]
  BY <1>2, <1>3, <1>4, AncestryGrows DEF generation
<1>9. chain' = [chain EXCEPT ![p] = c]
  BY <1>1 DEF TransferInv, TransferTyped
<1>10. OwnSnapshot(p, generation(p) + 1, s)
  BY <1>1, <1>7 DEF OwnSnapshot
<1>11. Last(c).mode # "Quorum"
  BY <1>2, <1>8
<1> HIDE DEF c
<1> QED
  BY <1>1, <1>8, <1>9, <1>10, <1>11 DEF Advances

LEMMA RecoveryEpochKind ==
    ASSUME TransferInv, TransferConstants, NEW p \in Hosts, NEW q \in Hosts, RecoveryEpochTo(q, p)
    PROVE  \E c : Advances(p, c)
<1>1. /\ Last(chain[q]).mode = "Recovery" /\ Front(chain[q]) = chain[p]
      /\ chain' = [chain EXCEPT ![p] = chain[q]]
      /\ asleep' = [asleep EXCEPT ![p] = FALSE]
      /\ UNCHANGED <<snaps, serving, moving, tokens>>
  BY DEF RecoveryEpochTo
<1>2. chain[p] \in Ancestries /\ chain[q] \in Ancestries
  BY HostFacts DEF TransferInv
<1>3. Len(chain[q]) = generation(p) + 1 /\ \A i \in 1 .. generation(p) : chain[q][i] = chain[p][i]
  BY <1>1, <1>2, FrontFacts DEF generation
<1> QED
  BY <1>1, <1>2, <1>3 DEF Advances

Quiet == UNCHANGED <<chain, snaps, serving, asleep, moving, tokens>>

Replicates(p) == Replicated(p) /\ UNCHANGED <<chain, serving, asleep, moving, tokens>>

Kind(p) ==
    \/ Quiet \/ Launches(p) \/ Stops(p) \/ Replicates(p)
    \/ \E t : Prepares(p, t) \/ Stages(p, t)
    \/ \E c : Advances(p, c)

LEMMA EveryKind ==
    ASSUME TransferInv, TransferConstants, [TransferNext]_transferVars
    PROVE  Quiet \/ \E p \in Hosts : Kind(p)
<1>1. CASE UNCHANGED transferVars
  BY <1>1 DEF transferVars, Quiet
<1>2. CASE TransferNext
  <2>1. ASSUME NEW p \in Hosts, Launch(p) \/ request_world_stop(p) PROVE Kind(p)
    BY <2>1, LaunchKind, StopKind DEF Kind
  <2>2. ASSUME NEW p \in Hosts, accept_manual_transfer(p) \/ commit_manual_transfer(p) PROVE Kind(p)
    BY <2>2, AcceptKind, CommitKind DEF Kind
  <2>3. ASSUME NEW p \in Hosts,
               activate_manual_transfer(p) \/ observe_manual_transfer_epoch(p) \/ Recovered(p)
        PROVE  Kind(p)
    BY <2>3, ActivateKind, ObserveKind, RecoveredKind DEF Kind
  <2>4. ASSUME NEW p \in Hosts, drive_recovery_ballot(p) \/ maintain_local_authority(p) PROVE Kind(p)
    BY <2>4 DEF drive_recovery_ballot, maintain_local_authority, Quiet, Kind
  <2>5. ASSUME NEW p \in Hosts, NEW q \in Hosts, prepare_running(p, q) \/ prepare_asleep(p, q)
        PROVE  Kind(p)
    BY <2>5, PrepareRunningKind, PrepareAsleepKind DEF Kind
  <2>6. ASSUME NEW p \in Hosts, NEW q \in Hosts, EpochTo(q, p) \/ RecoveryEpochTo(q, p)
        PROVE  Kind(p)
    BY <2>6, EpochKind, RecoveryEpochKind DEF Kind
  <2>7. ASSUME NEW p \in Hosts, NEW q \in Hosts, AuthorityTransfer(q, p) PROVE Kind(p)
    BY <2>7, PushedKind DEF Kind
  <2>8. ASSUME NEW p \in Hosts, NEW q \in Hosts, SnapshotManifest(q, p) PROVE Kind(p)
    BY <2>8 DEF SnapshotManifest, Replicated, Replicates, Kind
  <2>9. ASSUME NEW p \in Hosts, NEW q \in Hosts, RecoveryBallotTo(p, q) PROVE Kind(p)
    BY <2>9 DEF RecoveryBallotTo, Quiet, Kind
  <2> QED
    BY <1>2, <2>1, <2>2, <2>3, <2>4, <2>5, <2>6, <2>7, <2>8, <2>9 DEF TransferNext
<1> QED
  BY <1>1, <1>2

-----------------------------------------------------------------------------
(* Histories only grow, and stay shared                                    *)

SnapsStep(p) ==
    UNCHANGED snaps \/ (\E g, s : OwnSnapshot(p, g, s)) \/ Replicated(p)

LEMMA KindSnaps ==
    ASSUME NEW p \in Hosts, Kind(p)
    PROVE  SnapsStep(p)
  BY DEF Kind, Quiet, Launches, Stops, Replicates, Prepares, Stages, Advances, SnapsStep

LEMMA HistoryFront ==
    ASSUME NEW s \in Histories, NEW r \in Histories, Len(r) = Len(s) + 1, Front(r) = s
    PROVE  \A i \in 1 .. Len(s) : r[i] = s[i]
  BY SMTT(30) DEF Histories, Front

Extends(q) ==
    /\ snaps'[q] \in Histories
    /\ Len(snaps[q]) <= Len(snaps'[q])
    /\ \A i \in 1 .. Len(snaps[q]) : snaps'[q][i] = snaps[q][i]

LEMMA SnapsGrow ==
    ASSUME TransferTyped, TransferConstants, NEW p \in Hosts, SnapsStep(p)
    PROVE  /\ snaps' \in [Hosts -> Histories]
           /\ \A q \in Hosts : Extends(q)
           /\ \A q \in Hosts \ {p} : snaps'[q] = snaps[q]
<1>0. /\ snaps \in [Hosts -> Histories]
      /\ \A q \in Hosts : snaps[q] \in Histories /\ Len(snaps[q]) \in Nat
  BY HostFacts DEF TransferTyped
<1>1. ASSUME NEW h \in Histories, snaps' = [snaps EXCEPT ![p] = h], Len(snaps[p]) <= Len(h),
             \A i \in 1 .. Len(snaps[p]) : h[i] = snaps[p][i]
      PROVE  /\ snaps' \in [Hosts -> Histories]
             /\ \A q \in Hosts : Extends(q)
             /\ \A q \in Hosts \ {p} : snaps'[q] = snaps[q]
  <2>1. snaps' \in [Hosts -> Histories] /\ snaps'[p] = h
    BY <1>0, <1>1
  <2>2. ASSUME NEW q \in Hosts \ {p} PROVE snaps'[q] = snaps[q]
    BY <1>0, <1>1
  <2>3. ASSUME NEW q \in Hosts PROVE Extends(q)
    <3>1. CASE q = p
      BY <1>1, <2>1, <3>1 DEF Extends
    <3>2. CASE q # p
      BY <1>0, <2>2, <3>2, SMTT(30) DEF Extends
    <3> QED
      BY <3>1, <3>2
  <2> QED
    BY <2>1, <2>2, <2>3
<1>2. CASE UNCHANGED snaps
  BY <1>0, <1>2, SMTT(30) DEF Extends
<1>3. CASE \E g, s : OwnSnapshot(p, g, s)
  <2>1. PICK g, s : OwnSnapshot(p, g, s)
    BY <1>3
  <2>2. s \in Snapshots /\ snaps' = [snaps EXCEPT ![p] = Append(snaps[p], s)]
    BY <1>0, <2>1 DEF OwnSnapshot
  <2>3. /\ Append(snaps[p], s) \in Histories /\ Len(Append(snaps[p], s)) = Len(snaps[p]) + 1
        /\ \A i \in 1 .. Len(snaps[p]) : Append(snaps[p], s)[i] = snaps[p][i]
    BY <1>0, <2>2, HistoryGrows
  <2>4. Len(snaps[p]) <= Len(Append(snaps[p], s))
    BY <1>0, <2>3, SMTT(30)
  <2> QED
    BY <1>1, <2>2, <2>3, <2>4
<1>4. CASE Replicated(p)
  <2>1. PICK r \in Hosts : /\ Len(snaps[r]) = Len(snaps[p]) + 1 /\ Front(snaps[r]) = snaps[p]
                           /\ snaps' = [snaps EXCEPT ![p] = snaps[r]]
    BY <1>4 DEF Replicated
  <2>2. \A i \in 1 .. Len(snaps[p]) : snaps[r][i] = snaps[p][i]
    BY <1>0, <2>1, HistoryFront
  <2>3. Len(snaps[p]) <= Len(snaps[r])
    BY <1>0, <2>1, SMTT(30)
  <2> QED
    BY <1>0, <1>1, <2>1, <2>2, <2>3
<1> QED
  BY <1>2, <1>3, <1>4 DEF SnapsStep

(* What a host shares it keeps sharing. *)
LEMMA SharesKept ==
    ASSUME TransferTyped, TransferConstants, NEW q \in Hosts, NEW i \in 1 .. Len(snaps[q]), Shares(q, i),
           \A r \in Hosts : Extends(r), NEW r \in Hosts,
           NEW h \in Histories, h = snaps'[r], i <= Len(h), \A j \in 1 .. i : h[j] = snaps[q][j]
    PROVE  Shares(r, i)'
<1> DEFINE a == snaps[q][i].auth
<1>0. snaps[q] \in Histories /\ Len(snaps[q]) \in Nat /\ i \in Nat /\ i >= 1
  BY HostFacts, SMTT(30)
<1>1. snaps[q][i] \in Snapshots
  BY <1>0, HistoryFacts
<1>2. a \in Hosts
  BY <1>1, SMTT(30) DEF Snapshots
<1>3. snaps[q][i].no = i /\ i <= Len(snaps[a]) /\ \A j \in 1 .. i : snaps[a][j] = snaps[q][j]
  BY DEF Shares
<1>4. /\ Len(snaps[a]) \in Nat /\ Len(snaps'[a]) \in Nat /\ Len(snaps[a]) <= Len(snaps'[a])
      /\ \A j \in 1 .. Len(snaps[a]) : snaps'[a][j] = snaps[a][j]
  BY <1>2, HostFacts, HistoryFacts DEF Extends
<1> HIDE DEF a
<1>5. snaps'[r][i] = snaps[q][i]
  BY <1>0, SMTT(30)
<1>6. i <= Len(snaps'[a]) /\ \A j \in 1 .. i : snaps'[a][j] = snaps'[r][j]
  BY <1>0, <1>3, <1>4, SMTT(30)
<1> QED
  BY <1>3, <1>5, <1>6 DEF Shares, a

LEMMA SharedStep ==
    ASSUME TransferTyped, TransferConstants, SnapshotsShared, NEW p \in Hosts, SnapsStep(p)
    PROVE  SnapshotsShared'
<1>0. /\ \A q \in Hosts : Extends(q) /\ snaps[q] \in Histories /\ Len(snaps[q]) \in Nat
      /\ \A q \in Hosts : snaps'[q] \in Histories
      /\ \A q \in Hosts \ {p} : snaps'[q] = snaps[q]
  BY SnapsGrow, HostFacts DEF Extends
<1>1. ASSUME NEW q \in Hosts, NEW i \in 1 .. Len(snaps[q]) PROVE Shares(q, i)'
  <2>1. Shares(q, i)
    BY DEF SnapshotsShared
  <2>2. i <= Len(snaps'[q]) /\ \A j \in 1 .. i : snaps'[q][j] = snaps[q][j]
    <3>1. /\ Len(snaps[q]) \in Nat /\ Len(snaps'[q]) \in Nat /\ Len(snaps[q]) <= Len(snaps'[q])
          /\ \A j \in 1 .. Len(snaps[q]) : snaps'[q][j] = snaps[q][j]
      BY <1>0, HistoryFacts DEF Extends
    <3> QED
      BY <3>1, SMTT(30)
  <2> QED
    BY <1>0, <2>1, <2>2, SharesKept
<1>2. ASSUME NEW i \in 1 .. Len(snaps'[p]), i \notin 1 .. Len(snaps[p]) PROVE Shares(p, i)'
  <2>1. ~UNCHANGED snaps
    BY <1>2
  <2>2. CASE \E g, s : OwnSnapshot(p, g, s)
    <3>1. PICK g, s : OwnSnapshot(p, g, s)
      BY <2>2
    <3>2. /\ s \in Snapshots /\ s.no = Len(snaps[p]) + 1 /\ s.auth = p
          /\ snaps'[p] = Append(snaps[p], s)
      BY <3>1 DEF OwnSnapshot, TransferTyped
    <3>a. /\ Len(Append(snaps[p], s)) = Len(snaps[p]) + 1
          /\ Append(snaps[p], s)[Len(snaps[p]) + 1] = s
      BY <1>0, <3>2, HistoryGrows
    <3>3. Len(snaps'[p]) = Len(snaps[p]) + 1 /\ snaps'[p][Len(snaps[p]) + 1] = s
      BY <3>2, <3>a
    <3>4. i = Len(snaps[p]) + 1 /\ i <= Len(snaps'[p])
      BY <1>0, <1>2, <3>3, SMTT(30)
    <3> QED
      BY <3>2, <3>3, <3>4 DEF Shares
  <2>3. CASE Replicated(p)
    <3>1. PICK r \in Hosts : Len(snaps[r]) = Len(snaps[p]) + 1 /\ snaps' = [snaps EXCEPT ![p] = snaps[r]]
      BY <2>3 DEF Replicated
    <3>2. snaps'[p] = snaps[r] /\ i \in 1 .. Len(snaps[r])
      BY <1>2, <3>1 DEF TransferTyped
    <3>3. Shares(r, i) /\ i <= Len(snaps[r]) /\ snaps[r] \in Histories
      BY <1>0, <3>2, SMTT(30) DEF SnapshotsShared
    <3> QED
      BY <1>0, <3>2, <3>3, SharesKept
  <2> QED
    BY <2>1, <2>2, <2>3 DEF SnapsStep
<1> QED
  BY <1>0, <1>1, <1>2 DEF SnapshotsShared

-----------------------------------------------------------------------------
(* The records stay well formed                                            *)

LEMMA FilesTyped ==
    ASSUME TransferInv, TransferConstants, NEW p \in Hosts, Kind(p)
    PROVE  /\ chain' \in [Hosts -> Ancestries]
           /\ serving' \in [Hosts -> 0 .. MaxGeneration]
           /\ asleep' \in [Hosts -> BOOLEAN]
           /\ moving' \in [Hosts -> Transfers \union {NoRecord}]
           /\ tokens' \subseteq Transfers \union EpochTokens
<1>0. TransferTyped /\ generation(p) \in 0 .. MaxGeneration /\ 0 \in 0 .. MaxGeneration
  <2>1. TransferTyped /\ generation(p) \in 1 .. MaxGeneration
    BY HostFacts DEF TransferInv
  <2> QED
    BY <2>1, SMTT(30) DEF TransferConstants
<1>1. chain' \in [Hosts -> Ancestries]
  BY <1>0 DEF Kind, Quiet, Launches, Stops, Replicates, Prepares, Stages, Advances, TransferTyped
<1>2. serving' \in [Hosts -> 0 .. MaxGeneration]
  BY <1>0 DEF Kind, Quiet, Launches, Stops, Replicates, Prepares, Stages, Advances, TransferTyped
<1>3. asleep' \in [Hosts -> BOOLEAN]
  <2>1. asleep' \in {asleep, [asleep EXCEPT ![p] = TRUE], [asleep EXCEPT ![p] = FALSE]}
    BY DEF Kind, Quiet, Launches, Stops, Replicates, Prepares, Stages, Advances
  <2>2. asleep \in [Hosts -> BOOLEAN] /\ TRUE \in BOOLEAN /\ FALSE \in BOOLEAN
    BY <1>0 DEF TransferTyped
  <2> QED
    BY <2>1, <2>2
<1>4. moving' \in [Hosts -> Transfers \union {NoRecord}]
  BY <1>0 DEF Kind, Quiet, Launches, Stops, Replicates, Prepares, Stages, Advances, TransferTyped
<1>5. tokens' \subseteq Transfers \union EpochTokens
  <2>1. \A c \in Ancestries : [phase |-> "Epoch", chain |-> c] \in EpochTokens
    BY SMTT(30) DEF EpochTokens
  <2>2. \/ tokens' = tokens
        \/ \E t \in Transfers : tokens' = tokens \union {t}
        \/ \E c \in Ancestries : tokens' = tokens \union {[phase |-> "Epoch", chain |-> c]}
    BY DEF Kind, Quiet, Launches, Stops, Replicates, Prepares, Stages, Advances
  <2> QED
    BY <1>0, <2>1, <2>2, SMTT(30) DEF TransferTyped
<1> QED
  BY <1>1, <1>2, <1>3, <1>4, <1>5

(* Promises and votes, for which the kinds do not matter. *)
LEMMA PromisesTyped ==
    ASSUME TransferTyped, OwnPromiseBelow, TransferConstants, [TransferNext]_transferVars
    PROVE  /\ promised' \in [Hosts -> Promises \union {NoRecord}]
           /\ voters' \in [Hosts -> SUBSET Hosts]
           /\ OwnPromiseBelow'
<1>0. promised \in [Hosts -> Promises \union {NoRecord}] /\ voters \in [Hosts -> SUBSET Hosts]
  BY DEF TransferTyped
<1>1. ASSUME NEW p \in Hosts, NEW c \in Hosts, promise_recovery_ballot(p, c),
             p = c => generation(c) < MaxGeneration
      PROVE  promised' \in [Hosts -> Promises \union {NoRecord}] /\ OwnPromiseBelow'
  <2>1. generation(c) \in 1 .. MaxGeneration
    BY HostFacts
  <2>2. [gen |-> generation(c), cand |-> c] \in Promises
    BY <2>1, SMTT(30) DEF Promises
  <2>3. promised' = [promised EXCEPT ![p] = [gen |-> generation(c), cand |-> c]]
    BY <1>1 DEF promise_recovery_ballot
  <2>4. promised' \in [Hosts -> Promises \union {NoRecord}]
    BY <1>0, <2>2, <2>3
  <2>5. ASSUME NEW q \in Hosts, promised'[q] # NoRecord, promised'[q].cand = q
        PROVE  promised'[q].gen < MaxGeneration
    <3>1. CASE q = p
      BY <1>0, <1>1, <2>3, <2>5, <3>1
    <3>2. CASE q # p
      BY <1>0, <2>3, <2>5, <3>2 DEF OwnPromiseBelow
    <3> QED
      BY <3>1, <3>2
  <2> QED
    BY <2>4, <2>5 DEF OwnPromiseBelow
<1>2. ASSUME NEW p \in Hosts, clear_recovery_promise_after_epoch_advance(p)
      PROVE  promised' \in [Hosts -> Promises \union {NoRecord}] /\ OwnPromiseBelow'
  BY <1>0, <1>2 DEF clear_recovery_promise_after_epoch_advance, OwnPromiseBelow
<1>3. ASSUME NEW p \in Hosts, drive_recovery_ballot(p)
      PROVE  /\ promised' \in [Hosts -> Promises \union {NoRecord}] /\ OwnPromiseBelow'
             /\ voters' \in [Hosts -> SUBSET Hosts]
  BY <1>0, <1>1, <1>3 DEF drive_recovery_ballot
<1>4. ASSUME NEW p \in Hosts, NEW c \in Hosts, RecoveryBallotTo(p, c)
      PROVE  /\ promised' \in [Hosts -> Promises \union {NoRecord}] /\ OwnPromiseBelow'
             /\ voters' \in [Hosts -> SUBSET Hosts]
  <2>1. voters' = [voters EXCEPT ![c] = @ \union {p}] /\ promise_recovery_ballot(p, c) /\ p # c
    BY <1>4 DEF RecoveryBallotTo
  <2>2. voters' \in [Hosts -> SUBSET Hosts]
    BY <1>0, <2>1, SMTT(30)
  <2> QED
    BY <1>1, <2>1, <2>2
<1>5. ASSUME NEW p \in Hosts, Recovered(p) \/ maintain_local_authority(p)
      PROVE  /\ promised' \in [Hosts -> Promises \union {NoRecord}] /\ OwnPromiseBelow'
             /\ voters' \in [Hosts -> SUBSET Hosts]
  BY <1>0, <1>2, <1>5 DEF Recovered, maintain_local_authority
<1>6. ASSUME NEW p \in Hosts, NEW q \in Hosts, RecoveryEpochTo(q, p)
      PROVE  /\ promised' \in [Hosts -> Promises \union {NoRecord}] /\ OwnPromiseBelow'
             /\ voters' \in [Hosts -> SUBSET Hosts]
  BY <1>0, <1>2, <1>6 DEF RecoveryEpochTo
<1>7. CASE UNCHANGED <<promised, voters>>
  BY <1>0, <1>7 DEF OwnPromiseBelow
<1>8. ASSUME NEW p \in Hosts, NEW q \in Hosts,
             \/ Launch(p) \/ request_world_stop(p) \/ accept_manual_transfer(p)
             \/ commit_manual_transfer(p) \/ activate_manual_transfer(p)
             \/ observe_manual_transfer_epoch(p) \/ prepare_running(p, q) \/ prepare_asleep(p, q)
             \/ EpochTo(q, p) \/ AuthorityTransfer(q, p) \/ SnapshotManifest(q, p)
      PROVE  UNCHANGED <<promised, voters>>
  BY <1>8 DEF Launch, request_world_stop, Ends, accept_manual_transfer, commit_manual_transfer, Stage,
    activate_manual_transfer, observe_manual_transfer_epoch, Follows, prepare_running, prepare_asleep,
    EpochTo, AuthorityTransfer, SnapshotManifest
<1>9. CASE UNCHANGED transferVars
  BY <1>7, <1>9 DEF transferVars
<1> QED
  BY <1>3, <1>4, <1>5, <1>6, <1>7, <1>8, <1>9 DEF TransferNext

LEMMA GenerationGrows ==
    ASSUME TransferTyped, TransferConstants, NEW p \in Hosts, Kind(p), NEW q \in Hosts
    PROVE  \/ chain'[q] = chain[q] /\ generation(q)' = generation(q) /\ authority(q)' = authority(q)
           \/ q = p /\ generation(q)' = generation(q) + 1
<1>1. CASE UNCHANGED chain
  BY <1>1 DEF generation, authority
<1>2. CASE \E c : Advances(p, c)
  <2>1. PICK c : Advances(p, c)
    BY <1>2
  <2>2. chain' = [chain EXCEPT ![p] = c] /\ Len(c) = generation(p) + 1 /\ chain \in [Hosts -> Ancestries]
    BY <2>1 DEF Advances, TransferTyped
  <2> QED
    BY <2>2 DEF generation, authority
<1> QED
  BY <1>1, <1>2 DEF Kind, Quiet, Launches, Stops, Replicates, Prepares, Stages

(* What the latest snapshot of p can be after a step. *)
LEMMA LatestAfter ==
    ASSUME TransferTyped, TransferConstants, NEW p \in Hosts
    PROVE  /\ \A g, s : OwnSnapshot(p, g, s) => latest_snapshot(p)' = s /\ s.gen = g /\ s \in Snapshots
           /\ Replicated(p) => latest_snapshot(p)'.gen = generation(p)
<1>1. ASSUME NEW g, NEW s, OwnSnapshot(p, g, s)
      PROVE  latest_snapshot(p)' = s /\ s.gen = g /\ s \in Snapshots
  <2>1. s \in Snapshots /\ s.gen = g /\ snaps'[p] = Append(snaps[p], s) /\ snaps[p] \in Histories
    BY <1>1, HostFacts DEF OwnSnapshot, TransferTyped
  <2>2. Last(Append(snaps[p], s)) = s
    BY <2>1, HistoryGrows
  <2> QED
    BY <2>1, <2>2 DEF latest_snapshot
<1>2. ASSUME Replicated(p) PROVE latest_snapshot(p)'.gen = generation(p)
  BY <1>2 DEF Replicated, latest_snapshot, TransferTyped
<1> QED
  BY <1>1, <1>2

LEMMA ConsistentStep ==
    ASSUME TransferInv, TransferConstants, NEW p \in Hosts, Kind(p)
    PROVE  HostConsistent'
<1>0. TransferTyped /\ HostConsistent /\ SnapsStep(p)
  BY KindSnaps DEF TransferInv
<1>1. ASSUME NEW q \in Hosts PROVE latest_snapshot(q)'.gen <= generation(q)'
  <2>0. /\ latest_snapshot(q).gen <= generation(q) /\ latest_snapshot(q).gen \in 1 .. MaxGeneration
        /\ generation(q) \in 1 .. MaxGeneration
    BY <1>0, RootTyped, HostFacts DEF HostConsistent
  <2>1. generation(q)' \in {generation(q), generation(q) + 1}
    BY <1>0, GenerationGrows
  <2>2. CASE latest_snapshot(q)' = latest_snapshot(q)
    BY <2>0, <2>1, <2>2, SMTT(30)
  <2>3. CASE latest_snapshot(q)'.gen = generation(q)
    BY <2>0, <2>1, <2>3, SMTT(30)
  <2>4. CASE latest_snapshot(q)'.gen = generation(q)'
    BY <2>0, <2>1, <2>4, SMTT(30)
  <2>5. CASE q = p
    <3>1. CASE \E c : Advances(p, c)
      <4>1. PICK c : Advances(p, c)
        BY <3>1
      <4>2. generation(p)' = generation(p) + 1
        BY <4>1 DEF Advances, generation, TransferInv, TransferTyped
      <4>3. UNCHANGED snaps \/ \E s : OwnSnapshot(p, generation(p) + 1, s)
        BY <4>1 DEF Advances
      <4>4. latest_snapshot(p)' = latest_snapshot(p) \/ latest_snapshot(p)'.gen = generation(p)'
        BY <1>0, <4>2, <4>3, LatestAfter DEF latest_snapshot
      <4> QED
        BY <2>2, <2>4, <2>5, <4>4
    <3>2. CASE ~\E c : Advances(p, c)
      <4>1. UNCHANGED snaps \/ (\E s : OwnSnapshot(p, generation(p), s)) \/ Replicated(p)
        BY <3>2 DEF Kind, Quiet, Launches, Stops, Replicates, Prepares, Stages
      <4>2. latest_snapshot(p)' = latest_snapshot(p) \/ latest_snapshot(p)'.gen = generation(p)
        BY <1>0, <4>1, LatestAfter DEF latest_snapshot
      <4> QED
        BY <2>2, <2>3, <2>5, <4>2
    <3> QED
      BY <3>1, <3>2
  <2>6. CASE q # p
    BY <1>0, <2>2, <2>6, SnapsGrow DEF latest_snapshot
  <2> QED
    BY <2>5, <2>6
<1>2. ASSUME NEW q \in Hosts, asleep'[q] PROVE serving'[q] = 0
  <2>1. asleep[q] => serving[q] = 0
    BY <1>0 DEF HostConsistent
  <2>2. serving \in [Hosts -> 0 .. MaxGeneration] /\ asleep \in [Hosts -> BOOLEAN]
    BY <1>0 DEF TransferTyped
  <2>3. CASE Quiet \/ Replicates(p) \/ \E t : Stages(p, t)
    BY <1>2, <2>1, <2>3 DEF Quiet, Replicates, Stages
  <2>4. CASE Launches(p)
    BY <1>2, <2>1, <2>2, <2>4 DEF Launches
  <2>5. CASE Stops(p)
    BY <1>2, <2>1, <2>2, <2>5 DEF Stops
  <2>6. CASE \E t : Prepares(p, t)
    BY <1>2, <2>1, <2>2, <2>6 DEF Prepares
  <2>7. CASE \E c : Advances(p, c)
    BY <1>2, <2>1, <2>2, <2>7 DEF Advances
  <2> QED
    BY <2>3, <2>4, <2>5, <2>6, <2>7 DEF Kind
<1>3. ASSUME NEW q \in Hosts, moving'[q] # NoRecord PROVE moving'[q] \in tokens'
  <2>1. moving[q] # NoRecord => moving[q] \in tokens
    BY <1>0 DEF HostConsistent
  <2>2. moving \in [Hosts -> Transfers \union {NoRecord}] /\ tokens \subseteq tokens'
    BY <1>0 DEF TransferTyped, Kind, Quiet, Launches, Stops, Replicates, Prepares, Stages, Advances
  <2>3. moving' = moving \/ \E t \in tokens' : moving' = [moving EXCEPT ![p] = t]
    BY <2>2 DEF Kind, Quiet, Launches, Stops, Replicates, Prepares, Stages, Advances
  <2> QED
    BY <1>3, <2>1, <2>2, <2>3
<1> QED
  BY <1>1, <1>2, <1>3 DEF HostConsistent

-----------------------------------------------------------------------------
(* A transfer binds its source                                             *)

LEMMA IssuedTyped ==
    ASSUME TransferTyped, TransferConstants, NEW t \in Issued
    PROVE  /\ t \in tokens /\ t \in Transfers /\ t.from \in Hosts /\ t.base \in Snapshots
           /\ t.next \in Nat /\ t.base.no \in Nat
<1>1. t \in tokens /\ t \in Transfers
  BY TokenKinds DEF Issued
<1>2. t.from \in Hosts /\ t.base \in Snapshots /\ t.next \in 2 .. MaxGeneration + 1
  BY <1>1, SMTT(30) DEF Transfers
<1> QED
  BY <1>1, <1>2, SMTT(30) DEF Snapshots, TransferConstants

LEMMA SourceActive ==
    ASSUME NEW t, SourceBound(t), t.next = generation(t.from) + 1
    PROVE  active(t.from)
  BY DEF SourceBound, active, Alike, transfer_is_source_generation

LEMMA OthersKept ==
    ASSUME TransferTyped, TransferConstants, NEW p \in Hosts, Kind(p), NEW q \in Hosts, q # p
    PROVE  /\ chain'[q] = chain[q] /\ snaps'[q] = snaps[q]
           /\ serving'[q] = serving[q] /\ moving'[q] = moving[q]
<1>1. /\ chain \in [Hosts -> Ancestries] /\ serving \in [Hosts -> 0 .. MaxGeneration]
      /\ moving \in [Hosts -> Transfers \union {NoRecord}]
  BY DEF TransferTyped
<1>2. snaps'[q] = snaps[q]
  BY KindSnaps, SnapsGrow
<1>3. chain'[q] = chain[q]
  BY <1>1 DEF Kind, Quiet, Launches, Stops, Replicates, Prepares, Stages, Advances
<1>4. serving'[q] = serving[q]
  BY <1>1 DEF Kind, Quiet, Launches, Stops, Replicates, Prepares, Stages, Advances
<1>5. moving'[q] = moving[q]
  BY <1>1 DEF Kind, Quiet, Launches, Stops, Replicates, Prepares, Stages, Advances
<1> QED
  BY <1>2, <1>3, <1>4, <1>5

LEMMA SourceKept ==
    ASSUME TransferTyped, TransferConstants, NEW p \in Hosts, Kind(p), NEW t \in Issued, SourceBound(t)
    PROVE  SourceBound(t)'
<1>0. t.from \in Hosts /\ t.next \in Nat
  BY IssuedTyped
<1>1. CASE t.from # p
  BY <1>0, <1>1, OthersKept DEF SourceBound, generation, authority
<1>2. CASE t.from = p /\ \E c : Advances(p, c)
  <2>1. generation(p)' = generation(p) + 1
    BY <1>2 DEF Advances, generation, TransferTyped
  <2>2. generation(p) \in 1 .. MaxGeneration /\ t.next <= generation(p) + 1
    BY <1>2, HostFacts DEF SourceBound
  <2>3. t.next <= generation(p)' + 1 /\ t.next # generation(p)' + 1
    BY <1>0, <2>1, <2>2, SMTT(30)
  <2> QED
    BY <1>2, <2>3 DEF SourceBound
<1>3. CASE t.from = p /\ UNCHANGED chain /\ t.next # generation(p) + 1
  BY <1>3 DEF SourceBound, generation
<1>4. CASE t.from = p /\ UNCHANGED chain /\ t.next = generation(p) + 1
  <2>1. active(p) /\ authority(p) = p /\ serving[p] # generation(p) /\ Alike(moving[p], t)
    BY <1>4, SourceActive DEF SourceBound
  <2>2. generation(p) # 0 /\ serving \in [Hosts -> 0 .. MaxGeneration]
    BY HostFacts, SMTT(30) DEF TransferTyped
  <2>3. serving'[p] # generation(p)
    BY <2>1, <2>2 DEF Kind, Quiet, Launches, Stops, Replicates, Prepares, Stages, Advances
  <2>4. moving[p] # NoRecord /\ moving \in [Hosts -> Transfers \union {NoRecord}]
    BY <2>1 DEF active, TransferTyped
  <2>5. CASE UNCHANGED moving
    BY <1>4, <2>1, <2>3, <2>4, <2>5 DEF SourceBound, generation, authority
  <2>6. CASE \E u : Stages(p, u)
    <3>1. PICK u : Stages(p, u)
      BY <2>6
    <3>2. moving'[p] = u /\ u # NoRecord /\ Alike(u, t)
      BY <2>1, <2>4, <3>1 DEF Stages, Alike, TransferConstants
    <3> QED
      BY <1>4, <2>1, <2>3, <3>2 DEF SourceBound, generation, authority
  <2>7. ~\E u : Prepares(p, u)
    BY <2>1 DEF Prepares
  <2>8. ~\E c : Advances(p, c)
    <3>1. ASSUME NEW c, Advances(p, c) PROVE FALSE
      <4>1. Len(chain'[p]) = generation(p) + 1 /\ generation(p) \in 1 .. MaxGeneration
        BY <3>1, HostFacts DEF Advances, TransferTyped
      <4>2. Len(chain'[p]) = generation(p)
        BY <1>4 DEF generation
      <4> QED
        BY <4>1, <4>2, SMTT(30)
    <3> QED
      BY <3>1
  <2> QED
    BY <2>5, <2>6, <2>7, <2>8 DEF Kind, Quiet, Launches, Stops, Replicates
<1>5. UNCHANGED chain \/ \E c : Advances(p, c)
  BY DEF Kind, Quiet, Launches, Stops, Replicates, Prepares, Stages
<1> QED
  BY <1>1, <1>2, <1>3, <1>4, <1>5

(* A snapshot that appears at the source is not one of its own in a        *)
(* generation it hands over.                                               *)
LEMMA NewSnapshot ==
    ASSUME TransferTyped, TransferConstants, SnapshotsShared, NEW p \in Hosts, Kind(p),
           NEW t \in Issued, SourceBound(t), t.from = p,
           NEW n \in 1 .. Len(snaps'[p]), n \notin 1 .. Len(snaps[p])
    PROVE  ~(snaps'[p][n].gen = t.next - 1 /\ snaps'[p][n].auth = p)
<1>0. /\ t.next \in Nat /\ generation(p) \in 1 .. MaxGeneration /\ t.next <= generation(p) + 1
      /\ snaps[p] \in Histories /\ Len(snaps[p]) \in Nat /\ Len(snaps'[p]) \in Nat
  BY IssuedTyped, HostFacts, HistoryFacts, KindSnaps, SnapsGrow DEF SourceBound
<1>1. ASSUME NEW g, NEW s, OwnSnapshot(p, g, s) PROVE snaps'[p][n] = s /\ s.gen = g
  <2>1. s \in Snapshots /\ s.gen = g /\ snaps'[p] = Append(snaps[p], s)
    BY <1>1 DEF OwnSnapshot, TransferTyped
  <2>2. Len(Append(snaps[p], s)) = Len(snaps[p]) + 1 /\ Append(snaps[p], s)[Len(snaps[p]) + 1] = s
    BY <1>0, <2>1, HistoryGrows
  <2>3. Len(snaps'[p]) = Len(snaps[p]) + 1 /\ snaps'[p][Len(snaps[p]) + 1] = s
    BY <2>1, <2>2
  <2>4. n = Len(snaps[p]) + 1
    BY <1>0, <2>3, SMTT(30)
  <2> QED
    BY <2>1, <2>3, <2>4
<1>2. CASE \E s : OwnSnapshot(p, generation(p) + 1, s)
  <2>1. snaps'[p][n].gen = generation(p) + 1
    BY <1>1, <1>2
  <2> QED
    BY <1>0, <2>1, SMTT(30)
<1>3. CASE t.next # generation(p) + 1 /\ \E s : OwnSnapshot(p, generation(p), s)
  <2>1. snaps'[p][n].gen = generation(p)
    BY <1>1, <1>3
  <2> QED
    BY <1>0, <1>3, <2>1, SMTT(30)
<1>4. CASE Replicated(p)
  <2>1. PICK r \in Hosts : /\ Len(snaps[r]) = Len(snaps[p]) + 1
                           /\ snaps' = [snaps EXCEPT ![p] = snaps[r]]
    BY <1>4 DEF Replicated
  <2>2. snaps'[p] = snaps[r] /\ n \in 1 .. Len(snaps[r])
    BY <2>1 DEF TransferTyped
  <2>3. n = Len(snaps[p]) + 1
    BY <1>0, <2>1, <2>2, SMTT(30)
  <2>4. Shares(r, n)
    BY <2>2 DEF SnapshotsShared
  <2>5. snaps[r][n].auth = p => n <= Len(snaps[p])
    BY <2>4 DEF Shares
  <2> QED
    BY <1>0, <2>2, <2>3, <2>5, SMTT(30)
<1>5. ~UNCHANGED snaps
  OBVIOUS
<1>6. t.next = generation(p) + 1 => ~(authority(p) = p /\ ~active(p)) /\ ~ensure_authority_generation(p)
  BY SourceActive DEF SourceBound, ensure_authority_generation
<1> QED
  BY <1>2, <1>3, <1>4, <1>5, <1>6
    DEF Kind, Quiet, Launches, Stops, Replicates, Prepares, Stages, Advances

LEMMA BaseKept ==
    ASSUME TransferTyped, TransferConstants, SnapshotsShared, NEW p \in Hosts, Kind(p),
           NEW t \in Issued, SourceBound(t), BaseLast(t)
    PROVE  BaseLast(t)'
<1> DEFINE f == t.from
<1>0. f \in Hosts /\ t.next \in Nat /\ t.base.no \in Nat
  BY IssuedTyped
<1>1. /\ Len(snaps[f]) \in Nat /\ Len(snaps'[f]) \in Nat /\ Len(snaps[f]) <= Len(snaps'[f])
      /\ \A i \in 1 .. Len(snaps[f]) : snaps'[f][i] = snaps[f][i]
  BY <1>0, HostFacts, KindSnaps, SnapsGrow, HistoryFacts DEF Extends
<1>2. /\ t.base.no \in 1 .. Len(snaps[f]) /\ snaps[f][t.base.no] = t.base
      /\ \A n \in 1 .. Len(snaps[f]) : snaps[f][n].gen = t.next - 1 /\ snaps[f][n].auth = f => n <= t.base.no
  BY DEF BaseLast
<1>3. t.base.no \in 1 .. Len(snaps'[f]) /\ snaps'[f][t.base.no] = t.base
  <2>1. snaps'[f][t.base.no] = t.base
    BY <1>1, <1>2
  <2>2. t.base.no \in 1 .. Len(snaps'[f])
    BY <1>0, <1>1, <1>2, SMTT(30)
  <2> QED
    BY <2>1, <2>2
<1>4. ASSUME NEW n \in 1 .. Len(snaps'[f]), snaps'[f][n].gen = t.next - 1, snaps'[f][n].auth = f
      PROVE  n <= t.base.no
  <2>1. CASE n \in 1 .. Len(snaps[f])
    BY <1>1, <1>2, <1>4, <2>1
  <2>2. CASE n \notin 1 .. Len(snaps[f]) /\ f = p
    BY <1>4, <2>2, NewSnapshot
  <2>3. CASE n \notin 1 .. Len(snaps[f]) /\ f # p
    BY <1>0, <1>4, <2>3, OthersKept
  <2> QED
    BY <2>1, <2>2, <2>3
<1> QED
  BY <1>3, <1>4 DEF BaseLast

LEMMA IssuedAfter ==
    ASSUME TransferTyped, NEW p \in Hosts, Kind(p)
    PROVE  \/ Issued' = Issued
           \/ \E t : (Prepares(p, t) \/ Stages(p, t)) /\ Issued' = Issued \union {t}
<1>1. \A t \in Transfers : t.phase # "Epoch"
  BY SMTT(30) DEF Transfers
<1>2. ASSUME NEW t, Prepares(p, t) \/ Stages(p, t) PROVE Issued' = Issued \union {t}
  <2>1. t \in Transfers /\ tokens' = tokens \union {t}
    BY <1>2 DEF Prepares, Stages
  <2> QED
    BY <1>1, <2>1 DEF Issued
<1>3. ASSUME NEW c, Advances(p, c) PROVE Issued' = Issued
  <2>1. tokens' = tokens \/ tokens' = tokens \union {[phase |-> "Epoch", chain |-> c]}
    BY <1>3 DEF Advances
  <2>2. [phase |-> "Epoch", chain |-> c].phase = "Epoch"
    BY SMTT(30)
  <2> QED
    BY <2>1, <2>2 DEF Issued
<1>4. CASE UNCHANGED tokens
  BY <1>4 DEF Issued
<1> QED
  BY <1>2, <1>3, <1>4 DEF Kind, Quiet, Launches, Stops, Replicates

(* The transfer a source prepares is bound to it, and is its first out of  *)
(* this generation.                                                        *)
LEMMA PreparedBound ==
    ASSUME TransferInv, TransferConstants, NEW p \in Hosts, NEW t, Prepares(p, t)
    PROVE  /\ SourceBound(t)' /\ BaseLast(t)'
           /\ \A u \in Issued : ~(u.from = t.from /\ u.next = t.next)
<1>0. TransferTyped /\ Kind(p) /\ SnapshotsShared'
  <2>1. TransferTyped /\ Kind(p) /\ SnapshotsShared
    BY DEF TransferInv, Kind
  <2> QED
    BY <2>1, KindSnaps, SharedStep
<1>1. /\ authority(p) = p /\ ~active(p) /\ t \in Transfers
      /\ t.from = p /\ t.next = generation(p) + 1 /\ t.base = Last(snaps'[p])
      /\ serving'[p] = 0 /\ moving' = [moving EXCEPT ![p] = t] /\ UNCHANGED chain
  BY DEF Prepares
<1>2. generation(p) \in 1 .. MaxGeneration /\ snaps'[p] \in Histories
  BY <1>0, HostFacts, KindSnaps, SnapsGrow DEF Extends
<1>3. SourceBound(t)'
  <2>1. moving'[p] = t /\ t # NoRecord
    BY <1>0, <1>1 DEF TransferTyped, TransferConstants
  <2>2. generation(p)' = generation(p) /\ authority(p)' = p
    BY <1>1 DEF generation, authority
  <2>3. 0 # generation(p) /\ generation(p) + 1 <= generation(p) + 1
    BY <1>2, SMTT(30)
  <2> QED
    BY <1>1, <2>1, <2>2, <2>3 DEF SourceBound, Alike
<1>4. BaseLast(t)'
  <2>0. Len(snaps'[p]) \in Nat /\ Len(snaps'[p]) >= 1 /\ t.base = snaps'[p][Len(snaps'[p])]
    BY <1>1, <1>2, HistoryFacts
  <2>1. PICK n \in Nat : n = Len(snaps'[p])
    BY <2>0
  <2>2. n \in 1 .. n /\ \A i \in 1 .. n : i <= n
    BY <2>0, <2>1, SMTT(30)
  <2>3. Shares(p, n)'
    BY <1>0, <2>1, <2>2 DEF SnapshotsShared
  <2>4. t.base = snaps'[p][n] /\ t.base.no = n
    BY <2>0, <2>1, <2>3 DEF Shares
  <2> QED
    BY <1>1, <2>1, <2>2, <2>4 DEF BaseLast
<1>5. ASSUME NEW u \in Issued, u.from = t.from, u.next = t.next PROVE FALSE
  BY <1>1, <1>5, SourceActive DEF TransferInv, TransfersBound
<1> QED
  BY <1>3, <1>4, <1>5

(* A record saved in a later phase is bound like the one it continues. *)
LEMMA StagedBound ==
    ASSUME TransferInv, TransferConstants, NEW p \in Hosts, NEW t, Stages(p, t)
    PROVE  /\ SourceBound(t)' /\ BaseLast(t)'
           /\ \E u \in Issued : Alike(t, u)
<1>0. TransferTyped /\ Kind(p) /\ SnapshotsShared
  BY DEF TransferInv, Kind
<1>1. PICK u \in tokens : u \in Transfers /\ Alike(t, u)
  BY DEF Stages
<1>2. u \in Issued /\ SourceBound(u) /\ BaseLast(u)
  BY <1>0, <1>1, TokenKinds DEF Issued, TransferInv, TransfersBound
<1>3. SourceBound(u)' /\ BaseLast(u)'
  BY <1>0, <1>2, SourceKept, BaseKept
<1>4. SourceBound(t)' /\ BaseLast(t)'
  BY <1>1, <1>3 DEF SourceBound, BaseLast, Alike
<1> QED
  BY <1>1, <1>2, <1>4

LEMMA BoundStep ==
    ASSUME TransferInv, TransferConstants, NEW p \in Hosts, Kind(p)
    PROVE  TransfersBound' /\ TransfersAlike'
<1>0. TransferTyped /\ SnapshotsShared /\ TransfersBound /\ TransfersAlike
  BY DEF TransferInv
<1>1. ASSUME NEW t \in Issued PROVE SourceBound(t)' /\ BaseLast(t)'
  BY <1>0, SourceKept, BaseKept DEF TransfersBound
<1>2. CASE Issued' = Issued
  BY <1>0, <1>1, <1>2 DEF TransfersBound, TransfersAlike, Alike
<1>3. ASSUME NEW t, Prepares(p, t), Issued' = Issued \union {t}
      PROVE  TransfersBound' /\ TransfersAlike'
  <2>1. /\ SourceBound(t)' /\ BaseLast(t)'
        /\ \A u \in Issued : ~(u.from = t.from /\ u.next = t.next)
    BY <1>3, PreparedBound
  <2>2. TransfersBound'
    BY <1>1, <1>3, <2>1 DEF TransfersBound
  <2>3. \A u, w \in Issued \union {t} : u.from = w.from /\ u.next = w.next => Alike(u, w)
    BY <1>0, <2>1 DEF TransfersAlike, Alike
  <2> QED
    BY <1>3, <2>2, <2>3 DEF TransfersAlike, Alike
<1>4. ASSUME NEW t, Stages(p, t), Issued' = Issued \union {t}
      PROVE  TransfersBound' /\ TransfersAlike'
  <2>1. PICK v \in Issued : SourceBound(t)' /\ BaseLast(t)' /\ Alike(t, v)
    BY <1>4, StagedBound
  <2>2. TransfersBound'
    BY <1>1, <1>4, <2>1 DEF TransfersBound
  <2>a. \A u \in Issued : u.from = v.from /\ u.next = v.next => Alike(u, v)
    BY <1>0 DEF TransfersAlike
  <2>b. \A u \in Issued : u.from = t.from /\ u.next = t.next => Alike(u, t) /\ Alike(t, u)
    BY <2>1, <2>a DEF Alike
  <2>3. \A u, w \in Issued \union {t} : u.from = w.from /\ u.next = w.next => Alike(u, w)
    BY <1>0, <2>b DEF TransfersAlike, Alike
  <2> QED
    BY <1>4, <2>2, <2>3 DEF TransfersAlike, Alike
<1> QED
  BY <1>0, <1>2, <1>3, <1>4, IssuedAfter

-----------------------------------------------------------------------------
(* Every epoch of a transfer has its transfer                              *)

LEMMA HandedOverKept ==
    ASSUME tokens \subseteq tokens'
    PROVE  \A c : Ancestral(c) => Ancestral(c)'
  BY DEF Ancestral, HandedOver

LEMMA AncestralNext ==
    ASSUME TransferInv, TransferConstants, NEW p \in Hosts, NEW c, Advances(p, c)
    PROVE  Ancestral(c)
<1>0. TransferTyped /\ Ancestral(chain[p]) /\ generation(p) \in 1 .. MaxGeneration
  BY HostFacts DEF TransferInv, EpochsAncestral
<1>1. /\ c \in Ancestries /\ Len(c) = generation(p) + 1
      /\ \A i \in 1 .. generation(p) : c[i] = chain[p][i]
      /\ Last(c).mode = "Quorum" => HandedOver(c, Len(c))
  BY DEF Advances
<1>2. c[1] = FirstEpoch
  <2>1. 1 \in 1 .. generation(p)
    BY <1>0, SMTT(30)
  <2> QED
    BY <1>0, <1>1, <2>1 DEF Ancestral
<1>3. ASSUME NEW g \in 2 .. Len(c), c[g].mode = "Quorum" PROVE HandedOver(c, g)
  <2>1. CASE g = Len(c)
    BY <1>1, <1>3, <2>1, AncestryFacts
  <2>2. CASE g # Len(c)
    <3>1. g \in 2 .. Len(chain[p]) /\ g \in 1 .. generation(p) /\ g - 1 \in 1 .. generation(p)
      BY <1>0, <1>1, <2>2, SMTT(30) DEF generation
    <3>2. c[g] = chain[p][g] /\ c[g - 1] = chain[p][g - 1]
      BY <1>1, <3>1
    <3>3. HandedOver(chain[p], g)
      BY <1>0, <1>3, <3>1, <3>2 DEF Ancestral
    <3> QED
      BY <3>2, <3>3 DEF HandedOver
  <2> QED
    BY <2>1, <2>2
<1> QED
  BY <1>2, <1>3 DEF Ancestral

LEMMA AncestralStep ==
    ASSUME TransferInv, TransferConstants, NEW p \in Hosts, Kind(p)
    PROVE  EpochsAncestral'
<1>0. TransferTyped /\ EpochsAncestral
  BY DEF TransferInv
<1>1. tokens \subseteq tokens'
  BY DEF Kind, Quiet, Launches, Stops, Replicates, Prepares, Stages, Advances
<1>2. CASE \E c : Advances(p, c)
  <2>1. PICK c : Advances(p, c)
    BY <1>2
  <2>2. Ancestral(c)
    BY <2>1, AncestralNext
  <2>3. /\ chain' = [chain EXCEPT ![p] = c] /\ chain \in [Hosts -> Ancestries]
        /\ tokens' = tokens \/ tokens' = tokens \union {[phase |-> "Epoch", chain |-> c]}
    BY <1>0, <2>1 DEF Advances, TransferTyped
  <2>4. [phase |-> "Epoch", chain |-> c].chain = c
    BY SMTT(30)
  <2>5. \A q \in Hosts : Ancestral(chain'[q])
    BY <1>0, <2>2, <2>3 DEF EpochsAncestral
  <2>6. \A t \in tokens' : t.phase = "Epoch" => Ancestral(t.chain)
    BY <1>0, <2>2, <2>3, <2>4 DEF EpochsAncestral
  <2>7. \A q \in Hosts : Ancestral(chain[q])'
    BY <1>1, <2>5 DEF Ancestral, HandedOver
  <2> QED
    BY <1>1, <2>6, <2>7, HandedOverKept DEF EpochsAncestral
<1>3. CASE ~\E c : Advances(p, c)
  <2>1. UNCHANGED chain
    BY <1>3 DEF Kind, Quiet, Launches, Stops, Replicates, Prepares, Stages
  <2>2. \A q \in Hosts : Ancestral(chain[q])'
    BY <1>0, <1>1, <2>1 DEF EpochsAncestral, Ancestral, HandedOver
  <2>3. ASSUME NEW t \in tokens', t.phase = "Epoch" PROVE t \in tokens
    <3>1. tokens' = tokens \/ \E u \in Transfers : tokens' = tokens \union {u}
      BY <1>3 DEF Kind, Quiet, Launches, Stops, Replicates, Prepares, Stages
    <3>2. \A u \in Transfers : u.phase # "Epoch"
      BY SMTT(30) DEF Transfers
    <3> QED
      BY <2>3, <3>1, <3>2
  <2> QED
    BY <1>0, <1>1, <2>2, <2>3, HandedOverKept DEF EpochsAncestral
<1> QED
  BY <1>2, <1>3

-----------------------------------------------------------------------------
(* The theorems                                                            *)

LEMMA TransferInvInit ==
    ASSUME TransferInit, TransferConstants
    PROVE  TransferInv
<1> DEFINE base == [no |-> 1, gen |-> 1, auth |-> Source, root |-> <<Source, 1>>]
<1>1. base \in Snapshots /\ base.no = 1 /\ base.gen = 1 /\ base.auth = Source /\ base.root = <<Source, 1>>
  BY SMTT(30) DEF Snapshots, TransferConstants
<1>2. FirstEpoch \in Epochs
  BY SMTT(30) DEF FirstEpoch, epoch_record, Epochs, TransferConstants
<1>3. /\ snaps = [p \in Hosts |-> <<base>>]
      /\ chain = [p \in Hosts |-> <<FirstEpoch>>]
      /\ serving = [p \in Hosts |-> 0] /\ asleep = [p \in Hosts |-> FALSE]
      /\ moving = [p \in Hosts |-> NoRecord] /\ promised = [p \in Hosts |-> NoRecord]
      /\ voters = [p \in Hosts |-> {}] /\ tokens = {}
  BY <1>1 DEF TransferInit, FirstEpoch
<1> HIDE DEF base
<1>4. /\ <<base>> \in Histories /\ Len(<<base>>) = 1 /\ <<base>>[1] = base /\ Last(<<base>>) = base
  BY <1>1, SMTT(30) DEF Histories, Last
<1>5. /\ <<FirstEpoch>> \in Ancestries /\ Len(<<FirstEpoch>>) = 1 /\ <<FirstEpoch>>[1] = FirstEpoch
  BY <1>2, SMTT(30) DEF Ancestries, TransferConstants
<1>6. 0 \in 0 .. MaxGeneration /\ 1 <= 1 /\ 1 .. 1 = {1} /\ 2 .. 1 = {}
  BY SMTT(30) DEF TransferConstants
<1>7. TransferTyped
  BY <1>3, <1>4, <1>5, <1>6 DEF TransferTyped
<1>8. OwnPromiseBelow /\ TransfersBound /\ TransfersAlike
  BY <1>3 DEF OwnPromiseBelow, TransfersBound, TransfersAlike, Issued
<1>9. HostConsistent
  BY <1>1, <1>3, <1>4, <1>5, <1>6 DEF HostConsistent, latest_snapshot, generation
<1>10. SnapshotsShared
  BY <1>1, <1>3, <1>4, <1>6 DEF SnapshotsShared, Shares, TransferConstants
<1>11. EpochsAncestral
  BY <1>3, <1>5, <1>6 DEF EpochsAncestral, Ancestral
<1> QED
  BY <1>7, <1>8, <1>9, <1>10, <1>11 DEF TransferInv

LEMMA TransferInvStep ==
    ASSUME TransferInv, TransferConstants, [TransferNext]_transferVars
    PROVE  TransferInv'
<1>1. /\ promised' \in [Hosts -> Promises \union {NoRecord}]
      /\ voters' \in [Hosts -> SUBSET Hosts]
      /\ OwnPromiseBelow'
  BY PromisesTyped DEF TransferInv
<1>2. PICK p \in Hosts : Kind(p)
  BY EveryKind DEF Kind, TransferConstants
<1>3. TransferTyped /\ SnapshotsShared /\ SnapsStep(p)
  BY <1>2, KindSnaps DEF TransferInv
<1>4. TransferTyped'
  BY <1>1, <1>2, <1>3, FilesTyped, SnapsGrow DEF TransferTyped
<1> QED
  BY <1>1, <1>2, <1>3, <1>4, SharedStep, ConsistentStep, BoundStep, AncestralStep DEF TransferInv

(* The inductive invariant holds in every reachable state: records, epochs *)
(* and snapshots of all hosts fit together as the validations assume.      *)
THEOREM TransferInvCorrect == TransferSpec => []TransferInv
<1>1. TransferInit => TransferInv
  BY TransferInvInit, TransferAssumption
<1>2. TransferInv /\ [TransferNext]_transferVars => TransferInv'
  BY TransferInvStep, TransferAssumption
<1> QED
  BY <1>1, <1>2, PTL DEF TransferSpec

(* The records of every host stay well formed, and none holds a snapshot   *)
(* of a generation it has not accepted.                                    *)
THEOREM TransferTypeCorrect == TransferSpec => []TransferTypeOK
<1>1. ASSUME TransferInv, TransferConstants PROVE TransferTypeOK
  <2>1. ASSUME NEW p \in Hosts
        PROVE  /\ chain[p] \in Seq(Epochs) /\ generation(p) \in 1 .. MaxGeneration
               /\ snaps[p] \in Seq(Snapshots)
    BY <1>1, HostFacts DEF TransferInv, Ancestries, Histories
  <2> QED
    BY <1>1, <2>1 DEF TransferTypeOK, TransferInv, TransferTyped, HostConsistent
<1>2. TransferInv => TransferTypeOK
  BY <1>1, TransferAssumption
<1> QED
  BY <1>2, TransferInvCorrect, PTL

LEMMA CommittedIssued ==
    ASSUME TransferInv, TransferConstants, NEW t \in Committed
    PROVE  t \in Issued /\ t \in Transfers /\ t.phase = "Committed"
<1>1. t # NoRecord /\ t.phase = "Committed" /\ t \in tokens
  BY DEF Committed, TransferInv, HostConsistent
<1> QED
  BY <1>1, TokenKinds DEF Issued, TransferInv

(* One generation is handed over at most once: two committed transfers out *)
(* of it, in records or in tokens, are the same, and the source has no     *)
(* snapshot of that generation after the one they name.                    *)
THEOREM HandoverIsFinalCorrect == TransferSpec => []HandoverIsFinal
<1>1. ASSUME TransferInv, TransferConstants PROVE HandoverIsFinal
  <2>1. ASSUME NEW t \in Committed, NEW u \in Committed, t.next = u.next, t.from = u.from
        PROVE  t = u
    <3>1. t \in Transfers /\ u \in Transfers /\ t.phase = u.phase /\ Alike(t, u)
      BY <1>1, <2>1, CommittedIssued DEF TransferInv, TransfersAlike
    <3> QED
      BY <3>1, SMTT(30) DEF Alike, Transfers
  <2>2. ASSUME NEW t \in Committed, NEW n \in 1 .. Len(snaps[t.from]),
               snaps[t.from][n].gen = t.next - 1, snaps[t.from][n].auth = t.from
        PROVE  n <= CHOOSE i \in 1 .. Len(snaps[t.from]) : snaps[t.from][i] = t.base
    <3>1. t \in Issued /\ BaseLast(t) /\ t.from \in Hosts
      BY <1>1, CommittedIssued, IssuedTyped DEF TransferInv, TransfersBound
    <3>2. \A i \in 1 .. Len(snaps[t.from]) : snaps[t.from][i].no = i
      BY <1>1, <3>1 DEF TransferInv, SnapshotsShared, Shares
    <3>3. \A i \in 1 .. Len(snaps[t.from]) : snaps[t.from][i] = t.base => i = t.base.no
      BY <3>2
    <3>4. t.base.no \in 1 .. Len(snaps[t.from]) /\ snaps[t.from][t.base.no] = t.base /\ n <= t.base.no
      BY <2>2, <3>1 DEF BaseLast
    <3>5. (CHOOSE i \in 1 .. Len(snaps[t.from]) : snaps[t.from][i] = t.base) = t.base.no
      BY <3>3, <3>4
    <3> QED
      BY <3>4, <3>5
  <2> QED
    BY <2>1, <2>2 DEF HandoverIsFinal
<1>2. TransferInv => HandoverIsFinal
  BY <1>1, TransferAssumption
<1> QED
  BY <1>2, TransferInvCorrect, PTL

(* Transfers never fork the epochs: where two hosts that agreed so far     *)
(* accepted different epochs of a generation, one of the two is due to a   *)
(* recovery.                                                               *)
THEOREM HandoversAgreeCorrect == TransferSpec => []HandoversAgree
<1>1. ASSUME TransferInv, TransferConstants PROVE HandoversAgree
  <2>1. SUFFICES ASSUME NEW p \in Hosts, NEW q \in Hosts, NEW g \in 1 .. generation(p),
                        g <= generation(q), ForkAt(p, q, g),
                        chain[p][g].mode # "Recovery", chain[q][g].mode # "Recovery"
                 PROVE  FALSE
    BY DEF HandoversAgree
  <2>2. /\ chain[p] \in Ancestries /\ chain[q] \in Ancestries
        /\ Ancestral(chain[p]) /\ Ancestral(chain[q])
        /\ generation(p) \in 1 .. MaxGeneration /\ generation(q) \in 1 .. MaxGeneration
    BY <1>1, HostFacts DEF TransferInv, EpochsAncestral
  <2>3. g \in Nat /\ g \in 1 .. Len(chain[p]) /\ g \in 1 .. Len(chain[q])
    BY <2>1, <2>2, SMTT(30) DEF generation
  <2>4. chain[p][g] \in Epochs /\ chain[q][g] \in Epochs
    BY <1>1, <2>2, <2>3, AncestryFacts
  <2>5. chain[p][g].mode = "Quorum" /\ chain[q][g].mode = "Quorum"
    BY <2>1, <2>4, SMTT(30) DEF Epochs
  <2>6. CASE g = 1
    BY <2>1, <2>2, <2>6 DEF Ancestral, ForkAt
  <2>7. CASE g # 1
    <3>1. g \in 2 .. Len(chain[p]) /\ g \in 2 .. Len(chain[q])
      BY <2>3, <2>7, SMTT(30)
    <3>2. HandedOver(chain[p], g) /\ HandedOver(chain[q], g)
      BY <2>2, <2>5, <3>1 DEF Ancestral
    <3>3. chain[p][g - 1] = chain[q][g - 1]
      <4>1. /\ g - 1 \in 1 .. Len(chain[p]) /\ g - 1 \in 1 .. Len(chain[q]) /\ g - 1 \in 1 .. g - 1
        BY <2>3, <2>7, SMTT(30)
      <4>2. /\ SubSeq(chain[p], 1, g - 1)[g - 1] = chain[p][g - 1]
            /\ SubSeq(chain[q], 1, g - 1)[g - 1] = chain[q][g - 1]
        BY <1>1, <2>2, <4>1, AncestryPrefix
      <4> QED
        BY <2>1, <4>2 DEF ForkAt
    <3>4. PICK t \in tokens : /\ t \in Transfers /\ t.from = chain[p][g - 1].auth /\ t.next = g
                              /\ t.to = chain[p][g].auth /\ t.base.root = chain[p][g].base
      BY <3>2 DEF HandedOver
    <3>5. PICK u \in tokens : /\ u \in Transfers /\ u.from = chain[q][g - 1].auth /\ u.next = g
                              /\ u.to = chain[q][g].auth /\ u.base.root = chain[q][g].base
      BY <3>2 DEF HandedOver
    <3>6. t \in Issued /\ u \in Issued
      BY <1>1, <3>4, <3>5, TokenKinds DEF Issued, TransferInv
    <3>7. Alike(t, u)
      BY <1>1, <3>3, <3>4, <3>5, <3>6 DEF TransferInv, TransfersAlike
    <3>8. chain[p][g].auth = chain[q][g].auth /\ chain[p][g].base = chain[q][g].base
      BY <3>4, <3>5, <3>7 DEF Alike
    <3> QED
      BY <2>1, <2>4, <2>5, <3>8, SMTT(30) DEF Epochs, ForkAt
  <2> QED
    BY <2>6, <2>7
<1>2. TransferInv => HandoversAgree
  BY <1>1, TransferAssumption
<1> QED
  BY <1>2, TransferInvCorrect, PTL
=============================================================================
