--------------------------- MODULE HostReadiness ---------------------------
(***************************************************************************)
(* The answer to "may this computer be shut down?" (host_readiness.rs and  *)
(* the parts of daemon.rs that feed it).  Every daemon asks the others for *)
(* their world status and their host capability; an answer is kept for     *)
(* STATUS_FRESHNESS after it ARRIVES, however long it took to arrive.  The *)
(* capability carries two machine-local proofs (the runtime's and the      *)
(* server mods') and the successor's own view of the quorum that would     *)
(* survive the host.  The host turns what it holds into a report.          *)
(*                                                                         *)
(* The world has one generation here (a new one drops every observation)   *)
(* and one compatibility fingerprint, and is awake, quorum-backed and free *)
(* of conflicts (evaluate_from_storage answers every other case before it  *)
(* reads what is modelled here).  A snapshot is its sequence number.       *)
(***************************************************************************)
EXTENDS Naturals, FiniteSets, SwarmQuorum

CONSTANTS Members,    \* the canonical members, none banned
          Host,       \* the authority of the accepted epoch
          Eligible,   \* the other members that may become authority
          Watch,      \* <<p, q>> : the observations of q by p that are followed
          MaxHead,    \* bound: snapshots the host publishes
          Absent

ReadinessConstants ==
  /\ Host \in Members /\ Eligible \subseteq Members /\ Watch \subseteq Members \X Members
  /\ MaxHead \in Nat \ {0}

ASSUME ReadinessAssumption == ReadinessConstants

VARIABLES head,        \* head[p] : the latest snapshot on p's disk
          linked,      \* pairs of Watch with an authenticated session
          statusCall,  \* the WorldStatus request of p to q, and its answer
          status,      \* runtime.peer_status
          capCall,     \* the HostCapability request of p to q, and its answer
          capability,  \* runtime.peer_capability
          machine,     \* what local_runtime_readiness and _server_mod_readiness answer
          report       \* host-readiness.json on the host's machine

readinessVars == <<head, linked, statusCall, status, capCall, capability, machine, report>>

Calls == {<<"none">>, <<"asked">>}

Capability == [runtime : BOOLEAN, mods : BOOLEAN, quorum : BOOLEAN]

Unknown == [state |-> "unknown", safe |-> FALSE, successor |-> Absent, head |-> 0]

ReadinessTypeOK ==
  /\ head \in [Members -> 1..MaxHead]
  /\ linked \subseteq Watch
  /\ statusCall \in [Watch -> Calls \cup ({"answer"} \X (1..MaxHead))]
  /\ status \in [Watch -> 0..MaxHead]
  /\ capCall \in [Watch -> Calls \cup ({"answer"} \X Capability)]
  /\ capability \in [Watch -> Capability \cup {Absent}]
  /\ machine \in [Eligible -> [runtime : BOOLEAN, mods : BOOLEAN]]
  /\ report.state \in {"unknown", "safe", "blocked_by_quorum", "blocked_by_runtime",
                       "blocked_by_mods", "syncing", "world_will_stop"}
  /\ report.safe => report.successor \in Eligible /\ report.head \in 1..MaxHead

ReadinessInit ==
  /\ head = [p \in Members |-> 1]
  /\ linked = Watch
  /\ statusCall = [w \in Watch |-> <<"none">>]
  /\ status = [w \in Watch |-> 0]
  /\ capCall = [w \in Watch |-> <<"none">>]
  /\ capability = [w \in Watch |-> Absent]
  /\ machine = [q \in Eligible |-> [runtime |-> TRUE, mods |-> TRUE]]
  /\ report = Unknown

-----------------------------------------------------------------------------
(* A file, a mod or a proof changes on an eligible machine, so that its      *)
(* local readiness becomes, or stops being, Ready (module RuntimeInstall).   *)
MachineChanges(q) ==
  /\ \E field \in {"runtime", "mods"} :
       machine' = [machine EXCEPT ![q][field] = ~machine[q][field]]
  /\ UNCHANGED <<head, linked, statusCall, status, capCall, capability, report>>

-----------------------------------------------------------------------------
(* Snapshots, sessions, requests and answers *)

PublishSnapshot ==
  /\ head[Host] < MaxHead
  /\ head' = [head EXCEPT ![Host] = head[Host] + 1]
  /\ UNCHANGED <<linked, statusCall, status, capCall, capability, machine, report>>

\* The last chunk of a push makes the host's snapshot the replica's latest.
Replicate(q) ==
  /\ q # Host /\ <<Host, q>> \notin Watch \ linked
  /\ head[q] < head[Host]
  /\ head' = [head EXCEPT ![q] = head[Host]]
  /\ UNCHANGED <<linked, statusCall, status, capCall, capability, machine, report>>

Connect(w) ==
  /\ linked' = linked \cup {w}
  /\ UNCHANGED <<head, statusCall, status, capCall, capability, machine, report>>

\* Disconnected: the observations go; the requests on the connection fail.
Disconnect(w) ==
  /\ w \in linked
  /\ linked' = linked \ {w}
  /\ statusCall' = [statusCall EXCEPT ![w] = <<"none">>]
  /\ status' = [status EXCEPT ![w] = 0]
  /\ capCall' = [capCall EXCEPT ![w] = <<"none">>]
  /\ capability' = [capability EXCEPT ![w] = Absent]
  /\ UNCHANGED <<head, machine, report>>

\* What p's observation of the others proves to p: every member but the
\* authority whose fresh status is p's own head.
Survivors(p) ==
  {p} \cup {q \in Members \ {Host, p} : <<p, q>> \in linked /\ status[<<p, q>>] = head[p]}

surviving_recovery_quorum(p) ==
  /\ p \in Eligible
  /\ has_quorum(Cardinality(Members), Cardinality(Survivors(p)))

local_host_capability(q) ==
  [runtime |-> machine[q].runtime,
   mods    |-> machine[q].mods,
   quorum  |-> surviving_recovery_quorum(q)]

\* The handlers read the answering peer's state; the answer then travels.
WorldStatus(w) ==
  /\ statusCall[w] = <<"asked">>
  /\ statusCall' = [statusCall EXCEPT ![w] = <<"answer", head[w[2]]>>]
  /\ UNCHANGED <<head, linked, status, capCall, capability, machine, report>>

HostCapability(w) ==
  /\ capCall[w] = <<"asked">>
  /\ capCall' = [capCall EXCEPT ![w] = <<"answer", local_host_capability(w[2])>>]
  /\ UNCHANGED <<head, linked, statusCall, status, capability, machine, report>>

StatusArrives(w) ==
  /\ statusCall[w][1] = "answer"
  /\ status' = [status EXCEPT ![w] = statusCall[w][2]]
  /\ statusCall' = [statusCall EXCEPT ![w] = <<"none">>]
  /\ UNCHANGED <<head, linked, capCall, capability, machine, report>>

CapabilityArrives(w) ==
  /\ capCall[w][1] = "answer"
  /\ capability' = [capability EXCEPT ![w] = capCall[w][2]]
  /\ capCall' = [capCall EXCEPT ![w] = <<"none">>]
  /\ UNCHANGED <<head, linked, statusCall, status, machine, report>>

\* OutboundFailure, or STATUS_FRESHNESS after the answer arrived.
StatusLost(w) ==
  /\ statusCall[w] # <<"none">> \/ status[w] > 0
  /\ status' = [status EXCEPT ![w] = 0]
  /\ statusCall' = [statusCall EXCEPT ![w] = <<"none">>]
  /\ UNCHANGED <<head, linked, capCall, capability, machine, report>>

CapabilityLost(w) ==
  /\ capCall[w] # <<"none">> \/ capability[w] # Absent
  /\ capability' = [capability EXCEPT ![w] = Absent]
  /\ capCall' = [capCall EXCEPT ![w] = <<"none">>]
  /\ UNCHANGED <<head, linked, statusCall, status, machine, report>>

-----------------------------------------------------------------------------
(* The report *)

\* A plausible slip: any fresh status counts, whatever head it tells.
AnyHead(q) == status[<<Host, q>>] > 0

\* status_matches_canonical: the status tells the host's own head.
Current(q) == status[<<Host, q>>] = head[Host]

Reachable(q) == <<Host, q>> \in linked

Candidates == {q \in Eligible : Reachable(q) /\ Current(q)}

RuntimeReady(q) == capability[<<Host, q>>] # Absent /\ capability[<<Host, q>>].runtime

ModsReady(q) == capability[<<Host, q>>] # Absent /\ capability[<<Host, q>>].mods

HostReady(q) == RuntimeReady(q) /\ ModsReady(q)

Successors == {q \in Candidates : HostReady(q) /\ capability[<<Host, q>>].quorum}

Verdict(state, q) == [state |-> state, safe |-> state = "safe", successor |-> q, head |-> head[Host]]

evaluate_host_readiness ==
  IF Successors # {} THEN Verdict("safe", CHOOSE q \in Successors : TRUE)
  ELSE Verdict(
    IF \E q \in Candidates : HostReady(q) THEN "blocked_by_quorum"
    ELSE IF \E q \in Candidates : ~RuntimeReady(q) THEN "blocked_by_runtime"
    ELSE IF \E q \in Candidates : ~ModsReady(q) THEN "blocked_by_mods"
    ELSE IF \E q \in Members \ {Host} : Reachable(q) /\ ~Current(q) THEN "syncing"
    ELSE "world_will_stop", Absent)

\* Everyone with a session is asked, unless a request is outstanding.
Asked(call, w, of) == IF w \in of /\ call[w] = <<"none">> THEN <<"asked">> ELSE call[w]

request_world_statuses(p) ==
  [w \in Watch |-> Asked(statusCall, w, {v \in linked : v[1] = p})]

\* Only an eligible member's capability is ever read.
request_host_capabilities(p) ==
  [w \in Watch |-> Asked(capCall, w, {v \in linked : v[1] = p /\ v[2] \in Eligible})]

\* One tick of p's daemon: the report is written from what is held, and then
\* everything that is not already asked for is asked again.
Tick(p) ==
  /\ report' = IF p = Host THEN evaluate_host_readiness ELSE report
  /\ statusCall' = request_world_statuses(p)
  /\ capCall' = request_host_capabilities(p)
  /\ UNCHANGED <<head, linked, status, capability, machine>>

\* load_host_readiness_report: past HOST_READINESS_MAX_AGE_MS it is unknown.
ReportExpires ==
  /\ report' = [report EXCEPT !.state = "unknown", !.safe = FALSE, !.successor = Absent]
  /\ UNCHANGED <<head, linked, statusCall, status, capCall, capability, machine>>

ReadinessNext ==
  \/ \E q \in Eligible : MachineChanges(q)
  \/ PublishSnapshot
  \/ \E q \in Members : Replicate(q)
  \/ \E w \in Watch :
       \/ Connect(w) \/ Disconnect(w) \/ WorldStatus(w) \/ HostCapability(w)
       \/ StatusArrives(w) \/ CapabilityArrives(w) \/ StatusLost(w) \/ CapabilityLost(w)
  \/ \E p \in Members : Tick(p)
  \/ ReportExpires

ReadinessSpec == ReadinessInit /\ [][ReadinessNext]_readinessVars

-----------------------------------------------------------------------------
\* A green report names a successor whose disk holds the very snapshot the host
\* had when it wrote the report: a late status, a status of an older head or a
\* capability alone never makes one (evaluate_host_readiness, current_state).
SafeSuccessorCurrent == report.safe => head[report.successor] >= report.head
=============================================================================
