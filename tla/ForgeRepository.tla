-------------------------- MODULE ForgeRepository ---------------------------
(***************************************************************************)
(* The forge-confirmed repository of src/cmd/chess/repository.go: one      *)
(* writer process appends signed acts to a local Git sequence, delivers    *)
(* that sequence to a remote forge by fast-forward pushes and publishes    *)
(* only what it has seen there.  The writer lock admits one such process,  *)
(* so the process is one program counter; Git refs survive its crashes.    *)
(*                                                                         *)
(* A history is the sequence of records after the genesis; a ref that does *)
(* not exist yet stands at the genesis.  Native mode, where local          *)
(* durability is enough and there is no confirmation, is not modelled.     *)
(***************************************************************************)
EXTENDS Naturals, Sequences

CONSTANTS
    Acts,         \* signed acts clients submit
    ForeignActs,  \* verifiable records another clone may push
    Outsiders,    \* what may happen behind the writer's back
    None,         \* no request
    MaxHistory,   \* bound: records on the forge
    MaxFaults     \* bound: failed Git commands, crashes and cut-off deliveries

Binding == "binding"            \* a record that replaces the binding
Unverifiable == "unverifiable"  \* a commit the host's verification rejects
Opening == "opening"            \* the delivery attempted while opening

ASSUME OutsidersAssumption ==
    Outsiders \subseteq {"append", "corrupt", "rollback", "rebind"}
ASSUME BoundsAssumption == MaxHistory \in Nat /\ MaxFaults \in Nat
ASSUME EntriesAssumption ==
    /\ Acts \cap ForeignActs = {}
    /\ {Binding, Unverifiable, Opening, None} \cap (Acts \cup ForeignActs) = {}
    /\ None # Opening

Entries == Acts \cup ForeignActs \cup {Binding, Unverifiable}
History == Seq(Entries)

VARIABLES
    remote,    \* the forge's sequence ref
    local,     \* the local sequence ref
    retained,  \* refs/chess/forge-confirmed, the published prefix on disk
    late,      \* a push the writer gave up on, which the forge may still run
    pc,        \* where the writer process is
    seen,      \* the forge head the process last fetched
    confirmed, \* the prefix it serves
    attempt,   \* delivery attempts already spent
    request,   \* the act being delivered, Opening or None
    acked,     \* acts acknowledged to their senders
    reader,    \* the published head a read-only command has looked up
    faults     \* faults so far

refs == <<local, retained>>
vars == <<remote, local, retained, late, pc, seen, confirmed, attempt, request,
          acked, reader, faults>>

\* merge-base --is-ancestor: s is t or an older version of it.
Ancestor(s, t) ==
    /\ Len(s) <= Len(t)
    /\ \A i \in 1..Len(s) : s[i] = t[i]

Holds(s, e) == \E i \in 1..Len(s) : s[i] = e

\* The records of s beyond its prefix t.
Pending(s, t, e) == \E i \in Len(t)+1..Len(s) : s[i] = e

\* A fault spends the budget; a step that is not one leaves it.
Fault   == faults < MaxFaults /\ faults' = faults + 1
NoFault == UNCHANGED faults

Starting   == {"adopting", "attaching", "retainingSeen"}
Delivering == {"fetching", "pushing", "verifying", "retaining", "announcing"}
Serving    == Delivering \cup {"idle"}

-----------------------------------------------------------------------------
(* openChessRepository.                                                    *)

\* Slip: a forge that lost published records is not noticed.
OpenIgnoringRetained ==
    /\ pc = "down"
    /\ seen' = remote
    /\ \/ Ancestor(local, remote) /\ pc' = "adopting"
       \/ Ancestor(remote, local) /\ local # remote /\ pc' = "attaching"
    /\ UNCHANGED <<remote, refs, late, confirmed, attempt, request, acked, reader, faults>>

\* Slip: the published prefix is moved before the local sequence follows.
OpenRetainingFirst ==
    /\ pc = "down"
    /\ Ancestor(retained, remote)
    /\ seen' = remote
    /\ retained' = remote
    /\ \/ Ancestor(local, remote) /\ pc' = "adopting"
       \/ Ancestor(remote, local) /\ local # remote /\ pc' = "attaching"
    /\ UNCHANGED <<remote, local, late, confirmed, attempt, request, acked, reader, faults>>

\* The forge must hold everything published, and the local sequence must be an
\* older version of it or ahead of it.
OpenAllowed ==
    /\ Ancestor(retained, remote)
    /\ Ancestor(local, remote) \/ Ancestor(remote, local)

\* Fetch the forge; when it is not as it must be, opening fails and the process
\* exits.
Open ==
    /\ pc = "down"
    /\ OpenAllowed
    /\ seen' = remote
    /\ pc' = IF Ancestor(local, remote) THEN "adopting" ELSE "attaching"
    /\ UNCHANGED <<remote, refs, late, confirmed, attempt, request, acked, reader, faults>>

\* The local sequence follows the forge.
Adopt ==
    /\ pc = "adopting"
    /\ local' = seen
    /\ pc' = "attaching"
    /\ UNCHANGED <<remote, retained, late, seen, confirmed, attempt, request, acked, reader, faults>>

Down ==
    /\ pc' = "down"
    /\ seen' = <<>>
    /\ confirmed' = <<>>
    /\ attempt' = 0
    /\ request' = None

\* Slip: a binding replacement that never reached the forge is delivered.
AttachAllowedRebound == ~Holds(local, Unverifiable)

\* Slip: the attached sequence is not verified.
AttachAllowedUnverified == ~Pending(local, seen, Binding)

\* The host verifies the whole local sequence; a pending binding change is
\* left to the operator.
AttachAllowed ==
    /\ ~Holds(local, Unverifiable)
    /\ ~Pending(local, seen, Binding)

Attach ==
    /\ pc = "attaching"
    /\ \/ /\ AttachAllowed
          /\ confirmed' = seen
          /\ pc' = "retainingSeen"
          /\ UNCHANGED <<seen, attempt, request>>
       \/ ~AttachAllowed /\ Down
    /\ UNCHANGED <<remote, refs, late, acked, reader, faults>>

\* Publish what was fetched; deliver first if the local sequence is ahead.
RetainSeen ==
    /\ pc = "retainingSeen"
    /\ \/ /\ retained' = seen
          /\ \/ local = seen /\ pc' = "idle" /\ UNCHANGED request
             \/ local # seen /\ pc' = "fetching" /\ request' = Opening
          /\ NoFault
          /\ UNCHANGED <<seen, confirmed, attempt>>
       \/ /\ retained' \in {retained, seen}
          /\ Fault
          /\ Down
    /\ UNCHANGED <<remote, local, late, acked, reader>>

-----------------------------------------------------------------------------
(* confirm: at most three attempts to see the local head on the forge.     *)

\* confirm returns; the waiting request is answered with an error.
GivenUp ==
    /\ pc' = "idle"
    /\ attempt' = 0
    /\ request' = None

AttemptOver ==
    \/ /\ attempt < 2
       /\ attempt' = attempt + 1
       /\ pc' = "fetching"
       /\ UNCHANGED request
    \/ attempt >= 2 /\ GivenUp

\* The forge changed outside the owned writer: a serving process stops for
\* good, an opening one exits.
Stop ==
    \/ request = Opening /\ Down
    \/ /\ request # Opening
       /\ pc' = "stopped"
       /\ attempt' = 0
       /\ request' = None
       /\ UNCHANGED <<seen, confirmed>>

\* Slip: a push of its own that landed late is taken for an outsider's.
ObserveExpecting ==
    /\ pc = "fetching"
    /\ \/ remote # confirmed /\ Stop
       \/ /\ remote = confirmed
          /\ seen' = remote
          /\ pc' = IF remote = local THEN "retaining" ELSE "pushing"
          /\ UNCHANGED <<confirmed, attempt, request>>
    /\ UNCHANGED <<remote, refs, late, acked, reader, faults>>

Observe ==
    /\ pc = "fetching"
    /\ LET contained == Ancestor(confirmed, remote) /\ Ancestor(remote, local)
       IN  \/ ~contained /\ Stop
           \/ /\ contained
              /\ seen' = remote
              /\ pc' = IF remote = local THEN "retaining" ELSE "pushing"
              /\ UNCHANGED <<confirmed, attempt, request>>
    /\ UNCHANGED <<remote, refs, late, acked, reader, faults>>

ObserveFails ==
    /\ pc = "fetching"
    /\ Fault
    /\ AttemptOver
    /\ UNCHANGED <<remote, refs, late, seen, confirmed, acked, reader>>

\* Slip: push --force.
PushForced ==
    /\ pc = "pushing"
    /\ remote' = local
    /\ late' = late
    /\ pc' = "verifying"
    /\ UNCHANGED <<refs, seen, confirmed, attempt, request, acked, reader, faults>>

\* git push without force; its response is ignored.  It may fail, and then
\* still take effect when nobody waits for it any more.
Push ==
    /\ pc = "pushing"
    /\ \/ /\ Ancestor(remote, local)
          /\ remote' = local
          /\ UNCHANGED late
          /\ NoFault
       \/ /\ ~Ancestor(remote, local)
          /\ UNCHANGED <<remote, late>>
          /\ NoFault
       \/ /\ Fault
          /\ late' \in {late, local}
          /\ UNCHANGED remote
    /\ pc' = "verifying"
    /\ UNCHANGED <<refs, seen, confirmed, attempt, request, acked, reader>>

\* Slip: a push is taken to have succeeded.
VerifyTrustingPush ==
    /\ pc = "verifying"
    /\ seen' = local
    /\ pc' = "retaining"
    /\ UNCHANGED <<remote, refs, late, confirmed, attempt, request, acked, reader, faults>>

\* Fetch again: only the exact local head counts as delivered.
Verify ==
    /\ pc = "verifying"
    /\ seen' = remote
    /\ \/ remote = local /\ pc' = "retaining" /\ UNCHANGED <<attempt, request>>
       \/ remote # local /\ AttemptOver
    /\ UNCHANGED <<remote, refs, late, confirmed, acked, reader, faults>>

VerifyFails ==
    /\ pc = "verifying"
    /\ Fault
    /\ AttemptOver
    /\ UNCHANGED <<remote, refs, late, seen, confirmed, acked, reader>>

\* The overall deadline passes, or the client goes away, between attempts.
DeadlinePasses ==
    /\ pc = "fetching"
    /\ attempt > 0
    /\ Fault
    /\ GivenUp
    /\ UNCHANGED <<remote, refs, late, seen, confirmed, acked, reader>>

\* Move the published ref; when that fails nothing is acknowledged, although
\* the ref may have moved.
Retain ==
    /\ pc = "retaining"
    /\ \/ /\ retained' = seen
          /\ pc' = "announcing"
          /\ NoFault
          /\ UNCHANGED <<attempt, request>>
       \/ /\ retained' \in {retained, seen}
          /\ Fault
          /\ GivenUp
    /\ UNCHANGED <<remote, local, late, seen, confirmed, acked, reader>>

\* Serve the delivered prefix and answer the sender.
Announce ==
    /\ pc = "announcing"
    /\ confirmed' = seen
    /\ acked' = IF request \in Acts THEN acked \cup {request} ELSE acked
    /\ GivenUp
    /\ UNCHANGED <<remote, refs, late, seen, reader, faults>>

-----------------------------------------------------------------------------
(* appendSigned, under the write lock: only an idle process takes it.      *)

Deliver(a) ==
    /\ pc' = "fetching"
    /\ attempt' = 0
    /\ request' = a

\* Slip: intake goes on while an append is pending.
SubmitWhilePending(a) ==
    /\ pc = "idle"
    /\ local' = IF Holds(local, a) THEN local ELSE Append(local, a)
    /\ Deliver(a)
    /\ UNCHANGED <<remote, retained, late, seen, confirmed, acked, reader, faults>>

\* Slip: a pending append is refused without trying to deliver it.
SubmitUnlessPending(a) ==
    /\ pc = "idle"
    /\ local = confirmed
    /\ local' = IF Holds(local, a) THEN local ELSE Append(local, a)
    /\ Deliver(a)
    /\ UNCHANGED <<remote, retained, late, seen, confirmed, acked, reader, faults>>

\* While an append is pending, nothing new is taken in: the pending one is
\* delivered and the client is told to come back.  Otherwise append (the host
\* returns the existing record for an act it already holds) and deliver.
Submit(a) ==
    /\ pc = "idle"
    /\ \/ local # confirmed /\ Deliver(None) /\ UNCHANGED local
       \/ /\ local = confirmed
          /\ local' = IF Holds(local, a) THEN local ELSE Append(local, a)
          /\ Deliver(a)
    /\ UNCHANGED <<remote, retained, late, seen, confirmed, acked, reader, faults>>

\* The host refuses the act; the unchanged head is confirmed all the same.
SubmitRefused ==
    /\ pc = "idle"
    /\ local = confirmed
    /\ Deliver(None)
    /\ UNCHANGED <<remote, refs, late, seen, confirmed, acked, reader, faults>>

\* readConfirmed: a read-only command takes no lock and looks up the published
\* head before it reads the local sequence.
ReadConfirmed ==
    /\ reader' = retained
    /\ UNCHANGED <<remote, refs, late, pc, seen, confirmed, attempt, request, acked, faults>>

Crash ==
    /\ pc # "down"
    /\ Fault
    /\ Down
    /\ late' \in IF pc = "pushing" THEN {late, local} ELSE {late}
    /\ UNCHANGED <<remote, refs, acked, reader>>

-----------------------------------------------------------------------------
(* Outside the process.                                                    *)

\* A push that was given up on reaches the forge after all.
LatePush ==
    /\ late # <<>>
    /\ late' = <<>>
    /\ remote' = IF Ancestor(remote, late) THEN late ELSE remote
    /\ UNCHANGED <<refs, pc, seen, confirmed, attempt, request, acked, reader, faults>>

\* Another clone, or an administrator, changes the forge.
OutsidePush ==
    /\ Len(remote) < MaxHistory
    /\ \/ "append" \in Outsiders /\ \E f \in ForeignActs : remote' = Append(remote, f)
       \/ "corrupt" \in Outsiders /\ remote' = Append(remote, Unverifiable)
    /\ UNCHANGED <<refs, late, pc, seen, confirmed, attempt, request, acked, reader, faults>>

Rollback ==
    /\ "rollback" \in Outsiders
    /\ \E n \in 1..Len(remote) : remote' = SubSeq(remote, 1, n - 1)
    /\ UNCHANGED <<refs, late, pc, seen, confirmed, attempt, request, acked, reader, faults>>

\* The operator replaces the binding locally while the service is down.
OperatorRebind ==
    /\ "rebind" \in Outsiders
    /\ pc = "down"
    /\ ~Holds(local, Binding)
    /\ local' = Append(local, Binding)
    /\ UNCHANGED <<remote, retained, late, pc, seen, confirmed, attempt, request, acked, reader, faults>>

-----------------------------------------------------------------------------
Init ==
    /\ remote = <<>>
    /\ local = <<>>
    /\ retained = <<>>
    /\ late = <<>>
    /\ pc = "down"
    /\ seen = <<>>
    /\ confirmed = <<>>
    /\ attempt = 0
    /\ request = None
    /\ acked = {}
    /\ reader = <<>>
    /\ faults = 0

\* What the process does of its own accord once it runs.
Proceed ==
    \/ Adopt \/ Attach \/ RetainSeen
    \/ Observe \/ ObserveFails \/ Push \/ Verify \/ VerifyFails
    \/ DeadlinePasses \/ Retain \/ Announce

Request == SubmitRefused \/ \E a \in Acts : Submit(a)

Outside == LatePush \/ OutsidePush \/ Rollback \/ OperatorRebind

Next == Open \/ Proceed \/ Request \/ ReadConfirmed \/ Crash \/ Outside

Spec == Init /\ [][Next]_vars

\* The supervisor restarts a process that exited, the process runs on, and
\* clients whose act is pending keep asking.
Fairness ==
    /\ WF_vars(Open)
    /\ WF_vars(Proceed)
    /\ WF_vars(\E a \in Acts : Submit(a))

FairSpec == Spec /\ Fairness

-----------------------------------------------------------------------------
(* Properties.                                                             *)

\* Every variable keeps its type, and delivery makes at most three attempts.
TypeOK ==
    /\ remote \in History
    /\ local \in History
    /\ retained \in History
    /\ late \in History
    /\ pc \in {"down", "stopped"} \cup Starting \cup Serving
    /\ seen \in History
    /\ confirmed \in History
    /\ attempt \in 0..2
    /\ request \in Acts \cup {None, Opening}
    /\ acked \subseteq Acts
    /\ reader \in History
    /\ faults \in 0..MaxFaults

\* The local sequence holds everything published, so a read-only command that
\* looked up the published head finds it in the sequence it reads afterwards,
\* whatever the writer did in between (verifiedPrefix in readConfirmed).
ReadersFindTheirPrefix ==
    /\ Ancestor(retained, local)
    /\ Ancestor(reader, local)

\* What a running service shows is on disk as published, so a restart after
\* any crash shows at least as much.
ServedIsRetained ==
    pc \in Serving => Ancestor(confirmed, retained)

\* Intake freezes while delivery is pending: the service never runs more than
\* one act ahead of the prefix it serves, across crashes and restarts too.
OneActPending ==
    pc \in Serving => Len(local) <= Len(confirmed) + 1

\* A binding replaced locally is left to the operator, never delivered to the
\* forge by the service.
BindingNotDelivered == ~Holds(remote, Binding)

\* Nothing is published that the host did not verify, even if an outsider put
\* it on the forge and the local sequence already followed.
PublishedVerifies == ~Holds(retained, Unverifiable)

\* Unless somebody rolls the forge back, everything published is on it.
PublishedIsOnForge == Ancestor(retained, remote)

\* An act is recorded once: neither a sender that asks again after an outage nor
\* a local sequence that follows the forge records it a second time.
ActsRecordedOnce ==
    \A i, j \in 1..Len(local) : local[i] \in Acts /\ local[i] = local[j] => i = j

\* As long as nobody else writes to the forge or rebinds, the checks that fail
\* closed never lock the service out by its own doing: whatever crashed, failed
\* or landed late, it does not stop, and once down it can be opened again.
NeverLockedOut ==
    /\ pc # "stopped"
    /\ pc = "down" => OpenAllowed
    /\ pc = "attaching" => AttachAllowed

\* Only its own operator takes a record away from the forge: the service never
\* rewrites history, even when its push races an outsider's or lands late.
ForgeOnlyGrows == [][Ancestor(remote, remote') \/ Rollback]_vars

\* The repository implements the log it promises: acts are taken in one at a
\* time, published records stay published and acknowledged acts are among them.
Promise == INSTANCE ConfirmedLog WITH log <- local, published <- retained
KeepsPromise == Promise!Spec

\* With finitely many faults and nobody else writing to the forge, an act that
\* was appended is published: delivery has no retry of its own, but a restart
\* or any further request resumes it.
PendingDelivered ==
    \A a \in Acts : Holds(local, a) ~> Holds(retained, a)
=============================================================================
