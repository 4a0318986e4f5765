--------------------------- MODULE AgentTransport ---------------------------
(***************************************************************************)
(* Native agents of src/cmd/chess/agent_*.go and the service's side of     *)
(* their protocol in service_actions.go.  A command takes the lock of one  *)
(* custody directory, lets the service prepare the chosen action, signs    *)
(* it, retains it on disk and only then submits it, at most twice; what    *)
(* stays unconfirmed is submitted again by a later retry command.          *)
(*                                                                         *)
(* The service is its forge-backed repository seen from outside: a log     *)
(* whose suffix may be pending, and which takes nothing in meanwhile       *)
(* (ForgeRepository has the details).  The game is one chain of moves: a   *)
(* record has force if it rests on the last one that had.                  *)
(***************************************************************************)
EXTENDS Naturals, Sequences

CONSTANTS
    Procs,        \* bound: command processes running at once
    Custodies,    \* key paths, each with its custody directory
    Keys,         \* actor keys
    None,         \* nothing
    NotConfirmed, \* an answer that confirms nothing
    Breaks,       \* what may be cut off: a "command", the "publication" of a file
    MaxDecisions, \* bound: actions chosen by the agents
    MaxFaults     \* bound: kills, lost or late answers, failed syncs, outages

ASSUME BoundsAssumption == MaxDecisions \in Nat /\ MaxFaults \in Nat
ASSUME BreaksAssumption == Breaks \subseteq {"command", "publication"}

Decisions == 1..MaxDecisions
Positions == 0..MaxDecisions
Files     == {"identity", "pending.json"}

VARIABLES
    disk,      \* each custody: the key file, its pin, the retained action, and
               \* the files left doubly linked by an unfinished publication
    proc,      \* each command process
    requests,  \* submits in the network or the service
    service,   \* whether the service with the agents' genesis answers
    log,       \* its sequence of actions
    published, \* how many of them the forge has confirmed
    received,  \* confirmations that reached a command
    reported,  \* those of them the command has passed on to its caller
    drawn,     \* actions chosen, hence decisions and retry keys drawn
    faults     \* faults so far

server == <<service, log, published>>
said   == <<received, reported>>
vars   == <<disk, proc, requests, service, log, published, received, reported,
            drawn, faults>>

\* A signed action: whose it is, which decision it carries out, its retry key
\* and the record its author examined.
Action == [custody : Custodies, by : Keys, decision : Decisions,
           token : Decisions, rests : Positions]

ASSUME NoneAssumption ==
    None \notin Custodies \cup Keys \cup Procs \cup Action \cup {NotConfirmed}

Disk == [key : Keys, pin : Keys \cup {None}, retained : Action \cup {None},
         linked : SUBSET Files]

Confirmation == [action : Action, at : Decisions, effective : BOOLEAN]

Proc == [pc : {"idle", "pinning", "open", "preparing", "retaining", "linking",
               "checking", "waiting", "clearing", "reporting"},
         custody : Custodies \cup {None}, key : Keys \cup {None},
         action : Action \cup {None}, attempt : 0..1,
         answer : Confirmation \cup {None, NotConfirmed}]
Idle == [pc |-> "idle", custody |-> None, key |-> None, action |-> None,
         attempt |-> 0, answer |-> None]

Request == [from : Procs \cup {None}, action : Action]

-----------------------------------------------------------------------------
(* The log and the decisions of its fold.                                  *)

Prefix(s, n) == SubSeq(s, 1, n)

\* The last record of s that has force, 0 if none.
LastMove(s) ==
    LET last[n \in 0..Len(s)] ==
            IF n = 0 THEN 0
            ELSE IF s[n].rests = last[n - 1] THEN n ELSE last[n - 1]
    IN  last[Len(s)]

\* Slip: an old record is judged by whether it is still the last move.
DecisionToday(s, n) == LastMove(s) = n

\* Decision: whether record n had force at its own place in the log.
Decision(s, n) == LastMove(Prefix(s, n)) = n

\* The host's idempotency: one record per author and retry key.
SameAct(a, b)  == a.by = b.by /\ a.token = b.token
Holds(s, a)    == \E n \in 1..Len(s) : SameAct(s[n], a)
RecordOf(s, a) == CHOOSE n \in 1..Len(s) : SameAct(s[n], a)

Fault   == faults < MaxFaults /\ faults' = faults + 1
NoFault == UNCHANGED faults

-----------------------------------------------------------------------------
(* Custody.  Commands that are refused before they change anything (the    *)
(* lock is held, nothing to retry, something to retry first) take no step. *)

Free(c) == \A p \in Procs : proc[p].custody # c

\* The command ends, and with it its lock.
End(p) == proc' = [proc EXCEPT ![p] = Idle]

At(p, pc) == proc[p].pc = pc
GoOn(p, pc) == proc' = [proc EXCEPT ![p].pc = pc]

\* The key is read and compared with the pin, which the first use publishes.
\* A doubly linked pin is refused.
Enter(p, c) ==
    /\ At(p, "idle")
    /\ "identity" \notin disk[c].linked
    /\ disk[c].pin \in {None, disk[c].key}
    /\ proc' = [proc EXCEPT ![p].custody = c, ![p].key = disk[c].key,
                   ![p].pc = IF disk[c].pin = None THEN "pinning" ELSE "open"]
    /\ disk' = IF disk[c].pin # None THEN disk
               ELSE [disk EXCEPT ![c].pin = disk[c].key, ![c].linked = @ \cup {"identity"}]
    /\ UNCHANGED <<requests, server, said, drawn, faults>>

\* Slip: the lock is not taken.
OpenUnlocked(p, c) == Enter(p, c)

\* Slip: a replaced key is not noticed.
OpenUnpinned(p, c) ==
    /\ At(p, "idle")
    /\ Free(c)
    /\ proc' = [proc EXCEPT ![p].custody = c, ![p].key = disk[c].key, ![p].pc = "open"]
    /\ UNCHANGED <<disk, requests, server, said, drawn, faults>>

\* openAgentCustody: the lock admits one command per custody.
Open(p, c) == Free(c) /\ Enter(p, c)

\* publish links the complete file under its name and then removes the
\* temporary name.
Unlinked(c, file) == disk' = [disk EXCEPT ![c].linked = @ \ {file}]

\* The directory may not sync, or the temporary name not go away; then the
\* command ends, but the file is in place.
Publish(p, file, next) ==
    LET c == proc[p].custody
    IN  \/ Unlinked(c, file) /\ GoOn(p, next) /\ NoFault
        \/ Unlinked(c, file) /\ End(p) /\ Fault
        \/ "publication" \in Breaks /\ Fault /\ End(p) /\ UNCHANGED disk

Pinned(p) ==
    /\ At(p, "pinning")
    /\ Publish(p, "identity", "open")
    /\ UNCHANGED <<requests, server, said, drawn>>

-----------------------------------------------------------------------------
(* mutate.                                                                 *)

\* A fresh retry key, and the position of some board the agent has examined.
Choose(p) ==
    LET c == proc[p].custody
    IN  /\ At(p, "open")
        /\ disk[c].retained = None
        /\ drawn < MaxDecisions
        /\ drawn' = drawn + 1
        /\ \E n \in 0..published :
              proc' = [proc EXCEPT ![p].pc = "preparing",
                          ![p].action = [custody |-> c, by |-> proc[p].key,
                                         decision |-> drawn', token |-> drawn',
                                         rests |-> LastMove(Prefix(log, n))]]
        /\ UNCHANGED <<disk, requests, server, said, faults>>

\* Slip: retry signs the decision again, under a retry key of its own and
\* resting on the board as it is now.
ResumeAfresh(p) ==
    LET c     == proc[p].custody
        again == [disk[c].retained EXCEPT !.token = drawn + 1,
                                          !.rests = LastMove(Prefix(log, published))]
    IN  /\ At(p, "open")
        /\ disk[c].retained # None
        /\ drawn < MaxDecisions
        /\ drawn' = drawn + 1
        /\ proc' = [proc EXCEPT ![p].pc = "checking", ![p].action = again]
        /\ disk' = [disk EXCEPT ![c].retained = again]
        /\ UNCHANGED <<requests, server, said, faults>>

\* retry: the retained action, exactly as it was signed.
Resume(p) ==
    LET c == proc[p].custody
    IN  /\ At(p, "open")
        /\ disk[c].retained # None
        /\ "pending.json" \notin disk[c].linked
        /\ disk[c].retained.by = proc[p].key
        /\ proc' = [proc EXCEPT ![p].pc = "checking", ![p].action = disk[c].retained]
        /\ UNCHANGED <<disk, requests, server, said, drawn, faults>>

\* There is nothing to retry, or pending() refuses a doubly linked file.
Leave(p) ==
    LET c == proc[p].custody
    IN  /\ At(p, "open")
        /\ disk[c].retained = None \/ "pending.json" \in disk[c].linked
        /\ End(p)
        /\ UNCHANGED <<disk, requests, server, said, drawn, faults>>

\* prepareAgent: refused while an append is pending, or when the position has
\* changed.
Preparable(a) ==
    /\ service
    /\ published = Len(log)
    /\ a.rests = LastMove(log)

Prepare(p) ==
    /\ At(p, "preparing")
    /\ \/ Preparable(proc[p].action) /\ GoOn(p, "retaining") /\ NoFault
       \/ ~Preparable(proc[p].action) /\ End(p) /\ NoFault
       \/ End(p) /\ Fault
    /\ UNCHANGED <<disk, requests, server, said, drawn>>

\* Publish the signed action.  Link fails when the name is taken.
Retain(p) ==
    LET c == proc[p].custody
    IN  /\ At(p, "retaining")
        /\ \/ /\ disk[c].retained = None
              /\ disk' = [disk EXCEPT ![c].retained = proc[p].action,
                                      ![c].linked = @ \cup {"pending.json"}]
              /\ GoOn(p, "linking")
              /\ NoFault
           \/ End(p) /\ Fault /\ UNCHANGED disk
        /\ UNCHANGED <<requests, server, said, drawn>>

Retained(p) ==
    /\ At(p, "linking")
    /\ Publish(p, "pending.json", "checking")
    /\ UNCHANGED <<requests, server, said, drawn>>

Again(p) ==
    proc' = [proc EXCEPT ![p].pc = "checking", ![p].attempt = @ + 1, ![p].answer = None]

\* An attempt brought no confirmation; after the second one the command ends
\* with the outcome unknown.
AttemptFails(p) ==
    \/ proc[p].attempt < 1 /\ Again(p)
    \/ proc[p].attempt >= 1 /\ End(p)

\* Every attempt checks first that the service with this genesis answers.
Send(p) ==
    /\ At(p, "checking")
    /\ \/ /\ service
          /\ requests' = requests \cup {[from |-> p, action |-> proc[p].action]}
          /\ GoOn(p, "waiting")
          /\ NoFault
       \/ ~service /\ AttemptFails(p) /\ NoFault /\ UNCHANGED requests
       \/ AttemptFails(p) /\ Fault /\ UNCHANGED requests
    /\ UNCHANGED <<disk, server, said, drawn>>

\* The command is cancelled while it waits before its second attempt.
Cancel(p) ==
    /\ At(p, "checking")
    /\ proc[p].attempt = 1
    /\ Fault
    /\ End(p)
    /\ UNCHANGED <<disk, requests, server, said, drawn>>

\* Nobody waits for p's submit any more, but it may still be served.
Abandoned(p) ==
    {r \in requests : r.from # p}
        \cup {[r EXCEPT !.from = None] : r \in {q \in requests : q.from = p}}

TimeOut(p) ==
    /\ At(p, "waiting")
    /\ proc[p].answer = None
    /\ Fault
    /\ requests' = Abandoned(p)
    /\ AttemptFails(p)
    /\ UNCHANGED <<disk, server, said, drawn>>

Receive(p) ==
    /\ At(p, "waiting")
    /\ \/ /\ proc[p].answer = NotConfirmed
          /\ AttemptFails(p)
          /\ UNCHANGED received
       \/ /\ proc[p].answer \notin {None, NotConfirmed}
          /\ received' = received \cup {proc[p].answer}
          /\ GoOn(p, "clearing")
    /\ UNCHANGED <<disk, requests, server, reported, drawn, faults>>

\* clear: only a confirmed action is removed.  Removing it may fail, and so
\* may the sync of the directory after it was removed; either way the command
\* ends by saying that the action is confirmed, not whether it had force, and
\* to retry.
Clear(p) ==
    LET cleared == [disk EXCEPT ![proc[p].custody].retained = None]
    IN  /\ At(p, "clearing")
        /\ \/ disk' = cleared /\ GoOn(p, "reporting") /\ NoFault
           \/ disk' \in {disk, cleared} /\ End(p) /\ Fault
        /\ UNCHANGED <<requests, server, said, drawn>>

\* The command prints the confirmation.
Report(p) ==
    /\ At(p, "reporting")
    /\ reported' = reported \cup {proc[p].answer}
    /\ End(p)
    /\ UNCHANGED <<disk, requests, server, received, drawn, faults>>

\* The command is killed: its lock goes, what it has published stays.
Kill(p) ==
    /\ ~At(p, "idle")
    /\ "command" \in Breaks
    /\ proc[p].pc \in {"pinning", "linking"} => "publication" \in Breaks
    /\ Fault
    /\ End(p)
    /\ requests' = Abandoned(p)
    /\ UNCHANGED <<disk, server, said, drawn>>

\* Somebody puts another key file in place.
ReplaceKey(c) ==
    /\ Fault
    /\ \E k \in Keys \ {disk[c].key} : disk' = [disk EXCEPT ![c].key = k]
    /\ UNCHANGED <<proc, requests, server, said, drawn>>

-----------------------------------------------------------------------------
(* submitAgent.  The position is not read again: the fold judges an action *)
(* that lost a race, and a replay must find its record.                    *)

Answered(r, answer) ==
    /\ requests' = requests \ {r}
    /\ proc' = IF r.from = None THEN proc ELSE [proc EXCEPT ![r.from].answer = answer]

\* What is answered about action a once the log s is confirmed.
Confirmed(s, a) ==
    [action |-> a, at |-> RecordOf(s, a), effective |-> Decision(s, RecordOf(s, a))]

\* An earlier append is pending: it is delivered, and nothing is taken in.
Reconcile(r) ==
    /\ published < Len(log)
    /\ \/ published' = Len(log) /\ NoFault
       \/ UNCHANGED published /\ Fault
    /\ Answered(r, NotConfirmed)
    /\ UNCHANGED log

\* Slip: the confirmation does not wait for the forge.
AppendUnconfirmed(r) ==
    /\ published = Len(log)
    /\ log' = IF Holds(log, r.action) THEN log ELSE Append(log, r.action)
    /\ \/ published' = Len(log') /\ NoFault
       \/ UNCHANGED published /\ Fault
    /\ Answered(r, Confirmed(log', r.action))

\* Append, unless the host holds the act already, and wait for the forge.  The
\* answer is an error when the forge does not confirm, or the decision or the
\* frontier cannot be read.
AppendAndConfirm(r) ==
    /\ published = Len(log)
    /\ log' = IF Holds(log, r.action) THEN log ELSE Append(log, r.action)
    /\ \/ published' = Len(log') /\ Answered(r, Confirmed(log', r.action)) /\ NoFault
       \/ published' \in {published, Len(log')} /\ Answered(r, NotConfirmed) /\ Fault

\* Slip: the position is checked again, as when the action was prepared.
SubmitChecked(r) ==
    /\ service
    /\ \/ Reconcile(r)
       \/ r.action.rests = LastMove(log) /\ AppendAndConfirm(r)
       \/ /\ r.action.rests # LastMove(log)
          /\ Answered(r, NotConfirmed)
          /\ NoFault
          /\ UNCHANGED <<log, published>>
    /\ UNCHANGED <<disk, service, said, drawn>>

Submit(r) ==
    /\ service
    /\ Reconcile(r) \/ AppendAndConfirm(r)
    /\ UNCHANGED <<disk, service, said, drawn>>

\* The request is lost: the service is gone, or busy.
Refuse(r) ==
    /\ \/ ~service /\ NoFault
       \/ service /\ Fault
    /\ Answered(r, NotConfirmed)
    /\ UNCHANGED <<disk, server, said, drawn>>

\* The service stops, or another repository is served at its address.
Outage ==
    /\ service
    /\ Fault
    /\ service' = FALSE
    /\ UNCHANGED <<disk, proc, requests, log, published, said, drawn>>

\* Opening the repository reconciles a pending append.
Restored ==
    /\ ~service
    /\ service' = TRUE
    /\ \/ published' = Len(log) /\ NoFault
       \/ UNCHANGED published /\ Fault
    /\ UNCHANGED <<disk, proc, requests, log, said, drawn>>

-----------------------------------------------------------------------------
Init ==
    /\ disk \in [Custodies -> [key : Keys, pin : {None}, retained : {None}, linked : {{}}]]
    /\ proc = [p \in Procs |-> Idle]
    /\ requests = {}
    /\ service = TRUE
    /\ log = <<>>
    /\ published = 0
    /\ received = {}
    /\ reported = {}
    /\ drawn = 0
    /\ faults = 0

\* What a command does once it holds its custody.
Proceed(p) ==
    \/ Pinned(p) \/ Choose(p) \/ Resume(p) \/ Leave(p)
    \/ Prepare(p) \/ Retain(p) \/ Retained(p)
    \/ Send(p) \/ TimeOut(p) \/ Receive(p) \/ Clear(p) \/ Report(p)

Serve == \E r \in requests : Submit(r) \/ Refuse(r)

Next ==
    \/ \E p \in Procs, c \in Custodies : Open(p, c)
    \/ \E p \in Procs : Proceed(p) \/ Cancel(p) \/ Kill(p)
    \/ \E c \in Custodies : ReplaceKey(c)
    \/ Serve \/ Outage \/ Restored

Spec == Init /\ [][Next]_vars

\* Commands run on, the service serves and is restored, and the owner of a key
\* path runs commands again and again (retry, while an action is retained).
Fairness ==
    /\ \A p \in Procs : WF_vars(Proceed(p))
    /\ \A c \in Custodies : WF_vars(\E p \in Procs : Open(p, c))
    /\ WF_vars(Serve)
    /\ WF_vars(Restored)

FairSpec == Spec /\ Fairness

-----------------------------------------------------------------------------
(* Properties.                                                             *)

Outstanding == {r.action : r \in requests}
Recorded    == {log[n] : n \in 1..Len(log)}
Settled     == {r.action : r \in received}

\* Every variable keeps its type; mutate never makes a third attempt.
TypeOK ==
    /\ disk \in [Custodies -> Disk]
    /\ proc \in [Procs -> Proc]
    /\ requests \subseteq Request
    /\ service \in BOOLEAN
    /\ log \in Seq(Action)
    /\ published \in 0..Len(log)
    /\ received \subseteq Confirmation
    /\ reported \subseteq received
    /\ drawn \in Positions
    /\ faults \in 0..MaxFaults

\* An action that has left a command (its submit is under way or appended) is
\* still retained by its custody, until a command has seen its confirmation:
\* mutate retains before it submits, clears only what is confirmed, and the
\* lock keeps it from clearing another command's action.
OutcomeRecoverable ==
    \A a \in Outstanding \cup Recorded :
        disk[a.custody].retained = a \/ a \in Settled

\* An agent's decision gets one record, however often it is submitted and
\* retried, by however many commands and over restarts of the service.
OneRecordPerDecision ==
    \A m, n \in 1..Len(log) : log[m].decision = log[n].decision => m = n

\* Everything submitted from one key path is signed by the same key, whoever
\* replaces the key file: the pin is published before the first submit.
OneIdentityPerCustody ==
    \A a, b \in Outstanding \cup Recorded : a.custody = b.custody => a.by = b.by

\* What a confirmation says stays true: the record it names is published, is
\* that action, and had force or not at its own place, whatever came after.
SettledStands ==
    \A r \in received :
        /\ r.at <= published
        /\ log[r.at] = r.action
        /\ r.effective = Decision(log, r.at)

\* The service keeps the promise of the confirmed log towards the agents:
\* what it published stays, and what it confirmed to a command is published.
Promise == INSTANCE ConfirmedLog WITH
    Acts <- Action, Entries <- Action,
    published <- Prefix(log, published), acked <- Settled
KeepsPromise == Promise!Spec

\* A retained action is settled in the end, even after later moves: submit
\* does not check the position again (the comment at service_actions.go:203-205).
RetryRecovers ==
    \A c \in Custodies, d \in Decisions :
        disk[c].retained # None /\ disk[c].retained.decision = d
            ~> \E r \in received : r.action.decision = d

\* "Retry survives both agent and service restarts" (docs/local-agent.md:102):
\* when no command uses the custody, the retained action can be read.
RetryFindsRetained ==
    \A c \in Custodies :
        Free(c) /\ disk[c].retained # None => disk[c].linked = {}
=============================================================================
