--------------------------- MODULE IdentityService ---------------------------
(***************************************************************************)
(* The identity service of src/cmd/chess/web_identity.go.  An actor proves *)
(* that it holds its key, signs in at GitHub and gets an anchor signed by  *)
(* an external witness; or it has a Nostr anchor or an endorsement of      *)
(* another key prepared as a draft, which it signs itself.  Each step is   *)
(* bound to a random, short-lived, one-shot token kept in memory.          *)
(*                                                                         *)
(* Unlike the game actions, the handlers run side by side: only the token  *)
(* tables and the repository's writer are locked.  The repository is seen  *)
(* from outside (ForgeRepository has the details), and so is the host's    *)
(* identity fold: an anchor has force if, at its own place in the log, its *)
(* signer is the declared witness or an anchored endorser.                 *)
(***************************************************************************)
EXTENDS Naturals, Sequences, FiniteSets

CONSTANTS
    Actors,
    Witnesses,   \* keys of witnesses, declared or not
    None,        \* nothing
    TTL,         \* lifetime of a token
    MaxPending,  \* identityMaxPending
    MaxTokens,   \* bound: tokens ever drawn
    MaxRecords,  \* bound: length of the log
    MaxTime,     \* bound: the clock
    MaxFaults    \* bound: outages, lost confirmations, restarts

ASSUME BoundsAssumption ==
    {TTL, MaxPending, MaxTokens, MaxRecords, MaxTime, MaxFaults} \subseteq Nat
ASSUME NoneAssumption == None \notin Nat \cup {"created", "refused", "error", "invalid"}

VARIABLES
    table,     \* each token: what it stands for while it is pending
    drawn,     \* tokens drawn
    call,      \* each token: the handler that has taken it
    answer,    \* each token: what that handler answered
    signer,    \* the key the external signer holds
    log,       \* the sequence, and
    published, \* how many of its records the forge has confirmed
    now,
    faults     \* faults so far

repository == <<log, published>>
vars == <<table, drawn, call, answer, signer, log, published, now, faults>>

Tokens == 1..MaxTokens

\* origin: the possession proof a GitHub state descends from.
Pending == [kind : {"proof", "state", "nostr", "agent"}, by : Actors, subject : Actors,
            origin : Tokens, expires : Nat]

\* since: how much was published when the signer replied.
Call == [pc : {"identifying", "signing", "checking", "appending", "reporting"}, act : Pending,
         key : Actors \cup Witnesses \cup {None}, since : 0..MaxRecords]

Entry == [kind : {"witness", "github", "nostr", "agent", "revoke"},
          by : Actors \cup Witnesses, subject : Actors \cup {None},
          token : Tokens \cup {None}, origin : Tokens \cup {None}, since : 0..MaxRecords]
Record(kind, by) == [kind |-> kind, by |-> by, subject |-> None, token |-> None,
                     origin |-> None, since |-> 0]

Fault   == faults < MaxFaults /\ faults' = faults + 1
NoFault == UNCHANGED faults

-----------------------------------------------------------------------------
(* The host's identity fold.                                               *)

View == SubSeq(log, 1, published)
Undelivered == published < Len(log)

\* The witness declared by the first n records of s.
WitnessAt(s, n) ==
    LET declared == {i \in 1..n : s[i].kind = "witness"}
    IN  IF declared = {} THEN None
        ELSE s[CHOOSE i \in declared : \A j \in declared : j <= i].by

\* Actor a has an anchor in force after the first n records, force telling
\* which records before have it.  A revocation names an actor here.
AnchoredBy(s, n, force, a) ==
    \E m \in 1..n :
        /\ force[m]
        /\ s[m].subject = a
        /\ \A r \in (m + 1)..n : ~(s[r].kind = "revoke" /\ s[r].by = a)

\* Record n of s has force, given which records before it have.
HasForce(s, n, force) ==
    /\ n # 0
    /\ \/ s[n].kind = "nostr"
       \/ s[n].kind = "github" /\ s[n].by = WitnessAt(s, n - 1)
       \/ s[n].kind = "agent" /\ AnchoredBy(s, n - 1, force, s[n].by)

ForceOf(s) ==
    LET force[n \in 0..Len(s)] == HasForce(s, n, force)
    IN  force

Anchored(s, a) == AnchoredBy(s, Len(s), ForceOf(s), a)

\* Slip: an appended record is taken for an anchor.
OutcomeByAppend(s, n) == "created"

\* IdentityOutcome of record n.
IdentityOutcome(s, n) == IF ForceOf(s)[n] THEN "created" ELSE "refused"

-----------------------------------------------------------------------------
(* The token tables: every access drops what has expired.                  *)

Kept == [t \in Tokens |-> IF table[t] # None /\ table[t].expires <= now THEN None ELSE table[t]]

Kinds(kind) == IF kind \in {"proof", "state"} THEN {kind} ELSE {"nostr", "agent"}

Room(kind) ==
    Cardinality({t \in Tokens : Kept[t] # None /\ Kept[t].kind \in Kinds(kind)}) < MaxPending

\* Put a new token in its table, over `base`.
Store(base, kind, by, subject, origin) ==
    /\ drawn < MaxTokens
    /\ drawn' = drawn + 1
    /\ table' = [base EXCEPT ![drawn'] =
                   [kind |-> kind, by |-> by, subject |-> subject,
                    origin |-> IF origin = None THEN drawn' ELSE origin,
                    expires |-> now + TTL]]

\* Slip: a token is found, and stays.
TakeKeeping(t) == Kept

\* A token is found once: it is gone whatever becomes of the request.
Take(t) == [Kept EXCEPT ![t] = None]

Live(t, kinds) == Kept[t] # None /\ Kept[t].kind \in kinds

-----------------------------------------------------------------------------
(* The handlers.  Requests refused before a table is touched take no step. *)

Preflight == WitnessAt(View, published) # None

GithubChallenge(a) ==
    /\ Room("proof")
    /\ Store(Kept, "proof", a, a, None)
    /\ UNCHANGED <<call, answer, signer, repository, now, faults>>

\* The proof becomes an OAuth state, or is spent for nothing: the witness is
\* not declared, the repository not available or the service busy.
GithubStart(t) ==
    /\ Live(t, {"proof"})
    /\ \/ /\ Preflight /\ Room("state")
          /\ Store(Take(t), "state", table[t].by, table[t].subject, table[t].origin)
          /\ NoFault
       \/ /\ IF Preflight /\ Room("state") THEN Fault ELSE NoFault
          /\ table' = Take(t)
          /\ UNCHANGED drawn
    /\ UNCHANGED <<call, answer, signer, repository, now>>

Idle(t) == call[t] = None
Start(t, pc, key) ==
    call' = [call EXCEPT ![t] = [pc |-> pc, act |-> table[t], key |-> key, since |-> 0]]
Answer(t, what) ==
    /\ call' = [call EXCEPT ![t] = None]
    /\ answer' = [answer EXCEPT ![t] = what]

\* githubCallback takes the state before anything else.
GithubCallback(t) ==
    /\ Live(t, {"state"})
    /\ Idle(t)
    /\ table' = Take(t)
    /\ \/ Preflight /\ Start(t, "identifying", None) /\ NoFault /\ UNCHANGED answer
       \/ Answer(t, "error") /\ (IF Preflight THEN Fault ELSE NoFault)
    /\ UNCHANGED <<drawn, signer, repository, now>>

At(t, pc) == call[t] # None /\ call[t].pc = pc
GoOn(t, pc) == call' = [call EXCEPT ![t].pc = pc]

\* The provider names the actor and the act is prepared; not while an append
\* is pending.
Identify(t) ==
    /\ At(t, "identifying")
    /\ \/ ~Undelivered /\ GoOn(t, "signing") /\ NoFault /\ UNCHANGED answer
       \/ Answer(t, "error") /\ (IF Undelivered THEN NoFault ELSE Fault)
    /\ UNCHANGED <<table, drawn, signer, repository, now>>

\* The signer replies with its key and a signature, in its own time or too late.
Sign(t) ==
    /\ At(t, "signing")
    /\ \/ /\ call' = [call EXCEPT ![t].pc = "checking", ![t].key = signer, ![t].since = published]
          /\ NoFault
          /\ UNCHANGED answer
       \/ Answer(t, "error") /\ Fault
    /\ UNCHANGED <<table, drawn, signer, repository, now>>

\* Slip: the reply is checked against the witness read before the signing.
CheckEarlier(t) ==
    /\ At(t, "checking")
    /\ IF \E n \in 1..published : WitnessAt(log, n) = call[t].key
       THEN GoOn(t, "appending") /\ UNCHANGED answer
       ELSE Answer(t, "error")
    /\ UNCHANGED <<table, drawn, signer, repository, now, faults>>

\* The witness is read again, and must be the one that signed.
CheckWitness(t) ==
    /\ At(t, "checking")
    /\ \/ /\ WitnessAt(View, published) = call[t].key
          /\ GoOn(t, "appending") /\ NoFault /\ UNCHANGED answer
       \/ /\ Answer(t, "error")
          /\ IF WitnessAt(View, published) = call[t].key THEN Fault ELSE NoFault
    /\ UNCHANGED <<table, drawn, signer, repository, now>>

\* An endorsement of one's own key with a Nostr proof, or of another key by an
\* anchored actor.
PrepareEndorsement(a, kind, subject) ==
    /\ IF kind = "nostr" THEN subject = a ELSE subject # a /\ Anchored(View, a)
    /\ ~Undelivered
    /\ Room(kind)
    /\ Store(Kept, kind, a, subject, None)
    /\ UNCHANGED <<call, answer, signer, repository, now, faults>>

SubmitEndorsement(t) ==
    /\ Live(t, {"nostr", "agent"})
    /\ Idle(t)
    /\ table' = Take(t)
    /\ \/ Start(t, "appending", table[t].by) /\ NoFault /\ UNCHANGED answer
       \/ Answer(t, "error") /\ Fault
    /\ UNCHANGED <<drawn, signer, repository, now>>

Github(t) == call[t].act.kind = "state"
EntryOf(t) == [kind |-> IF Github(t) THEN "github" ELSE call[t].act.kind,
               by |-> call[t].key, subject |-> call[t].act.subject,
               token |-> t, origin |-> call[t].act.origin, since |-> call[t].since]

\* What the client is told when AppendSigned fails.
AppendFailed(t) == Answer(t, IF Github(t) THEN "error" ELSE "invalid")

\* AppendSigned: an earlier append that is pending is delivered instead; the
\* act may be in the log though it is not confirmed, or though the view cannot
\* be read afterwards.
AppendEndorsement(t) ==
    /\ At(t, "appending")
    /\ \/ /\ Undelivered
          /\ AppendFailed(t)
          /\ UNCHANGED log
          /\ \/ published' = Len(log) /\ NoFault
             \/ UNCHANGED published /\ Fault
       \/ /\ ~Undelivered
          /\ Len(log) < MaxRecords
          /\ log' = Append(log, EntryOf(t))
          /\ \/ published' = Len(log') /\ GoOn(t, "reporting") /\ NoFault /\ UNCHANGED answer
             \/ published' \in {published, Len(log')} /\ AppendFailed(t) /\ Fault
       \/ AppendFailed(t) /\ UNCHANGED repository /\ Fault
       \/ /\ ~Undelivered /\ Len(log) = MaxRecords
          /\ AppendFailed(t) /\ UNCHANGED <<log, published, faults>>
    /\ UNCHANGED <<table, drawn, signer, now>>

\* The fold of the published records decides what is reported, if it can be
\* read.
Report(t) ==
    /\ At(t, "reporting")
    /\ \/ /\ \E n \in 1..published : log[n].token = t /\ Answer(t, IdentityOutcome(View, n))
          /\ NoFault
       \/ Answer(t, "error") /\ Fault
    /\ UNCHANGED <<table, drawn, signer, repository, now>>

-----------------------------------------------------------------------------
(* The rest of the world.                                                  *)

\* Witness declarations, revocations and deliveries by other writers.
OtherWriter ==
    /\ \/ /\ ~Undelivered /\ Len(log) < MaxRecords
          /\ \/ \E w \in Witnesses : log' = Append(log, Record("witness", w))
             \/ \E a \in Actors : Anchored(log, a) /\ log' = Append(log, Record("revoke", a))
       \/ Undelivered /\ UNCHANGED log
    /\ published' = Len(log')
    /\ UNCHANGED <<table, drawn, call, answer, signer, now, faults>>

\* The operator gives the signer another key.
RotateSigner ==
    /\ signer' \in Witnesses \ {signer}
    /\ Fault
    /\ UNCHANGED <<table, drawn, call, answer, repository, now>>

\* Tokens and handlers end with the service.
Restart ==
    /\ Fault
    /\ table' = [t \in Tokens |-> None]
    /\ call' = [t \in Tokens |-> None]
    /\ UNCHANGED <<drawn, answer, signer, repository, now>>

Tick ==
    /\ now < MaxTime
    /\ now' = now + 1
    /\ UNCHANGED <<table, drawn, call, answer, signer, repository, faults>>

Init ==
    /\ table = [t \in Tokens |-> None]
    /\ drawn = 0
    /\ call = [t \in Tokens |-> None]
    /\ answer = [t \in Tokens |-> None]
    /\ signer \in Witnesses
    /\ log = <<>>
    /\ published = 0
    /\ now = 0
    /\ faults = 0

Handle(t) ==
    Identify(t) \/ Sign(t) \/ CheckWitness(t) \/ AppendEndorsement(t) \/ Report(t)

Accept(t) == GithubStart(t) \/ GithubCallback(t) \/ SubmitEndorsement(t)

Next ==
    \/ \E a \in Actors :
          \/ GithubChallenge(a)
          \/ \E kind \in {"nostr", "agent"}, b \in Actors : PrepareEndorsement(a, kind, b)
    \/ \E t \in Tokens : Accept(t) \/ Handle(t)
    \/ OtherWriter \/ RotateSigner \/ Restart \/ Tick

Spec == Init /\ [][Next]_vars

-----------------------------------------------------------------------------
(* Properties.                                                             *)

Recorded(s, t) == \E n \in 1..Len(s) : s[n].token = t

\* Every variable keeps its type; each table holds at most identityMaxPending.
TypeOK ==
    /\ table \in [Tokens -> Pending \cup {None}]
    /\ \A kind \in {"proof", "state", "nostr"} :
          Cardinality({t \in Tokens : table[t] # None /\ table[t].kind \in Kinds(kind)}) <= MaxPending
    /\ drawn \in 0..MaxTokens
    /\ call \in [Tokens -> Call \cup {None}]
    /\ answer \in [Tokens -> {None, "created", "refused", "error", "invalid"}]
    /\ signer \in Witnesses
    /\ log \in Seq(Entry)
    /\ published \in 0..Len(log)
    /\ now \in 0..MaxTime
    /\ faults \in 0..MaxFaults

\* Whoever is told that an anchor was created has one: the record had force at
\* its own place, whoever replaced the witness or revoked the endorser while
\* the request was under way ("append success alone does not imply identity
\* authority", notes/2026-08-27-browser-playability.md:95-99).
CreatedHasForce ==
    \A t \in Tokens : answer[t] = "created" =>
        \E n \in 1..published : log[n].token = t /\ ForceOf(log)[n]

\* The witness that signed a recorded anchor was the declared one at some time
\* after it signed (the comment at web_identity.go:347-349).
WitnessRechecked ==
    \A n \in 1..Len(log) : log[n].kind = "github" =>
        \E m \in log[n].since..(n - 1) : WitnessAt(log, m) = log[n].by

\* A proof of possession leads to one anchor, however often it, or the OAuth
\* state made from it, is presented.
OneAnchorPerProof ==
    \A m, n \in 1..Len(log) :
        log[m].origin = log[n].origin /\ log[m].origin # None => m = n

\* "identity signature is invalid" (web_identity.go:557): a submission that was
\* answered so is not in the log.
InvalidNotRecorded == \A t \in Tokens : answer[t] = "invalid" => ~Recorded(log, t)

\* The records whose submitter was told that they anchor an identity.
Created ==
    {log[n] : n \in {m \in 1..Len(log) :
                        log[m].token # None /\ answer[log[m].token] = "created"}}

\* The service keeps the promise of the confirmed log towards those who anchor
\* an identity: acts are taken in one at a time, and what was reported as
\* created is published and stays so over restarts.
Promise == INSTANCE ConfirmedLog WITH
    Acts <- Entry, Entries <- Entry, published <- View, acked <- Created
KeepsPromise == Promise!Spec
=============================================================================
