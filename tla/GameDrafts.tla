----------------------------- MODULE GameDrafts -----------------------------
(***************************************************************************)
(* Joins and moves made in a browser tab: the draft table of               *)
(* src/cmd/chess/web_actions.go and the tab's side of the protocol in      *)
(* ui/app.js.  The service prepares the chosen action as a draft, the tab  *)
(* signs it and submits it, and submits the same signature again while     *)
(* the outcome is unknown.  Drafts live in memory: they end with their     *)
(* time or with the service.                                               *)
(*                                                                         *)
(* One mutex covers each handler from end to end, but not the other        *)
(* writers of the repository, which is seen from outside: a log whose      *)
(* suffix may await the forge (ForgeRepository has the details).  A record *)
(* has force if it rests on the last one that had; a join rests on none.   *)
(***************************************************************************)
EXTENDS Naturals, FiniteSets, Sequences

CONSTANTS
    Tabs,         \* browser tabs, each with an actor key of its own
    None,         \* nothing
    DraftTTL,     \* gameDraftTTL
    MaxDrafts,    \* maxGameDrafts
    MaxPrepared,  \* bound: drafts ever prepared
    MaxOthers,    \* bound: moves recorded by other clients
    MaxTime,      \* bound: the clock
    MaxFaults     \* bound: lost answers, outages, restarts

ASSUME BoundsAssumption ==
    /\ {DraftTTL, MaxPrepared, MaxOthers, MaxTime, MaxFaults} \subseteq Nat
    /\ MaxDrafts \in Nat \ {0}

VARIABLES
    drafts,    \* the table: each draft ever drawn, None once it is gone
    drawn,     \* drafts drawn
    serving,   \* the request that holds the mutex
    requests,  \* those in the network or waiting for the mutex
    tab,       \* each tab
    log,       \* the sequence, and
    published, \* how many of its records the forge has confirmed
    shown,     \* records whose confirmation reached a tab
    refused,   \* drafts a tab gave up because the service refused them
    now,
    others,    \* moves of other clients so far
    faults     \* faults so far

repository == <<log, published>>
heard == <<shown, refused>>
vars == <<drafts, drawn, serving, requests, tab, log, published, shown, refused,
          now, others, faults>>

Ids       == 1..MaxPrepared
Positions == 0..(MaxPrepared + MaxOthers)
Rests     == Positions \cup {None}

\* A record: the draft it carries out (None: not one of ours), what it rests on.
Entry == [draft : Ids \cup {None}, rests : Rests]

Draft == [tab : Tabs, rests : Rests, expires : Nat, record : Positions]

Prepare == [kind : {"prepare"}, from : Tabs \cup {None}, by : Tabs, rests : Rests]
Submission == [kind : {"submit"}, from : Tabs \cup {None}, draft : Ids]

\* board: the last move the tab shows; rests: what its action rests on, None for
\* a join.
Tab == [phase : {"watching", "chosen", "preparing", "unsigned", "signed", "submitting"},
        board : Positions, rests : Rests,
        draft : Ids \cup {None}, expires : Nat]

ASSUME NoneAssumption == None \notin Nat \cup Tabs \cup Draft \cup Prepare \cup Submission

Fault   == faults < MaxFaults /\ faults' = faults + 1
NoFault == UNCHANGED faults

-----------------------------------------------------------------------------
(* The log and its fold.                                                   *)

Prefix(s, n) == SubSeq(s, 1, n)

\* The last record of s that has force, 0 if none.
LastMove(s) ==
    LET last[n \in 0..Len(s)] ==
            IF n = 0 THEN 0
            ELSE IF s[n].rests = last[n - 1] THEN n ELSE last[n - 1]
    IN  last[Len(s)]

\* Slip: each submission has a retry key of its own.
FreshRecords(s, d) == {}

\* The host keeps one record per author and retry key, and the draft's
\* identifier is its retry key.
Records(s, d) == {n \in 1..Len(s) : s[n].draft = d}
RecordOf(s, d) == CHOOSE n \in Records(s, d) : TRUE

View    == Prefix(log, published)
Pending == published < Len(log)

-----------------------------------------------------------------------------
(* The tab.                                                                *)

At(t, phase) == tab[t].phase = phase

\* The tab holds no action.
Watching(t) == [phase |-> "watching", board |-> tab[t].board, rests |-> None,
                draft |-> None, expires |-> 0]

\* A join or a move on the board as shown.  The tab takes no second action
\* while it has a signed one.
Choose(t) ==
    /\ tab[t].phase \in {"watching", "unsigned"}
    /\ \E rests \in {None, tab[t].board} :
          tab' = [tab EXCEPT ![t] = [Watching(t) EXCEPT !.phase = "chosen", !.rests = rests]]
    /\ UNCHANGED <<drafts, drawn, serving, requests, repository, heard, now, others, faults>>

Expired(t) == tab[t].expires <= now

\* submitGameAction: sign once, submit as often as it takes.  A draft that has
\* expired is given up.
Submit(t) ==
    /\ tab[t].phase \in {"unsigned", "signed"}
    /\ IF Expired(t)
       THEN tab' = [tab EXCEPT ![t] = Watching(t)] /\ UNCHANGED requests
       ELSE /\ tab' = [tab EXCEPT ![t].phase = "submitting"]
            /\ requests' = requests \cup
                   {[kind |-> "submit", from |-> t, draft |-> tab[t].draft]}
    /\ UNCHANGED <<drafts, drawn, serving, repository, heard, now, others, faults>>

\* refreshBoard: a changed position clears an action that is not signed yet,
\* unless the tab is busy with it.
Refresh(t) ==
    LET last    == LastMove(View)
        changed == last # tab[t].board
    IN  /\ tab' = [tab EXCEPT ![t] =
                     [IF changed /\ At(t, "unsigned") THEN Watching(t) ELSE tab[t]
                        EXCEPT !.board = last]]
        /\ changed
        /\ UNCHANGED <<drafts, drawn, serving, requests, repository, heard, now, others, faults>>

\* The cancel button; it undoes nothing.
Cancel(t) ==
    /\ tab[t].phase \in {"unsigned", "signed"}
    /\ tab' = [tab EXCEPT ![t] = Watching(t)]
    /\ UNCHANGED <<drafts, drawn, serving, requests, repository, heard, now, others, faults>>

\* Slip: every failure is taken for a refusal.
AlwaysRefusal(status) == TRUE

\* What the tab takes for a refusal of its draft.
Refusal(status) == status = 400

\* The submissions of the tabs ts fail, all with `status`: a refused or expired
\* draft is given up, any other is kept to be submitted again.
Fail(ts, status) ==
    /\ tab' = [t \in Tabs |-> IF t \notin ts THEN tab[t]
                              ELSE IF Refusal(status) \/ Expired(t) THEN Watching(t)
                              ELSE [tab[t] EXCEPT !.phase = "signed"]]
    /\ refused' = IF Refusal(status) THEN refused \cup {tab[t].draft : t \in ts} ELSE refused
    /\ UNCHANGED shown

-----------------------------------------------------------------------------
(* The service.                                                            *)

Table == {d \in Ids : drafts[d] # None}

\* prune
Pruned ==
    [d \in Ids |-> IF d \in Table /\ drafts[d].expires <= now THEN None ELSE drafts[d]]

Kept == {d \in Ids : Pruned[d] # None}

\* Slip: one draft too many.
HasRoomForOneMore == Cardinality(Kept) <= MaxDrafts

HasRoom == Cardinality(Kept) < MaxDrafts

\* The tabs that wait for the answer to q: one, or none.
Waiting(q) == {q.from} \ {None}

FailPrepare(q) == tab' = [t \in Tabs |-> IF t \in Waiting(q) THEN Watching(t) ELSE tab[t]]
FailSubmit(q, status) == Fail(Waiting(q), status)

Release == serving' = None

\* prepareGameAction reads the predecessor only now, after it has awaited the
\* key and the identity: not the one shown when the player chose.  prepare: a
\* full table refuses before the repository is opened, and the predecessor must
\* be the last move.  What was read is used under the mutex, after other writers
\* may have gone on.
PrepareAction(t) ==
    LET rests == IF tab[t].rests = None THEN None ELSE tab[t].board
        good  == HasRoom /\ rests \in {None, LastMove(View)}
    IN  /\ At(t, "chosen")
        /\ serving = None
        /\ drafts' = Pruned
        /\ \/ /\ good
              /\ serving' = [kind |-> "prepare", from |-> t, by |-> t, rests |-> rests]
              /\ tab' = [tab EXCEPT ![t].phase = "preparing", ![t].rests = rests]
              /\ NoFault
           \/ /\ tab' = [tab EXCEPT ![t] = Watching(t)]
              /\ IF good THEN Fault ELSE NoFault
              /\ UNCHANGED serving
        /\ UNCHANGED <<drawn, requests, repository, heard, now, others>>

\* The draft is stored under a random name, unless an append is pending.
StoreDraft ==
    LET q == serving
        d == drawn + 1
        e == now + DraftTTL
    IN  /\ serving # None
        /\ q.kind = "prepare"
        /\ \/ /\ Pending \/ drawn = MaxPrepared \/ e > MaxTime
              /\ FailPrepare(q)
              /\ UNCHANGED <<drafts, drawn>>
           \/ /\ ~Pending /\ drawn < MaxPrepared /\ e <= MaxTime
              /\ drawn' = d
              /\ drafts' = [drafts EXCEPT ![d] =
                              [tab |-> q.by, rests |-> q.rests, expires |-> e, record |-> 0]]
              /\ tab' = [t \in Tabs |-> IF t \notin Waiting(q) THEN tab[t]
                           ELSE [tab[t] EXCEPT !.phase = "unsigned", !.draft = d, !.expires = e]]
        /\ Release
        /\ UNCHANGED <<requests, repository, heard, now, others, faults>>

\* submit: an unknown draft is refused.
AcceptSubmit(q) ==
    /\ serving = None
    /\ requests' = requests \ {q}
    /\ drafts' = Pruned
    /\ \/ Pruned[q.draft] = None /\ FailSubmit(q, 400) /\ NoFault /\ UNCHANGED serving
       \/ Pruned[q.draft] # None /\ serving' = q /\ NoFault /\ UNCHANGED <<tab, heard>>
       \/ Pruned[q.draft] # None /\ FailSubmit(q, 503) /\ Fault /\ UNCHANGED serving
    /\ UNCHANGED <<drawn, repository, now, others>>

\* An earlier append is pending: it is delivered, and the answer is an error.
Reconcile(q) ==
    /\ Pending
    /\ \/ published' = Len(log) /\ NoFault
       \/ UNCHANGED published /\ Fault
    /\ FailSubmit(q, 503) /\ Release
    /\ UNCHANGED <<drafts, log>>

\* Slip: the draft is recorded when the append returns, confirmed or not.
AppendAndTrust(q) ==
    /\ ~Pending
    /\ log' = Append(log, [draft |-> q.draft, rests |-> drafts[q.draft].rests])
    /\ drafts' = [drafts EXCEPT ![q.draft].record = Len(log')]
    /\ \/ published' = Len(log') /\ NoFault
       \/ UNCHANGED published /\ Fault
    /\ UNCHANGED <<serving, tab, heard>>

\* Append, unless the host has the record; the draft remembers its record once
\* it is confirmed.
AppendAndConfirm(q) ==
    LET d    == q.draft
        held == Records(log, d) # {}
        n    == IF held THEN RecordOf(log, d) ELSE Len(log')
    IN  /\ ~Pending
        /\ log' = IF held THEN log
                  ELSE Append(log, [draft |-> d, rests |-> drafts[d].rests])
        /\ \/ /\ published' = Len(log')
              /\ drafts' = [drafts EXCEPT ![d].record = n]
              /\ UNCHANGED <<serving, tab, heard, faults>>
           \/ /\ published' \in {published, Len(log')}
              /\ FailSubmit(q, 503) /\ Release /\ Fault
              /\ UNCHANGED drafts

\* The repository is busy, cannot be opened or takes nothing in.
AppendFails(q) ==
    /\ FailSubmit(q, 503) /\ Release
    /\ Fault
    /\ UNCHANGED <<drafts, repository>>

\* Recorded, now or before: the record, its decision and the frontier are
\* reported, unless they cannot be read.
AnswerRecorded(q) ==
    /\ \/ /\ shown' = shown \cup {log[drafts[q.draft].record] : t \in Waiting(q)}
          /\ tab' = [t \in Tabs |-> IF t \in Waiting(q) THEN Watching(t) ELSE tab[t]]
          /\ UNCHANGED <<refused, faults>>
       \/ FailSubmit(q, 503) /\ Fault
    /\ Release
    /\ UNCHANGED <<drafts, repository>>

SubmitDraft ==
    LET q == serving
    IN  /\ serving # None
        /\ q.kind = "submit"
        /\ IF drafts[q.draft].record # 0 THEN AnswerRecorded(q)
           ELSE Reconcile(q) \/ AppendAndConfirm(q) \/ AppendFails(q)
        /\ UNCHANGED <<drawn, requests, now, others>>

-----------------------------------------------------------------------------
(* The rest of the world.                                                  *)

\* Nobody waits for the requests of t any more, but they may be served.
Orphan(q, t) == IF q # None /\ q.from = t THEN [q EXCEPT !.from = None] ELSE q

\* The answer is lost, or does not come in time.
LoseAnswer(t) ==
    /\ tab[t].phase \in {"preparing", "submitting"}
    /\ Fault
    /\ requests' = {Orphan(q, t) : q \in requests}
    /\ serving' = Orphan(serving, t)
    /\ IF At(t, "submitting") THEN Fail({t}, 0)
       ELSE tab' = [tab EXCEPT ![t] = Watching(t)] /\ UNCHANGED heard
    /\ UNCHANGED <<drafts, drawn, repository, now, others>>

\* Agents, identity acts and other writers use the same repository.
OtherWriter ==
    /\ \/ /\ ~Pending
          /\ others < MaxOthers
          /\ log' = Append(log, [draft |-> None, rests |-> LastMove(log)])
          /\ others' = others + 1
          /\ \/ published' = Len(log') /\ NoFault
             \/ UNCHANGED published /\ Fault
       \/ /\ Pending
          /\ published' = Len(log)
          /\ UNCHANGED <<log, others, faults>>
    /\ UNCHANGED <<drafts, drawn, serving, requests, tab, heard, now>>

\* The service is gone with its table; what it had appended is not.
Restart ==
    /\ Fault
    /\ drafts' = [d \in Ids |-> None]
    /\ serving' = None
    /\ requests' = {}
    /\ tab' = [t \in Tabs |-> CASE At(t, "preparing")                -> Watching(t)
                                [] At(t, "submitting") /\ Expired(t)  -> Watching(t)
                                [] At(t, "submitting") /\ ~Expired(t) ->
                                      [tab[t] EXCEPT !.phase = "signed"]
                                [] OTHER                              -> tab[t]]
    /\ UNCHANGED <<drawn, repository, heard, now, others>>

Tick ==
    /\ now < MaxTime
    /\ now' = now + 1
    /\ UNCHANGED <<drafts, drawn, serving, requests, tab, repository, heard, others, faults>>

Init ==
    /\ drafts = [d \in Ids |-> None]
    /\ drawn = 0
    /\ serving = None
    /\ requests = {}
    /\ tab = [t \in Tabs |-> [phase |-> "watching", board |-> 0, rests |-> None,
                              draft |-> None, expires |-> 0]]
    /\ log = <<>>
    /\ published = 0
    /\ shown = {}
    /\ refused = {}
    /\ now = 0
    /\ others = 0
    /\ faults = 0

TabStep(t) ==
    Choose(t) \/ PrepareAction(t) \/ Submit(t) \/ Refresh(t) \/ Cancel(t) \/ LoseAnswer(t)

Serve == (\E q \in requests : AcceptSubmit(q)) \/ StoreDraft \/ SubmitDraft

Next == (\E t \in Tabs : TabStep(t)) \/ Serve \/ OtherWriter \/ Restart \/ Tick

Spec == Init /\ [][Next]_vars

-----------------------------------------------------------------------------
(* Properties.                                                             *)

\* Every variable keeps its type; the table, recorded drafts included, holds at
\* most maxGameDrafts (docs/reference/architecture.md:50-52).
TypeOK ==
    /\ drafts \in [Ids -> Draft \cup {None}]
    /\ Cardinality(Table) <= MaxDrafts
    /\ drawn \in 0..MaxPrepared
    /\ serving \in Prepare \cup Submission \cup {None}
    /\ requests \subseteq Submission
    /\ tab \in [Tabs -> Tab]
    /\ log \in Seq(Entry)
    /\ published \in 0..Len(log)
    /\ shown \subseteq Entry
    /\ refused \subseteq Ids
    /\ now \in 0..MaxTime
    /\ others \in 0..MaxOthers
    /\ faults \in 0..MaxFaults

\* A draft gets one record, however often it is submitted: after a lost answer,
\* a pending append, or an answer that could not be composed (submit's cached
\* record, and the draft's identifier as retry key).
OneRecordPerDraft ==
    \A m, n \in 1..Len(log) : log[m].draft = log[n].draft /\ log[m].draft # None => m = n

\* The tab keeps an action whose outcome it does not know: once it has given a
\* draft up as refused, the draft is recorded already or never will be, though
\* earlier submissions of it may still be under way (submitGameAction).
RefusalIsFinal ==
    [][\A d \in refused : {n \in 1..Len(log') : log'[n].draft = d}
                           = {n \in 1..Len(log) : log[n].draft = d}]_vars

\* The service keeps the promise of the confirmed log towards the tabs: what a
\* tab was told is recorded is published, and stays so over restarts.
Promise == INSTANCE ConfirmedLog WITH
    Acts <- Entry, Entries <- Entry, published <- View, acked <- shown
KeepsPromise == Promise!Spec
=============================================================================
