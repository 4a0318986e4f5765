# Verification of gitseq-chess

TLA+ models of `github.com/generalbusiness-ai/gitseq-chess`, checked with TLC, and theorems about them
proved with TLAPS. File and line numbers refer to the repository; every definition is translated from the
code, and `PROJECT.json` ("map") names the lines each one stands for.

## The system

Chess games are played by appending signed records to a Git sequence kept by the gitseq host library. A
deterministic fold turns the verified log into games and seats. A service process owns the only writer,
answers browsers and local agents over loopback HTTP, and, in forge mode, publishes nothing it has not seen
on a remote forge. Fourteen parts can be told apart:

| Component | Code | State | Operations | Model |
| --- | --- | --- | --- | --- |
| Game fold and seat authority | `chess.go` (`Fold`, `fold*`, `matchSeat`, `seatSide`, `refresh`, `refuse`) | games, seats, refusal tail | create, create-named, name, join, move, resign, draw offer, draw accept; seat preview | `ChessFold` |
| Act builders and local commands | `chess.go`, `main.go` | none of their own | read the projection under the writer lock, append an act resting on what was read | `LocalCommands` |
| Projection queries | `chess.go` | none | `GameByID`, `GamesPage`, `Decision`, `IdentityOutcome`; `ListAnchors`, `LegalSelection` | partly: `LocalCommands`, `AgentTransport`, `IdentityService` |
| Forge-confirmed repository | `repository.go`, `writer_lock_unix.go` | sequence ref, published ref, forge ref, confirmed prefix, writer lock | open, append, confirm, view, read without lock | `ForgeRepository`, `ConfirmedLog` |
| Native agent transport | `agent_client.go`, `agent_pending.go`, `agent_commands.go`, `agent_lock_unix.go`, `service_actions.go` | one retained signed action per key path, key pin and lock on disk | prepare, sign, retain, submit twice, clear, retry | `AgentTransport` |
| Browser action drafts | `web_actions.go`, `ui/app.js` | at most 128 drafts of five minutes, the record of an appended one; the tab's action | choose, prepare, sign, submit, retry, cancel, refresh | `GameDrafts` |
| Identity service | `web_identity.go` | one-shot proofs, OAuth states and endorsement drafts | challenge, start, callback, prepare, submit | `IdentityService` |
| Live room | `web.go` | sessions with presence and motion, chat transcript, gate, wait slots | open, renew, revoke, motion, chat, observe | `LiveRoom` |
| Key custody | `main.go`, `custody_platform_posix.go` | key directory, key name, temporary names | open the directory, read, make, publish | `KeyCustody` |
| Initialization and rebinding | `main.go` | binding, forge configuration | init, rebind | partly: the key in `KeyCustody`, a replaced binding in `ForgeRepository` |
| MCP server and command line | `main.go`, `agent_commands.go` | none | flags, JSON-RPC framing, dispatch | not modelled: no state |
| HTTP routing, pages, rendering | `web.go`, `ui/` | none | parsing, headers, templates | not modelled: no state |
| Chess rules engine | `github.com/notnil/chess` | outside | legality and result of a move | an input of `ChessFold` |
| Host, identity and live libraries | gitseq host | outside | append, verification, idempotency, anchors, sessions | modelled as the code uses them, marked external |

**Interactions.** Every HTTP handler opens a *view*: the confirmed prefix of the log and its fold. Mutations
are prepared from a view, signed by the caller's key, and appended through the repository's write lock; the
host returns the existing record for an act it already holds, so resubmission is idempotent. In forge mode
the append is followed by `confirm`, and the caller's answer waits for it. The fold alone decides whether an
appended record has force. Command-line and MCP readers take no lock; they read the published ref and then
the sequence. Seats are matched against identities that the identity fold reports at each record, so
endorsements change who may act in a running game. Live hints are not recorded at all: they are shown next
to the board of a confirmed view and must not outlive it.

**What is hard.** Signed acts rest on records that may be superseded by the time they are appended; anchors
are granted, revoked and expire between a seat being taken and used; three Git refs move one at a time while
the process may crash between any two moves; a push may fail, succeed unseen, or take effect after the
writer stopped waiting; other clones may write to the forge; a client may lose the answer to an append and
must neither lose nor repeat it, over restarts of either side; drafts, proofs and sessions expire while a
request that uses them is under way; the declared witness may be replaced while an external signer works;
two commands may make one key at once, and be killed between linking it and cleaning up.

**What makes each component correct.**

* Fold: no key or identity gains both sides; seats never change hands; a refused record has no effect; a
  finished game is final; an offer does not outlive its answer; every record is accounted for.
* Local commands: a command can do whatever its player could do, and cites nothing the fold takes for stale.
* Queries: pages cover every game once, whatever the cursor; decisions agree with the fold's refusals.
* Repository: published records stay published, acknowledged acts are published, only verified records are
  published, nothing on the forge is overwritten, at most one act is pending, and it is eventually delivered.
* Agent transport: an action is submitted only when it is retained; its outcome is found again after any
  crash or lost answer; a decision gets one record; a confirmed result is the record of that very action and
  stays true.
* Browser drafts: a draft gets one record; a tab that gives a draft up as refused is right; what a tab was
  told stays published; the table is bounded.
* Identity service: a proof leads to at most one anchor; an anchor reported as created has force; the signer
  was the declared witness after it signed.
* Live room: a motion is shown only at the head it was made on, by the side to move; cursor and transcript
  are one view; no failing path keeps the gate, a wait slot or a session nobody can reach.
* Key custody: racing creators end with the key linked first; the name never holds a broken key; no command
  follows a link to another key.

## Modules

### ChessFold: the fold of `chess.go`

A record is identified by its position in the log, so identifiers are numbers and 0 is the empty one.
`depth` and `now` are the length of the log and the timestamp of its last record; `standing` is what the
host's identity fold answers at that frontier; `games`, `refused` and `refusedTotal` are the `Projection`.
There is one action per record kind (`FoldCreate`, `FoldCreateNamed`, `FoldName`, `FoldJoin`, `FoldMove`,
`FoldResign`, `FoldDrawOffer`, `FoldDrawAccept`, `FoldUndecodable`), each with the whole effect of its
handler: the guards as one predicate (`MoveAllowed`, `AcceptAllowed`, ...), the new game as one expression
(`Moved`, `Agreed`, ...), and the refusal, with its bounded tail, when the guard fails. `SeatSide` is
`seatSide` with `matchSeat` (`Matches`) and the collision rule (`Collides`), and `Committed` is
`seatMatch.commit`, which passes a seat to the identity its key acts under. `IdentityRecord` stands for the
records the identity fold consumes. The rules engine's verdict on a move is an input: quiet, wins, draws or
unplayable.

An act may cite any record, but the fold only ever compares the citation with identifiers of the game it
names, so `Citable` (those identifiers and "none of them") covers every case; a stale citation is one of the
game's older identifiers or none.

### LocalCommands: reading a projection and building an act

Operators over the state of `ChessFold`, no state of their own. `GamesPage` is the paging of
`Projection.GamesPage` with its cursor and clamped limit, `MoveAct`, `AcceptDrawAct` and `JoinAct` are what
`Move`, `Resign`, `OfferDraw`, `AcceptDraw` and `Join` read before they append. A local writer holds the writer
lock from before the read until after the append, so its act is folded at the frontier it was read at: the
properties are state predicates that compare the act a command builds with every act its player could build.

### ForgeRepository and ConfirmedLog: `repository.go` in forge mode

One writer process is one program counter `pc`, because `acquireWriter` admits one. `remote`, `local` and
`retained` are the forge's ref, the local sequence ref and `refs/chess/forge-confirmed/<genesis>`; they
survive a crash. `seen` and `confirmed` are the fetched head and the prefix the process serves; they do not.
A ref is a sequence of records, and the genesis is the empty sequence.

* `Open`, `Adopt`, `Attach`, `RetainSeen`: the steps of `openChessRepository` in their order (lines 160-236),
  with a crash possible between any two. `OpenAllowed` and `AttachAllowed` are the checks that fail closed;
  `NeverLockedOut` says that nothing the service does by itself, however it is cut short, makes them fail.
* `Observe`, `Push`, `Verify`, `Retain`, `Announce` and their failures: one attempt of `confirm` (317-381);
  `AttemptOver` is the attempt counter and `DeadlinePasses` the overall deadline. A push that fails may leave
  a delivery in `late` that the forge runs at any later time, once (`LatePush`).
* `Submit`, `SubmitRefused`: `appendSigned` (383-410), with the rule that a pending append freezes intake.
* `ReadConfirmed`: a read-only command that has looked up the published ref and not yet read the sequence.
* `OutsidePush`, `Rollback`, `OperatorRebind`: what may happen behind the writer's back.

The host's `Attach` verifies the whole local history; a record it rejects is `Unverifiable`.

`ConfirmedLog` is the promise: a log that takes acts in one at a time, each only when everything before it is
published (`Take`), that follows records no client submitted (`Follow`), whose published prefix only grows
(`Publish`), and in whose published prefix every acknowledged act is (`Acknowledge`). What follows for anybody
who keeps it is `Consistent`: of what awaits publication, at most the first record is an act.
`ForgeRepository` implements it with `log <- local, published <- retained, acked <- acked`. The published ref
on disk, not the served prefix, is the right witness: the prefix is lost in a crash. `AgentTransport`,
`GameDrafts` and `IdentityService` implement the same promise towards agents, tabs and actors, with the
repository seen from outside: so what holds of the refs is carried through to what a player was told.

### AgentTransport: native agents and the service's side of their protocol

`disk` is the custody directory of each key path: the key file beside it, the pinned public key
(`identity`), the retained action (`pending.json`) and which of the two files still have their temporary
second link. `proc` is a command process: where it stands in `openAgentCustody` and `mutate`, its attempt
and the answer it waits for; a process owns a custody while its `custody` field names it, which is the
`flock`. `requests` are submits that are in the network or the service; one that nobody waits for any more
may still be served. `log` and `published` are `ForgeRepository` seen from outside: the sequence, and how
much of it is confirmed. `received` are the confirmations commands have seen, `reported` those they have
printed.

* `Open`, `Pinned`: `openAgentCustody` with the publication of the pin.
* `Choose`, `Prepare`, `Retain`, `Retained`: a new action in `mutate` and `prepareAgent`, up to the retained
  file. `Publish` is the second half of `publish`, after the link: the temporary name is removed and the
  directory synced, and either can fail.
* `Resume`: the `retry` command, which skips all that and takes the retained action as it is.
* `Send`, `Cancel`, `TimeOut`, `Receive`, `Clear`, `Report`: the two attempts of `mutate`, and its end.
* `Submit` (`Reconcile` or `AppendAndConfirm`) and `Refuse`: `submitAgent` over `appendSigned`.
* `Kill`, `ReplaceKey`, `Outage`, `Restored`: what happens to agents and service from outside. Another
  repository served at the same address looks to an agent like a service that is down, since every attempt
  checks the genesis first and the service checks it again.

An action stands for a move: it rests on the last effective record its author has seen, and has force if that
is still so where it lands (`Decision`, which folds the prefix up to the record). The other kinds of action
differ in what the fold checks, which `ChessFold` covers. Retry keys are drawn at random; a key the user
supplies is not modelled. Acts of the browser interleave with those of agents in the same log; they are
actions of another custody here.

The service does not deliver a pending append when an agent or a browser *prepares* (`Prepare` of the view
refuses while one is pending); a submit of anything, or a restart, does (`Reconcile`, `Restored`).

### GameDrafts: the draft table and the tab

`drafts` is the table behind `gameActions`' mutex: a draft is a number, and its entry holds the tab's actor, what the
action rests on, its expiry and the record it got, if any. `serving` is the request that holds the mutex,
`requests` those in the network or waiting for it. `tab` is what `ui/app.js` holds for one board: the action
chosen, its draft and its signature, by phase. `log` and `published` are the repository seen from outside.

* `Choose`, `PrepareAction`, `Submit`, `Refresh`, `Cancel`: the tab. `PrepareAction` reads the predecessor
  after the tab has awaited key and identity (`app.js:333-339`), not when the player chose. `Fail` is what
  `submitGameAction` does with an error: a refusal (400) or an expired draft gives the action up, anything else keeps the
  signed one to be submitted again.
* `StoreDraft`, `AcceptSubmit`, `SubmitDraft`: `prepare` and `submit`, which drop expired drafts first. A draft
  whose record is known is answered from it (`AnswerRecorded`), any other is appended under its own
  identifier as retry key (`AppendAndConfirm`), after a pending append was delivered (`Reconcile`).
* `LoseAnswer`, `OtherWriter`, `Restart`, `Tick`: lost or late answers, agents and other writers between the
  steps of a handler, a restart that takes the table, and time.

The actions a tab offers are joins, which rest on nothing, and moves, which rest on the last move it shows.

### IdentityService: one-shot tokens and anchors

`table` is the three token tables of `web_identity.go` in one function: every token ever drawn, what it
stands for while it is pending, or `None`. `call` is the handler that took a token and where it is, `answer`
what it told its client; `signer` is the key the external witness signer holds, which may differ from the
declared witness. The host's identity fold is `ForceOf`: an anchor has force if, at its own place, its signer
is the declared witness or an anchored endorser.

* `GithubChallenge`, `GithubStart`, `GithubCallback`, `PrepareEndorsement`, `SubmitEndorsement`: requests
  that store or take a token. Taking drops the token whatever becomes of the request; each access prunes.
* `Identify`, `Sign`, `CheckWitness`, `AppendEndorsement`, `Report`: a callback's steps, side by side with
  those of other handlers, since only the tables and the writer are locked. The endorsement's handler starts
  at `AppendEndorsement`.
* `OtherWriter`, `RotateSigner`, `Restart`, `Tick`: witness declarations, revocations, deliveries, another
  signer key, the loss of the tables, time.

A field `since` remembers how much was published when the signer replied; it is a history variable in the
record, for `WitnessRechecked`. Scopes and expiry of anchors are in `ChessFold`; a revocation names an actor
here. A service that is busy, or whose table is full, spends the token it has taken.

### LiveRoom: sessions, chat and the composite observation

One game. `session` is the hub's session behind each credential, `frames` and `open` the hub's messages and
current conversation, `chat` the transcript the program keeps, `gate` its mutex `runtime.mu`, `slots` the
occupied wait slots, `request` each request with what it has read and holds, `boards` the confirmed board at
every head of the log.

* `OpenSession`, `AdmitSession`, `AbandonSession`: session/open, which revokes the session again when the
  read or the renewal after it fails. `ReadForRenewal`, `ReadForMotion`, `RenewPresence`: renewal and motion,
  which read the fold without the gate. `EndSession`: revocation, or the end of a lease.
* `PrepareMessage`, `GateChat`, `CommitMessage`, `MessageRefused`, `RememberChat`: chat/prepare and
  chat/submit with `rememberChatLocked`.
* `Observe`, `WaitFails`, `GateView`, `ObserveHub`, `ProjectLive`, `ReadFails`, `Answer`: the composite
  observation, with `projectLiveLocked` and `reconcileChatLocked`. The gate is held while the repository is
  read, so one slow read delays every session and message of the process; the model shows the order, not
  the delay.
* `ConfirmJoin`, `ConfirmMove`, `ConfirmOther`, `RetireConversation`: the board moves underneath, and the hub
  retires an idle conversation, at any moment.

### KeyCustody: making and reading a player key

A file is a number, and so is the key in it; a symbolic link leads to a file `Elsewhere`. `directory` and
`named` are what the two names hold, `temporary` the files still under a temporary name, `contents`, `exact`
and `synced` what has been written, made private and synced. Each command has a `step`; `returned` is the key
it ended with. `Start`, `StatDirectory`, `MakeDirectory`, `AdoptDirectory` are `openKeyStore`, `LookUp` and
`OpenKey` `readKey` with what `ensureKey` makes of its answer, `CreateTemporary` to `RemovalFails`
`publishKey`, call by call. `CallFails`, `Killed`, `PowerLoss`, `ChangeName` and `ChangeDirectory` are the
world: after a power loss an unsynced file is torn, and a name that was not synced may be gone with it.
Commands on the repository's own key exclude each other by its writer lock; those with `--key` do not.

### MC modules

`MCChessFold` (over `LocalCommands`), `MCForgeRepository`, `MCAgentTransport`, `MCGameDrafts`,
`MCIdentityService`, `MCLiveRoom` and `MCKeyCustody` only add the symmetry sets. The `Slip` operators in the
models are plausible mistakes in one definition each; the listed mutants put them in the place of that
definition.

## Runs

| Run | What it shows | Bounds |
| --- | --- | --- |
| `seat_authority` | no identity, and no key under any identity, holds both seats; seats never change hands; refused records change no game; local commands can do what their players can; the seat preview errs in one case only | 3 keys, 2 identities, one game, 5 records, anchors scoped to one game that expire at instant 0 or 1: create, join, two changes of anchor and the act whose upgrade collides fit |
| `game_lifecycle` | record order and status, freshness of draw offers, finality, the accounting of refusals, paging | 2 keys, 2 games of all three invitation kinds, 5 records, a refusal tail of one with two refusals, so the tail drops one; pages of one game, so there are two pages |
| `forge_outage` | the repository never runs more than one act ahead, what is published is on the forge, it never locks itself out, and every appended act is published in the end; no deadlock | 3 acts, 4 faults: three failed attempts in a row and a crash fit |
| `forge_outsiders` | with other clones pushing valid and invalid records, an operator rebinding and a forge rolled back: only verified records are published, published records and acknowledgements stay, readers find their prefix, nothing on the forge is overwritten by the service | 2 acts and a foreign one, histories of 3 records, 2 faults |
| `agent_safety` | what was submitted is retained until it is settled, each decision gets one record, one key signs for a key path, confirmations stay true, the promise of `ConfirmedLog` is kept: actions are taken in one at a time | 2 commands, 2 key paths, 2 keys, 3 decisions, 2 faults: two agents racing for a position and a third decision after it fit |
| `agent_retry` | every retained action is settled | 2 commands, 2 key paths, 2 decisions, 2 faults, no cut-off publication |
| `game_drafts` | a draft gets one record, a refused draft is recorded already or never, what a tab was told stays published, the table is bounded | 2 tabs, a table of one draft, 2 drafts ever, lifetime 1 on a clock to 1, one move of another client, 2 faults: a draft expires while it is under way, the table is full, and an answer is lost before a restart |
| `identity_service` | a reported anchor has force, its signer was the declared witness after it signed, one proof leads to one anchor | 2 actors, 2 witnesses, tables of one, 3 tokens, 3 records, clock to 1, 2 faults: proof, state and an endorsement fit beside a witness and its replacement |
| `live_room` | motions shown have authority, cursor and transcript are one view, no path keeps what it held; no deadlock | 2 actors, 2 requests, one wait slot, one message kept, 2 further records, 2 sessions, 3 messages, 2 faults: a join and a move, a retired conversation and its successor |
| `key_custody` | racing commands end with one key, its name never holds a broken key, no silent copy, no foreign key | 2 commands, 3 files, 2 faults |
| `retry_claim` | finding, see below | one command, one decision |
| `identity_claim` | finding, see below | as `identity_service` |

The bounds are small because the interesting cases are local: a seat conflict needs two seats and three
keys, a lost delivery needs one act pending and one following, an attempt counter overflows at the third
failure, a lost answer needs one action and one that overtakes it, a race for a key needs two commands. The
theorems below remove the bounds for most safety properties. Deadlock is checked in `forge_outage` and
`live_room`; in the other runs the bounded log, decisions, tokens or faults may leave nothing to do, so it
is not.

### Fairness

`FairSpec` of `ForgeRepository` assumes weak fairness of `Open` (the operator does what
`docs/forge-service.md:116-118` asks: restore transport and restart the service), of `Proceed` (a running
process runs on: every step is bounded by a timeout) and of some `Submit` (browsers and agents retry the same
signed act until it is confirmed). Nothing else is fair: faults may happen or not, late pushes may never
arrive. Faults are finite (`MaxFaults`), which is what "restore transport" amounts to; without that no
delivery can be promised. The third assumption is needed: the service has no background retry, so with nobody
asking again a pending act stays pending.

`FairSpec` of `AgentTransport` assumes weak fairness of each command's own steps (each is bounded by a
timeout), of `Open` for each key path (its owner runs commands again, and with an action retained only
`retry` does anything), of the service answering requests, and of its restoration. There are as many commands
as key paths, so a command on one path cannot keep another path's owner waiting. Faults are finite again.
Two attempts per command and no background retry mean that no weaker assumption about the owners will do.

The other modules state no fairness: a tab's player, an actor signing in and an observer may leave at any
time, and nothing is promised to them.


## Theorems

TLAPS proves these for every value of the constants; all but a few named below are also checked by a run.

**ChessFoldProofs**: `TypeCorrect`, `ChainOrderHolds`, `OneIdentityHolds`, `AuthorityExclusiveHolds`,
`OfferFreshnessHolds`, `RefusedChangesNothingHolds`, `SeatOwnershipStableHolds`, `FinishedIsFinalHolds`,
`PreviewHolds`, `RefusalsAccountedHolds`. The inductive invariant joins the type invariant, the order of a
game's records (`GameOrder`), the distinctness of the identities of its two seats and the freshness of its
offer. Each kind of record gets one lemma saying that the game it produces keeps these, and since an effective
record changes one game and a refused one none, the step follows. The distinct seat keys in `GameOrder` and
`Collides` are what make authority exclusive: a key that holds a seat never matches the other one, and an
upgrade that would give both seats one identity is refused. `RefusalsAccountedHolds` has an invariant of its
own on top: the refused positions are ordered and at most the depth, the tail is as long as the smaller of the
total and its bound, and no game cites a refused record. **LocalCommandsProofs**: `LocalActsHaveForceHolds`,
from the same invariant: what a command cites is the very value the fold compares it with; and
`PagesCoverGamesHolds`, which needs no invariant. A game's place is an injection of the listed games into
`1..n` and so a bijection, which makes the create order a sequence that lists each game once and increasing. A
page is then all that is left after its cursor, or its next cursor is further on and its page followed by what
is left after that one is what was left before; by the least number of pages that would fail, `n` pages read
everything, for any limit and any number of games.

**ForgeRepositoryProofs**: `TypeCorrect`, `ReadersFindTheirPrefixHolds`, `ServedIsRetainedHolds`,
`PublishedVerifiesHolds`, `KeepsPromiseHolds` (the refinement of `ConfirmedLog`), `BindingNotDeliveredHolds`,
`ForgeOnlyGrowsHolds`, `ActsRecordedOnceHolds` and `PromiseIsConsistent` for every set of acts and every
behaviour of outsiders; `PublishedIsOnForgeHolds` and `OneActPendingHolds` for every behaviour in which nobody
rolls the forge back; `NeverLockedOutHolds` for every behaviour in which nobody else writes to the forge or
rebinds (its hypothesis is `Outsiders = {}`, as in `forge_outage`: after somebody else's push, stopping is
what the code is for). The inductive invariants are layered: `IInv` orders the refs and the process's copies
of them (`RefOrder`: reader and published ref are prefixes of the local ref, the served prefix of the
published one, with exceptions for each step that moves one of them) and says what has been verified where
(`Verified`); `Unbound` adds that a pending binding replacement is past everything fetched or in flight;
`ForgeHolds` and `Ahead`, which hold without rollbacks, that the forge contains what was seen there and that
the local ref is at most one act ahead; `Alone`, which holds without outsiders, that the forge and every
delivery in flight are prefixes of the local ref, so neither check can fail. `OwnActs` says that the service's
own acts come to the forge, and into a push that may still land, from the local ref only, at the same place;
so a local ref that follows the forge takes in nothing that a client submitted, which is what `Follow` asks,
and no act twice. The refinement needs `RefOrder` at three steps: the move of the published ref, where what
was fetched extends what was published; the intake, where an idle service with nothing pending has published
its whole local ref; and the acknowledgement, where the act is in the local ref, which was seen.
`PromiseIsConsistent` is proved of the abstract log and holds of the refs by the refinement, even after a
rollback. `OneActPending` does not survive one: opening then re-attaches a local sequence that is several
records ahead of the forge.

**AgentTransportProofs**: `TypeCorrect`, `OutcomeRecoverableHolds`, `OneRecordPerDecisionHolds`,
`OneIdentityPerCustodyHolds`, `SettledStandsHolds`, `KeepsPromiseHolds` (the refinement of `ConfirmedLog`
towards agents). A decision is a number that only its action carries, and the state forgets an action once it
is settled; so the inductive invariant speaks of *some* function `chosen` from decisions to actions which
explains the whole state, and a step either keeps that function or extends it at the decision just drawn.
Under it: one command per custody (`Locked`), what a command holds at each point (`ProcOK`: from linking to
clearing the custody retains the very action; an answer it has heard is true), every submit in the network
and every record is the chosen action of its decision and still retained or confirmed to its command
(`RequestOK`, `LogOK`), and a confirmation stays true because a decision depends only on the records before
it (`Stands`). That distinct records have distinct decisions bounds the log, by the pigeonhole principle. For
the refinement, whoever appends has found nothing pending, so what is published then is the whole log, and that
is what `Take` asks (`InOrder`).

**GameDraftsProofs**: `TypeCorrect`, `OneRecordPerDraftHolds`, `RefusalIsFinalHolds`, `KeepsPromiseHolds` (the
refinement of `ConfirmedLog` towards tabs). The invariant has one part for each holder of state. The log: a
draft has one record, and the log is no longer than the recorded drafts and the counted records of others
together, so an append always finds a position (`LogPart`). The table holds only drafts that were drawn and
not refused, and knows only published records of them (`TablePart`). A waiting tab waits for a submission of
its own draft (`ClientPart`). And what the mutex's holder has found, room or a draft, is still so when it acts
(`ServingPart`). For the refinement each append is behind published records only, a tab's submission because
the handler that holds the mutex reconciled first.

**IdentityServiceProofs**: `TypeCorrect`, `OneAnchorPerProofHolds`, `WitnessRecheckedHolds`,
`CreatedHasForceHolds`, `KeepsPromiseHolds` (the refinement of `ConfirmedLog` towards actors). A proof may be
spent, become an OAuth state, be taken by a callback and end as an anchor, but it is in one of those places
only (`Separate`), and everything in them stems from a proof that was issued (`Issued`). `CreatedHasForce`
turns on the host's fold: an anchor that has force keeps it when the log grows, by a least-counterexample
argument over the recursive fold. What is acknowledged here are the anchors that an answer called created;
that such an answer stays takes an invariant of its own (`Spent`): a token has at most one record, has none
before its handler is through, and its answer is given once.

**LiveRoomProofs**: `TypeCorrect`, `MotionsHaveAuthorityHolds`, `ChatMatchesCursorHolds`,
`EndedHoldsNothingHolds`. The invariant says what each request has read and holds at each of its steps, and
that a stored motion was made at a head of the confirmed board by the actor whose turn it was there. For the
chat a second invariant, `CInv`, says that whoever is behind the gate is there alone; that outside a commit the
transcript holds the newest frames of its conversation, which is the hub's unless that one was retired; and
that between commit and `RememberChat` it lacks exactly the last frame. An answer's transcript then stays the
right one for its cursor, since frames are only appended.

**KeyCustodyProofs**: `TypeCorrect`, `OneKeyHolds`, `NameHoldsWholeKeyHolds`, `NoSilentCopyHolds`,
`NoForeignKeyHolds`. The invariant gives each command its own temporary file until it ends and says that a
file under the key name was written, private and synced before it was linked there; that the name then never
changes unless disturbed from outside is what makes the racing commands agree.

Assumed throughout: the bounds are natural numbers, `None` differs from the values it stands beside, and what
each module's ASSUMEs say of its own constants; TLC evaluates them in every run. Proved for every value of the
constants and not a property of a run: the type invariants but that of `GameDrafts`; `ServedIsRetained`, the
lemma the repository's other theorems rest on; `ActsRecordedOnce`; `Consistent`; and the identity service's
`KeepsPromise`, since TLC takes minutes to check the refinement on that run's states, where it holds.

Only model-checked: the liveness properties `PendingDelivered` and `RetryRecovers`, which are out of the
prover's reach, and the two violated claims.

## Findings

* `retry_claim`. `docs/local-agent.md:102` says that retry survives agent restarts. `publish`
  (`agent_pending.go:173`) links `pending.json` to a complete temporary file and then removes the temporary
  name (line 177); a command killed between the two, or a removal that fails, leaves the file doubly linked,
  and every later command on the key refuses to read it. Nothing has been submitted then, and nothing is lost,
  but the key is stuck until somebody removes the second name.
* `identity_claim`. `submitEndorsement` (`web_identity.go:543-557`) consumes the draft, appends, and answers
  any error of the append with 400 "identity signature is invalid". The append also fails when the forge did
  not confirm in time or the confirmed view could not be read: the signature was good and the record is
  published later, but the client has been told otherwise and its draft is gone. Game drafts and agents answer
  503 and keep the action to be retried.

Smaller disagreements met while modelling, which no run checks:

* `SeatFor`'s comment (`chess.go:661-664`) says that it may say yes where a later append refuses on expiry,
  "never the reverse". The reverse happens when the preview refuses for a collision with an anchor that has
  expired when the act is folded; `PreviewErrsOnlyOnCollision` states what does hold, and is proved.
* The comment on `fetch` (`repository.go:262-263`) says that the sequence ref stays untouched until
  verification succeeds. `openChessRepository` moves it at line 191 and verifies at 206. What is published is
  not affected (`PublishedVerifies`).
* `docs/local-agent.md:152-153` says that file sync errors prevent submission or retain the confirmed attempt
  for retry. `clear` (`agent_pending.go:213`) removes the action before it syncs the directory, so when the
  sync fails the command says to retry, and retry finds nothing.
* `docs/reference/architecture.md:17-20` has the browser rest an action on the position the player saw. The
  tab reads its predecessor after awaiting key and identity (`app.js:333-339`), so a refresh in between moves
  it; the model has the later read.
* A tab gives an action up when its draft has expired by the tab's clock, though a submission of it may still
  be served: only a refusal by the service is final (`RefusalIsFinal`).
* A power loss may take a key name that was linked but whose directory was not synced, and a killed `keygen`
  leaves its temporary copy of the key behind, which nothing removes.
* `LiveRoom`'s gate is held while the repository is read, so one slow read delays every session and message.

## Not modelled

* Native mode of the repository (no forge): every append is confirmed at once.
* Initialization and rebinding beyond the player key: linear commands of the operator under the writer lock. A
  binding replaced while the service is down is `OperatorRebind`.
* HTTP parsing, headers, templates and pages, the MCP server's framing and the flags of the command line: no
  state, and nothing a property here is about. Of `app.js`, all but the protocol of joins and moves.
* The rules engine and the host, identity and live libraries: outside the repository. What the code relies on
  (verification, idempotency, anchors, sessions, the result of a move) is an input or an external definition.
* `LegalSelection`, which only asks the rules engine, `ListAnchors`, which filters what the host answers, and
  the identity service's status and Nostr template requests, which only read.
* A retry of a draft with a different signature (`web_actions.go:166`), and retry keys that a user of the agent
  commands supplies: no client in the repository sends the former, and the latter gives up what the drawn keys
  ensure.

## Plan

What is left: one composed model in which agents, tabs and the identity service share a `ForgeRepository`
instead of each seeing a log whose suffix may await the forge. The refinements of `ConfirmedLog` make it mostly
a matter of confidence: each client module assumes of the repository only what that refinement promises, intake
freeze included, and is proved to keep it towards its own clients.
