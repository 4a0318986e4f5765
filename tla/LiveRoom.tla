------------------------------ MODULE LiveRoom ------------------------------
(***************************************************************************)
(* The live room of one game, src/cmd/chess/web.go lines 417-720 and their  *)
(* helpers: leased sessions with a presence, motion hints that belong to    *)
(* one head of the log, the chat, and the composite observation.  Requests  *)
(* run at once; one mutex (the gate, runtime.mu) orders the ones that must  *)
(* see the hub, the fold and the chat as one view.                          *)
(*                                                                          *)
(* Outside src/ and modelled from how it is used: the hub of the live       *)
(* library, which keeps the leases, numbers the frames of a conversation    *)
(* and retires idle ones, and the confirmed board, on which records appear  *)
(* at any moment.  A board is named by its head, the number of records.     *)
(***************************************************************************)
EXTENDS Naturals, FiniteSets, Sequences

CONSTANTS
    Actors,       \* keys of players and watchers
    Creator,      \* the actor that created the game and plays white
    None,         \* nobody
    Requests,     \* requests served at once
    MaxWaiters,   \* maxLiveWaiters, the wait slots
    MaxFrames,    \* maxLiveFrames, the messages kept
    MaxRecords,   \* bound: records on the board
    MaxSessions,  \* bound: sessions ever opened
    MaxMessages,  \* bound: chat frames ever committed
    MaxFaults     \* bound: failed calls, ended leases and retired conversations

ASSUME CreatorAssumption == Creator \in Actors /\ None \notin Actors
ASSUME BoundsAssumption ==
    /\ MaxWaiters \in Nat /\ MaxFrames \in Nat \ {0} /\ MaxRecords \in Nat
    /\ MaxSessions \in Nat /\ MaxMessages \in Nat /\ MaxFaults \in Nat

Credentials == 1..MaxSessions
Free == "free"
ASSUME FreeAssumption == Free \notin Requests
NoMotion == 0

VARIABLES
    boards,     \* the board at each head of the confirmed log
    session,    \* the hub's session behind each credential
    frames,     \* the conversation of each frame the hub committed, in order
    open,       \* the hub's current conversation for this game; 0 for none
    chat,       \* runtime.chat: the conversation and frames the program remembers
    gate,       \* runtime.mu
    slots,      \* occupied wait slots
    request,    \* where each request is, and what it holds
    faults      \* faults so far

hub == <<session, frames, open>>
vars == <<boards, hub, chat, gate, slots, request, faults>>

Board == [white : Actors, black : Actors \cup {None}, turn : {"none", "white", "black"}]
Role  == {"watcher", "white", "black"}
Depth  == Len(boards)
Current == boards[Depth]

NoSession == [state |-> "none", actor |-> None, role |-> "watcher", motion |-> NoMotion]
NoChat == [conversation |-> 0, messages |-> <<>>]
Idle == [step |-> "idle", credential |-> 0, conversation |-> 0, role |-> "watcher",
         head |-> 0, covered |-> 0, motions |-> {}, messages |-> <<>>]

\* A session is opened before its credential is handed out.
Opened(c) == session[c].state = "opened"
Live(c)   == session[c].state = "live"
Fault == faults < MaxFaults /\ faults' = faults + 1

\* The role of an actor in the current fold; it may hint at a motion when that
\* is the side to move.  Only a game in play has one (SideToMove).
RoleOf(actor) ==
    IF actor = Current.white THEN "white"
    ELSE IF actor = Current.black THEN "black"
    ELSE "watcher"
MotionAllowed(actor) == RoleOf(actor) = Current.turn

Starts(r, new)    == request[r] = Idle /\ request' = [request EXCEPT ![r] = new]
Goes(r, from, to) == request[r].step = from /\ request' = [request EXCEPT ![r].step = to]
Ends(r, from)     == request[r].step = from /\ request' = [request EXCEPT ![r] = Idle]

\* RenewSession replaces the whole presence, a motion included.
Presence(c, role, motion) == [session EXCEPT ![c].role = role, ![c].motion = motion]
Revoked(c) == [session EXCEPT ![c] = [NoSession EXCEPT !.state = "ended"]]

Lock(r, from, to) ==
    /\ gate = Free
    /\ gate' = r
    /\ Goes(r, from, to)
    /\ UNCHANGED <<boards, hub, chat, slots, faults>>

-----------------------------------------------------------------------------
(* Sessions.                                                               *)

\* session/open behind the gate: the hub opens the session with the watcher's
\* authority that prepare put into the challenge.
OpenSession(r, a) ==
    /\ gate = Free /\ gate' = r
    /\ \E c \in Credentials :
          /\ session[c].state = "none" /\ \A d \in 1..(c - 1) : session[d].state # "none"
          /\ session' = [session EXCEPT ![c] = [NoSession EXCEPT !.state = "opened", !.actor = a]]
          /\ Starts(r, [Idle EXCEPT !.step = "opened", !.credential = c])
    /\ UNCHANGED <<boards, frames, open, chat, slots, faults>>

\* Its role is recomputed from the current fold.
AdmitSession(r) ==
    LET c == request[r].credential
    IN  /\ Ends(r, "opened")
        /\ Opened(c)
        /\ session' = [session EXCEPT ![c].state = "live", ![c].role = RoleOf(session[c].actor)]
        /\ gate' = Free
        /\ UNCHANGED <<boards, frames, open, chat, slots, faults>>

\* Slip: the session stays although its client never learns the credential.
AbandonSessionOpen(r) ==
    LET c == request[r].credential
    IN  /\ Ends(r, "opened")
        /\ gate' = Free
        /\ IF Opened(c) THEN Fault ELSE UNCHANGED faults
        /\ UNCHANGED <<boards, hub, chat, slots>>

\* The read or the renewal failed: the session is revoked again.
AbandonSession(r) ==
    LET c == request[r].credential
    IN  /\ Ends(r, "opened")
        /\ session' = Revoked(c)
        /\ gate' = Free
        /\ IF Opened(c) THEN Fault ELSE UNCHANGED faults
        /\ UNCHANGED <<boards, frames, open, chat, slots>>

\* session/renew and motion read the fold without the gate; what they publish
\* rests on that read, whatever was confirmed since.
ReadForRenewal(r, c) ==
    /\ Live(c)
    /\ Starts(r, [Idle EXCEPT !.step = "renewing", !.credential = c,
                              !.role = RoleOf(session[c].actor)])
    /\ UNCHANGED <<boards, hub, chat, gate, slots, faults>>

\* validateMotion.
ReadForMotion(r, c) ==
    /\ Live(c)
    /\ MotionAllowed(session[c].actor)
    /\ Starts(r, [Idle EXCEPT !.step = "renewing", !.credential = c,
                              !.role = RoleOf(session[c].actor), !.head = Depth])
    /\ UNCHANGED <<boards, hub, chat, gate, slots, faults>>

\* The hub refuses to renew a session that has ended meanwhile.
RenewPresence(r) ==
    LET c == request[r].credential
    IN  /\ Ends(r, "renewing")
        /\ session' = IF Live(c) THEN Presence(c, request[r].role, request[r].head) ELSE session
        /\ UNCHANGED <<boards, frames, open, chat, gate, slots, faults>>

\* session/revoke, or the lease runs out.
EndSession(c) ==
    /\ Opened(c) \/ Live(c)
    /\ session' = Revoked(c)
    /\ Fault
    /\ UNCHANGED <<boards, frames, open, chat, gate, slots, request>>

-----------------------------------------------------------------------------
(* Chat.                                                                   *)

\* chat/prepare: the conversation is read behind the gate, the draft is made
\* after it; the hub refuses one for a conversation it has retired.
PrepareMessage(r, c) ==
    /\ Live(c)
    /\ gate = Free
    /\ chat.conversation \in {0, open}
    /\ Starts(r, [Idle EXCEPT !.step = "drafted", !.credential = c,
                              !.conversation = chat.conversation])
    /\ UNCHANGED <<boards, hub, chat, gate, slots, faults>>

GateChat(r) == Lock(r, "drafted", "submitting")

\* What the hub makes of a draft: a first message opens the one conversation
\* of the game, and a draft for any but the current state of it is refused.
Committable(r) ==
    /\ Live(request[r].credential)
    /\ request[r].conversation = open
    /\ Len(frames) < MaxMessages

Conversations == {frames[i] : i \in DOMAIN frames}
Fresh == CHOOSE n \in 1..MaxMessages : n \notin Conversations

\* Slip: the gate is released before the transcript has the frame.
CommitThenUnlock(r) ==
    LET conversation == IF open = 0 THEN Fresh ELSE open
    IN  /\ request[r].step = "submitting"
        /\ Committable(r)
        /\ open' = conversation
        /\ frames' = Append(frames, conversation)
        /\ request' = [request EXCEPT ![r].step = "committed", ![r].covered = Len(frames) + 1,
                                      ![r].conversation = conversation]
        /\ gate' = Free
        /\ UNCHANGED <<boards, session, chat, slots, faults>>

\* chat/submit: SubmitMessageForSession.
CommitMessage(r) ==
    LET conversation == IF open = 0 THEN Fresh ELSE open
    IN  /\ request[r].step = "submitting"
        /\ Committable(r)
        /\ open' = conversation
        /\ frames' = Append(frames, conversation)
        /\ request' = [request EXCEPT ![r].step = "committed", ![r].covered = Len(frames) + 1,
                                      ![r].conversation = conversation]
        /\ UNCHANGED <<boards, session, chat, gate, slots, faults>>

MessageRefused(r) ==
    /\ Ends(r, "submitting")
    /\ ~Committable(r)
    /\ gate' = Free
    /\ UNCHANGED <<boards, hub, chat, slots, faults>>

Newest(messages) ==
    IF Len(messages) > MaxFrames
    THEN SubSeq(messages, Len(messages) - MaxFrames + 1, Len(messages))
    ELSE messages

\* rememberChatLocked: another conversation starts the transcript again.
RememberChat(r) ==
    LET kept == IF chat.conversation = request[r].conversation THEN chat.messages ELSE <<>>
    IN  /\ Ends(r, "committed")
        /\ chat' = [conversation |-> request[r].conversation,
                    messages |-> Newest(Append(kept, request[r].covered))]
        /\ gate' = Free
        /\ UNCHANGED <<boards, hub, slots, faults>>

-----------------------------------------------------------------------------
(* The composite observation.                                              *)

\* A wait slot, or 429.  WaitComposite is the unlocked wake-up.
Observe(r) ==
    /\ slots < MaxWaiters
    /\ slots' = slots + 1
    /\ Starts(r, [Idle EXCEPT !.step = "waiting"])
    /\ UNCHANGED <<boards, hub, chat, gate, faults>>

WaitFails(r) ==
    /\ Ends(r, "waiting")
    /\ slots' = slots - 1
    /\ Fault
    /\ UNCHANGED <<boards, hub, chat, gate>>

GateView(r) == Lock(r, "waiting", "viewing")

\* hub.Observe: the cursor, the presences and the conversations at one moment.
\* A motion is remembered with the head it was made on until the fold is read.
ObserveHub(r) ==
    /\ request[r].step = "viewing"
    /\ request' = [request EXCEPT
          ![r].step = "reading", ![r].covered = Len(frames), ![r].conversation = open,
          ![r].motions = {session[c] : c \in {d \in Credentials : session[d].motion # NoMotion}}]
    /\ UNCHANGED <<boards, hub, chat, gate, slots, faults>>

\* Slip: motions are shown whatever head they were made on.
ShownOnAnyHead(motions) == motions

\* projectLiveLocked: a motion is shown only on the head it was made on.
Shown(motions) == {m \in motions : m.motion = Depth}

\* reconcileChatLocked: a conversation the snapshot no longer names is dropped.
Reconciled(snapshot) ==
    IF chat.conversation \in {0, snapshot} THEN chat ELSE NoChat

ProjectLive(r) ==
    /\ request[r].step = "reading"
    /\ chat' = Reconciled(request[r].conversation)
    /\ request' = [request EXCEPT
          ![r].step = "answering", ![r].head = Depth,
          ![r].motions = Shown(request[r].motions), ![r].messages = chat'.messages]
    /\ gate' = Free
    /\ UNCHANGED <<boards, hub, slots, faults>>

ReadFails(r) ==
    /\ Ends(r, "reading")
    /\ gate' = Free
    /\ slots' = slots - 1
    /\ Fault
    /\ UNCHANGED <<boards, hub, chat>>

Answer(r) ==
    /\ Ends(r, "answering")
    /\ slots' = slots - 1
    /\ UNCHANGED <<boards, hub, chat, gate, faults>>

-----------------------------------------------------------------------------
(* The confirmed board and the hub's own clock.                            *)

Confirm(board) ==
    /\ Depth <= MaxRecords
    /\ boards' = Append(boards, board)
    /\ UNCHANGED <<hub, chat, gate, slots, request, faults>>

ConfirmJoin(a) ==
    /\ Current.black = None /\ a # Current.white
    /\ Confirm([Current EXCEPT !.black = a, !.turn = "white"])
ConfirmMove ==
    /\ Current.turn # "none"
    /\ \E turn \in {"none", IF Current.turn = "white" THEN "black" ELSE "white"} :
          Confirm([Current EXCEPT !.turn = turn])
ConfirmOther == Confirm(Current)

RetireConversation ==
    /\ open # 0
    /\ open' = 0
    /\ Fault
    /\ UNCHANGED <<boards, session, frames, chat, gate, slots, request>>

-----------------------------------------------------------------------------
Init ==
    /\ boards = <<[white |-> Creator, black |-> None, turn |-> "none"]>>
    /\ session = [c \in Credentials |-> NoSession]
    /\ frames = <<>>
    /\ open = 0
    /\ chat = NoChat
    /\ gate = Free
    /\ slots = 0
    /\ request = [r \in Requests |-> Idle]
    /\ faults = 0

Next ==
    \/ \E r \in Requests :
          \/ \E a \in Actors : OpenSession(r, a)
          \/ AdmitSession(r) \/ AbandonSession(r)
          \/ \E c \in Credentials :
                ReadForRenewal(r, c) \/ ReadForMotion(r, c) \/ PrepareMessage(r, c)
          \/ RenewPresence(r)
          \/ GateChat(r) \/ CommitMessage(r) \/ MessageRefused(r) \/ RememberChat(r)
          \/ Observe(r) \/ WaitFails(r) \/ GateView(r)
          \/ ObserveHub(r) \/ ProjectLive(r) \/ ReadFails(r) \/ Answer(r)
    \/ \E c \in Credentials : EndSession(c)
    \/ \E a \in Actors : ConfirmJoin(a)
    \/ ConfirmMove \/ ConfirmOther
    \/ RetireConversation

Spec == Init /\ [][Next]_vars

-----------------------------------------------------------------------------
(* Properties.                                                             *)

\* Every variable keeps its type; in particular the transcript never exceeds
\* maxLiveFrames, whatever it is appended to.
TypeOK ==
    /\ \A h \in DOMAIN boards : boards[h] \in Board
    /\ session \in [Credentials -> [state : {"none", "opened", "live", "ended"},
                     actor : Actors \cup {None}, role : Role, motion : 0..Depth]]
    /\ frames \in Seq(1..MaxMessages) /\ open \in 0..MaxMessages
    /\ chat.conversation \in 0..MaxMessages
    /\ chat.messages \in Seq(DOMAIN frames) /\ Len(chat.messages) <= MaxFrames
    /\ gate \in Requests \cup {Free}
    /\ slots \in 0..MaxWaiters
    /\ \A r \in Requests : request[r].head \in 0..Depth /\ request[r].covered \in 0..Len(frames)
    /\ faults \in 0..MaxFaults

\* A motion an observer is shown was made by the actor who, on the very board
\* of the same answer, holds the side to move: neither a confirmed move nor a
\* seat taken while the hint was on its way leaves an old hint on a new board
\* (validateMotion and the head comparison in projectLiveLocked).
MotionsHaveAuthority ==
    \A r \in Requests : request[r].step = "answering" =>
        LET board == boards[request[r].head]
        IN  \A m \in request[r].motions :
               /\ m.role = board.turn
               /\ m.actor = IF board.turn = "white" THEN board.white ELSE board.black

\* The frames of a conversation among the first n that were committed.
Said(n, conversation) == {i \in 1..n : frames[i] = conversation}

\* These messages are the newest of what was said, in order.
NewestOf(messages, said) ==
    LET kept == 1..Len(messages)
    IN  /\ Len(messages) <= MaxFrames
        /\ \A i, j \in kept : i < j => messages[i] < messages[j]
        /\ \A i \in kept : messages[i] \in said
        /\ \A n \in said :
              \/ \E i \in kept : messages[i] = n
              \/ Len(messages) = MaxFrames /\ \A i \in kept : n < messages[i]

\* An answer's cursor and its transcript are one view: the transcript is
\* exactly the newest frames of the conversation that the cursor covers, so an
\* observer who continues from the cursor never misses a message (the comment
\* on the application gate in observe).
ChatMatchesCursor ==
    \A r \in Requests : request[r].step = "answering" =>
        NewestOf(request[r].messages, Said(request[r].covered, request[r].conversation))

\* No path out of a handler keeps anything, whichever call in it failed: the
\* gate is held only by a request that is behind it, the wait slots are those of
\* the observations still being served, and a session whose opening failed does
\* not stay in the room (nobody holds its credential, so nobody could renew or
\* revoke it).
EndedHoldsNothing ==
    /\ gate # Free =>
          request[gate].step \in {"opened", "submitting", "committed", "viewing", "reading"}
    /\ slots = Cardinality({r \in Requests :
                              request[r].step \in {"waiting", "viewing", "reading", "answering"}})
    /\ \A c \in Credentials : Opened(c) =>
          \E r \in Requests : request[r].step = "opened" /\ request[r].credential = c
=============================================================================
