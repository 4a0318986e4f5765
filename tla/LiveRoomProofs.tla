--------------------------- MODULE LiveRoomProofs ---------------------------
(***************************************************************************)
(* Theorems of LiveRoom for any number of actors, requests, wait slots,    *)
(* sessions, messages and records.                                         *)
(***************************************************************************)
EXTENDS LiveRoom, FiniteSetTheorems, TLAPS

-----------------------------------------------------------------------------
(* The inductive invariant.                                                *)

Steps == {"idle", "opened", "renewing", "drafted", "submitting", "committed",
          "waiting", "viewing", "reading", "answering"}
Gated   == {"opened", "submitting", "committed", "viewing", "reading"}
Slotted == {"waiting", "viewing", "reading", "answering"}

Session == [state : {"none", "opened", "live", "ended"}, actor : Actors \cup {None},
            role : Role, motion : Nat]
Request == [step : Steps, credential : Nat, conversation : 0..MaxMessages, role : Role,
            head : Nat, covered : Nat, motions : SUBSET Session, messages : Seq(Nat)]

\* On the board with head h, this actor in this role may hint at a motion.
Authority(h, actor, role) ==
    /\ h \in 1..Depth
    /\ role = boards[h].turn
    /\ actor = IF boards[h].turn = "white" THEN boards[h].white ELSE boards[h].black

\* A motion in the room had authority on the head it was made on.
SessionOK(c) ==
    /\ session[c] \in Session
    /\ session[c].state # "live" => session[c].motion = NoMotion
    /\ session[c].motion # NoMotion =>
          Authority(session[c].motion, session[c].actor, session[c].role)

\* So will one that is about to be published, and so has one that was observed.
RequestOK(r) ==
    /\ request[r] \in Request
    /\ request[r].head <= Depth /\ request[r].covered <= Len(frames)
    /\ request[r].step \in {"opened", "renewing", "drafted", "submitting"}
          => request[r].credential \in Credentials
    /\ request[r].step = "committed" => request[r].covered # 0
    /\ request[r].step = "renewing" =>
          /\ session[request[r].credential].state \in {"live", "ended"}
          /\ Live(request[r].credential) /\ request[r].head # NoMotion =>
                Authority(request[r].head, session[request[r].credential].actor, request[r].role)
    /\ request[r].step \in {"reading", "answering"} =>
          \A m \in request[r].motions : Authority(m.motion, m.actor, m.role)
    /\ request[r].step = "answering" =>
          \A m \in request[r].motions : m.motion = request[r].head

Typed ==
    /\ boards \in Seq(Board) /\ Depth # 0
    /\ frames \in Seq(1..MaxMessages) /\ open \in 0..MaxMessages
    /\ chat.conversation \in 0..MaxMessages
    /\ chat.messages \in Seq(Nat) /\ Len(chat.messages) <= MaxFrames
    /\ \A i \in 1..Len(chat.messages) : chat.messages[i] \in 1..Len(frames)
    /\ gate \in Requests \cup {Free}
    /\ slots \in 0..MaxWaiters
    /\ faults \in 0..MaxFaults
    /\ DOMAIN session = Credentials /\ session = [c \in Credentials |-> session[c]]
    /\ DOMAIN request = Requests /\ request = [r \in Requests |-> request[r]]

InSlots == {r \in Requests : request[r].step \in Slotted}

IInv ==
    /\ Typed
    /\ \A c \in Credentials : SessionOK(c)
    /\ \A r \in Requests : RequestOK(r)
    /\ IsFiniteSet(InSlots)
    /\ EndedHoldsNothing

-----------------------------------------------------------------------------
(* Steps that leave something as it is.                                    *)

\* The board grows.
Extends == boards' = boards \/ \E b \in Board : boards' = Append(boards, b)

\* A session comes to life once, ends once, and keeps its actor in between.
Evolves ==
    \A c \in Credentials : session[c].state \in {"live", "ended"} =>
        /\ session'[c].state \in {"live", "ended"}
        /\ session'[c].state = "live" =>
              session[c].state = "live" /\ session'[c].actor = session[c].actor

LEMMA BoardsGrow ==
    ASSUME Typed, Extends
    PROVE  /\ boards' \in Seq(Board) /\ Depth' \in Nat /\ Depth \in Nat /\ Depth <= Depth'
           /\ Depth' # 0
           /\ \A h \in 1..Depth : boards'[h] = boards[h]
<1>1. boards \in Seq(Board) /\ Depth \in Nat /\ Depth # 0
  BY DEF Typed, Depth
<1>2. CASE boards' = boards
  BY <1>1, <1>2 DEF Depth
<1>3. ASSUME NEW b \in Board, boards' = Append(boards, b)
      PROVE  /\ boards' \in Seq(Board) /\ Depth' = Depth + 1
             /\ \A h \in 1..Depth : boards'[h] = boards[h]
  BY <1>1, <1>3 DEF Depth
<1> QED
  BY <1>1, <1>2, <1>3 DEF Extends

LEMMA AuthorityKept ==
    ASSUME Typed, Extends, NEW h, NEW actor, NEW role, Authority(h, actor, role)
    PROVE  Authority(h, actor, role)'
<1>1. h \in 1..Depth /\ Depth \in Nat /\ Depth' \in Nat /\ Depth <= Depth' /\ boards'[h] = boards[h]
  BY BoardsGrow DEF Authority
<1>2. h \in 1..Depth'
  BY <1>1
<1> QED
  BY <1>1, <1>2 DEF Authority

LEMMA SessionKept ==
    ASSUME IInv, Extends, NEW c \in Credentials, session'[c] = session[c]
    PROVE  SessionOK(c)'
<1>1. SessionOK(c) /\ Typed
  BY DEF IInv
<1> QED
  BY <1>1, AuthorityKept DEF SessionOK

LEMMA RequestKept ==
    ASSUME IInv, Extends, Evolves, Len(frames) <= Len(frames'), Len(frames') \in Nat,
           NEW r \in Requests, request'[r] = request[r]
    PROVE  RequestOK(r)'
<1>1. RequestOK(r) /\ Typed
  BY DEF IInv
<1>2. /\ Depth \in Nat /\ Depth' \in Nat /\ Depth <= Depth' /\ Len(frames) \in Nat
      /\ request[r].head \in Nat /\ request[r].covered \in Nat
  BY <1>1, BoardsGrow DEF RequestOK, Request, Typed
<1>3. request[r].head <= Depth' /\ request[r].covered <= Len(frames')
  BY <1>1, <1>2 DEF RequestOK
<1>4. ASSUME request[r].step = "renewing"
      PROVE  /\ session'[request[r].credential].state \in {"live", "ended"}
             /\ session'[request[r].credential].state = "live" /\ request[r].head # NoMotion =>
                Authority(request[r].head, session[request[r].credential].actor, request[r].role)'
                /\ session'[request[r].credential].actor = session[request[r].credential].actor
  <2>1. /\ request[r].credential \in Credentials
        /\ session[request[r].credential].state \in {"live", "ended"}
        /\ session[request[r].credential].state = "live" /\ request[r].head # NoMotion =>
           Authority(request[r].head, session[request[r].credential].actor, request[r].role)
    BY <1>1, <1>4 DEF RequestOK, Live
  <2> QED
    BY <1>1, <2>1, AuthorityKept DEF Evolves
<1>5. request[r].step \in {"reading", "answering"} =>
         \A m \in request[r].motions : Authority(m.motion, m.actor, m.role)'
  BY <1>1, AuthorityKept DEF RequestOK
<1> QED
  BY <1>1, <1>3, <1>4, <1>5 DEF RequestOK, Live, Authority

LEMMA InTyped ==
    ASSUME IInv
    PROVE  /\ Typed /\ slots \in Nat /\ slots = Cardinality(InSlots) /\ IsFiniteSet(InSlots)
           /\ Len(frames) \in Nat /\ Depth \in Nat /\ Depth # 0
           /\ \A r \in Requests : request[r] \in Request /\ RequestOK(r)
           /\ \A c \in Credentials : session[c] \in Session /\ SessionOK(c)
<1>1. Typed /\ slots \in 0..MaxWaiters /\ Len(frames) \in Nat /\ Depth \in Nat /\ Depth # 0
  BY DEF IInv, Typed, Depth
<1>2. slots = Cardinality(InSlots) /\ IsFiniteSet(InSlots)
  BY DEF IInv, EndedHoldsNothing, InSlots, Slotted
<1> QED
  BY <1>1, <1>2 DEF IInv, RequestOK, SessionOK

LEMMA FaultsCounted ==
    ASSUME IInv, faults' = faults \/ Fault
    PROVE  faults' \in 0..MaxFaults
<1>1. faults \in 0..MaxFaults /\ MaxFaults \in Nat
  BY InTyped, BoundsAssumption DEF Typed
<1> QED
  BY <1>1 DEF Fault

\* One request moves.
LEMMA OneRequest ==
    ASSUME IInv, Typed', Extends, Evolves, Len(frames) <= Len(frames'), Len(frames') \in Nat,
           \A c \in Credentials : SessionOK(c)',
           NEW r \in Requests, RequestOK(r)',
           \A s \in Requests \ {r} : request'[s] = request[s],
           \/ /\ request[r].step \in Slotted <=> request'[r].step \in Slotted
              /\ slots' = slots
           \/ request[r].step \notin Slotted /\ request'[r].step \in Slotted /\ slots' = slots + 1
           \/ request[r].step \in Slotted /\ request'[r].step \notin Slotted /\ slots' = slots - 1,
           gate' = Free \/ (gate' = r /\ request'[r].step \in Gated)
           \/ (gate' = gate /\ (request[r].step \in Gated => request'[r].step \in Gated)),
           \A c \in Credentials : Opened(c)' =>
               \/ Opened(c) /\ ~ (request[r].step = "opened" /\ request[r].credential = c)
               \/ request'[r].step = "opened" /\ request'[r].credential = c
    PROVE  IInv'
<1>1. ASSUME NEW s \in Requests
      PROVE  RequestOK(s)'
  <2>1. CASE s = r
    BY <2>1
  <2>2. CASE s # r
    BY <2>2, RequestKept
  <2> QED
    BY <2>1, <2>2
<1>2. IsFiniteSet(InSlots') /\ slots' = Cardinality(InSlots')
  <2>1. slots = Cardinality(InSlots) /\ IsFiniteSet(InSlots) /\ slots \in Nat
    BY InTyped
  <2>2. CASE (request[r].step \in Slotted <=> request'[r].step \in Slotted) /\ slots' = slots
    <3>1. InSlots' = InSlots
      BY <2>2 DEF InSlots
    <3> QED
      BY <2>1, <2>2, <3>1
  <2>3. CASE request[r].step \notin Slotted /\ request'[r].step \in Slotted /\ slots' = slots + 1
    <3>1. InSlots' = InSlots \cup {r} /\ r \notin InSlots
      BY <2>3 DEF InSlots
    <3> QED
      BY <2>1, <2>3, <3>1, FS_AddElement
  <2>4. CASE request[r].step \in Slotted /\ request'[r].step \notin Slotted /\ slots' = slots - 1
    <3>1. InSlots' = InSlots \ {r} /\ r \in InSlots
      BY <2>4 DEF InSlots
    <3> QED
      BY <2>1, <2>4, <3>1, FS_RemoveElement
  <2> QED
    BY <2>2, <2>3, <2>4
<1>3. gate' # Free => request'[gate'].step \in Gated
  <2>1. gate # Free => gate \in Requests /\ request[gate].step \in Gated
    BY DEF IInv, EndedHoldsNothing, Typed, Gated
  <2> QED
    BY <2>1
<1>4. ASSUME NEW c \in Credentials, Opened(c)'
      PROVE  \E s \in Requests : request'[s].step = "opened" /\ request'[s].credential = c
  <2>1. CASE request'[r].step = "opened" /\ request'[r].credential = c
    BY <2>1
  <2>2. CASE Opened(c) /\ ~ (request[r].step = "opened" /\ request[r].credential = c)
    <3>1. PICK s \in Requests : request[s].step = "opened" /\ request[s].credential = c
      BY <2>2 DEF IInv, EndedHoldsNothing
    <3>2. s # r
      BY <2>2, <3>1
    <3> QED
      BY <3>1, <3>2
  <2> QED
    BY <1>4, <2>1, <2>2
<1>5. EndedHoldsNothing'
  BY <1>2, <1>3, <1>4 DEF EndedHoldsNothing, InSlots, Slotted, Gated
<1> QED
  BY <1>1, <1>2, <1>5 DEF IInv

\* No request moves.
LEMMA NoRequest ==
    ASSUME IInv, Typed', Extends, Evolves, UNCHANGED <<frames, gate, slots, request>>,
           \A c \in Credentials : SessionOK(c)',
           \A c \in Credentials : Opened(c)' => Opened(c)
    PROVE  IInv'
<1>1. Len(frames) <= Len(frames') /\ Len(frames') \in Nat
  BY InTyped
<1>2. \A s \in Requests : RequestOK(s)'
  BY <1>1, RequestKept
<1>3. EndedHoldsNothing'
  BY DEF IInv, EndedHoldsNothing
<1>4. InSlots' = InSlots
  BY DEF InSlots
<1> QED
  BY <1>2, <1>3, <1>4 DEF IInv

\* A request moves, and nothing else but the gate, the slots and the faults.
LEMMA QuietRequest ==
    ASSUME IInv, UNCHANGED <<boards, hub, chat>>, NEW r \in Requests, RequestOK(r)',
           NEW new, request' = [request EXCEPT ![r] = new],
           gate' \in Requests \cup {Free}, slots' \in 0..MaxWaiters, faults' \in 0..MaxFaults,
           \/ /\ request[r].step \in Slotted <=> new.step \in Slotted
              /\ slots' = slots
           \/ request[r].step \notin Slotted /\ new.step \in Slotted /\ slots' = slots + 1
           \/ request[r].step \in Slotted /\ new.step \notin Slotted /\ slots' = slots - 1,
           gate' = Free \/ (gate' = r /\ new.step \in Gated)
           \/ (gate' = gate /\ (request[r].step \in Gated => new.step \in Gated)),
           \A c \in Credentials : Opened(c) =>
               ~ (request[r].step = "opened" /\ request[r].credential = c)
    PROVE  IInv'
<1>1. /\ boards' = boards /\ session' = session /\ frames' = frames /\ open' = open /\ chat' = chat
      /\ request'[r] = new /\ \A s \in Requests \ {r} : request'[s] = request[s]
  BY DEF hub, IInv, Typed
<1>2. Typed'
  <2>1. DOMAIN request' = Requests /\ request' = [s \in Requests |-> request'[s]]
    BY DEF IInv, Typed
  <2> QED
    BY <1>1, <2>1 DEF IInv, Typed, Depth
<1>3. Extends /\ Evolves
  BY <1>1 DEF Extends, Evolves
<1>4. Len(frames) <= Len(frames') /\ Len(frames') \in Nat
  BY <1>1, InTyped
<1>5. \A c \in Credentials : SessionOK(c)'
  BY <1>1, <1>3, SessionKept
<1> QED
  BY <1>1, <1>2, <1>3, <1>4, <1>5, OneRequest DEF Opened

-----------------------------------------------------------------------------
(* The requests' own steps.                                                *)

LEMMA IdleRequest == Idle \in Request /\ Idle.step \notin Slotted /\ Idle.step \notin Gated
<1>1. 0 \in 0..MaxMessages /\ <<>> \in Seq(Nat)
  BY BoundsAssumption
<1> QED
  BY <1>1 DEF Idle, Request, Steps, Role, Slotted, Gated

\* A request that is over is in order.
LEMMA IdleOK ==
    ASSUME IInv, Extends, Len(frames') \in Nat, NEW r \in Requests, request'[r] = Idle
    PROVE  RequestOK(r)'
<1>1. Depth' \in Nat
  BY BoardsGrow, InTyped
<1> QED
  BY <1>1, IdleRequest DEF RequestOK, Idle

\* Next step, or the end, of a request that keeps what it holds.
LEMMA GoesInv ==
    ASSUME IInv, UNCHANGED <<boards, hub, chat>>, NEW r \in Requests,
           NEW from \in {"drafted", "waiting"}, NEW to \in {"submitting", "viewing"},
           from = "drafted" <=> to = "submitting",
           Lock(r, from, to)
    PROVE  IInv'
<1> DEFINE new == [request[r] EXCEPT !.step = to]
<1>1. request[r] \in Request /\ RequestOK(r) /\ Typed /\ slots \in 0..MaxWaiters
      /\ faults \in 0..MaxFaults
  BY InTyped DEF Typed
<1>2. /\ request' = [request EXCEPT ![r] = new] /\ request[r].step = from
      /\ gate' = r /\ slots' = slots /\ faults' = faults
  BY DEF Lock, Goes
<1>3. request'[r] = new /\ new.step = to
  BY <1>1, <1>2 DEF Typed, Request
<1>4. RequestOK(r)'
  <2>1. /\ new \in Request /\ new.head = request[r].head /\ new.covered = request[r].covered
        /\ new.credential = request[r].credential
    BY <1>1 DEF Request, Steps
  <2> QED
    BY <1>1, <1>2, <1>3, <2>1 DEF RequestOK, Depth, hub
<1>5. new.step \in Gated /\ (request[r].step \in Slotted <=> new.step \in Slotted)
  BY <1>2, <1>3 DEF Gated, Slotted
<1>6. request[r].step # "opened"
  BY <1>2
<1> QED
  BY <1>1, <1>2, <1>4, <1>5, <1>6, QuietRequest

LEMMA ReadForInv ==
    ASSUME IInv, NEW r \in Requests, NEW c \in Credentials,
           ReadForRenewal(r, c) \/ ReadForMotion(r, c)
    PROVE  IInv'
<1> DEFINE head == IF ReadForRenewal(r, c) THEN NoMotion ELSE Depth
           quiet == [Idle EXCEPT !.step = "renewing", !.credential = c,
                                 !.role = RoleOf(session[c].actor)]
           motion == [Idle EXCEPT !.step = "renewing", !.credential = c,
                                  !.role = RoleOf(session[c].actor), !.head = Depth]
<1>1. /\ Typed /\ slots \in 0..MaxWaiters /\ faults \in 0..MaxFaults /\ Live(c)
      /\ Depth \in Nat /\ Depth # 0 /\ Len(frames) \in Nat
      /\ gate' = gate /\ slots' = slots /\ faults' = faults /\ UNCHANGED <<boards, hub, chat>>
      /\ request[r] = Idle
  BY InTyped DEF ReadForRenewal, ReadForMotion, Starts, Typed
<1>2. \/ request' = [request EXCEPT ![r] = quiet]
      \/ request' = [request EXCEPT ![r] = motion] /\ MotionAllowed(session[c].actor)
  BY DEF ReadForRenewal, ReadForMotion, Starts
<1>3. RoleOf(session[c].actor) \in Role /\ c \in Nat
  BY DEF RoleOf, Role, Credentials
<1>4. /\ quiet \in Request /\ quiet.step = "renewing" /\ quiet.credential = c /\ quiet.head = NoMotion
      /\ quiet.covered = 0
      /\ motion \in Request /\ motion.step = "renewing" /\ motion.credential = c
      /\ motion.head = Depth /\ motion.covered = 0 /\ motion.role = RoleOf(session[c].actor)
  BY <1>1, <1>3, IdleRequest DEF Idle, Request, Steps, NoMotion
<1>5. MotionAllowed(session[c].actor) =>
         Authority(Depth, session[c].actor, RoleOf(session[c].actor))
  <2>1. Depth \in 1..Depth /\ boards[Depth] \in Board
    BY <1>1 DEF Typed, Depth
  <2>2. Current.turn \in {"none", "white", "black"}
    BY <2>1 DEF Board, Current
  <2> QED
    BY <2>1, <2>2 DEF MotionAllowed, RoleOf, Authority, Current
<1>6. ASSUME NEW new, request' = [request EXCEPT ![r] = new],
             new = quiet \/ (new = motion /\ MotionAllowed(session[c].actor))
      PROVE  IInv'
  <2>1. request'[r] = new
    BY <1>1, <1>6 DEF Typed
  <2>2. RequestOK(r)'
    <3>1. /\ new \in Request /\ new.step = "renewing" /\ new.credential = c /\ new.covered = 0
          /\ new.head \in {0, Depth}
      BY <1>4, <1>6 DEF NoMotion
    <3>2. new.head # 0 => Authority(new.head, session[c].actor, new.role)
      BY <1>4, <1>5, <1>6 DEF NoMotion
    <3>3. boards' = boards /\ session' = session /\ frames' = frames
      BY <1>1 DEF hub
    <3>4. Authority(new.head, session[c].actor, new.role) =>
          Authority(new.head, session[c].actor, new.role)'
      BY <1>1, <3>3, AuthorityKept DEF Extends
    <3>5. session'[c].state = "live" /\ session'[c].actor = session[c].actor
      BY <1>1, <3>3 DEF Live
    <3> QED
      BY <1>1, <2>1, <3>1, <3>2, <3>3, <3>4, <3>5 DEF RequestOK, Depth, NoMotion, Live, Authority
  <2>3. new.step \notin Slotted /\ new.step \notin Gated /\ request[r].step \notin Slotted
        /\ request[r].step \notin Gated /\ request[r].step # "opened"
    BY <1>1, <1>4, <1>6, IdleRequest DEF Slotted, Gated, Idle
  <2>4. gate \in Requests \cup {Free}
    BY <1>1 DEF Typed
  <2> QED
    BY <1>1, <1>6, <2>2, <2>3, <2>4, QuietRequest
<1> QED
  BY <1>2, <1>6

LEMMA PrepareInv ==
    ASSUME IInv, NEW r \in Requests, NEW c \in Credentials, PrepareMessage(r, c)
    PROVE  IInv'
<1> DEFINE new == [Idle EXCEPT !.step = "drafted", !.credential = c,
                               !.conversation = chat.conversation]
<1>1. /\ Typed /\ slots \in 0..MaxWaiters /\ faults \in 0..MaxFaults
      /\ Depth \in Nat /\ Len(frames) \in Nat /\ chat.conversation \in 0..MaxMessages
  BY InTyped DEF Typed
<1>2. /\ gate' = gate /\ gate = Free /\ slots' = slots /\ faults' = faults
      /\ UNCHANGED <<boards, hub, chat>> /\ request[r] = Idle
      /\ request' = [request EXCEPT ![r] = new]
  <2>1. Starts(r, new) /\ gate = Free /\ UNCHANGED <<boards, hub, chat, gate, slots, faults>>
    BY DEF PrepareMessage
  <2> QED
    BY <2>1 DEF Starts
<1>3. /\ new \in Request /\ new.step = "drafted" /\ new.credential = c /\ new.head = 0
      /\ new.covered = 0
  <2>1. Idle \in Request /\ Idle.head = 0 /\ Idle.covered = 0
    BY IdleRequest DEF Idle
  <2>2. c \in Nat /\ "drafted" \in Steps
    BY DEF Credentials, Steps
  <2>3. new \in Request
    BY <1>1, <2>1, <2>2 DEF Request
  <2>4. new.step = "drafted" /\ new.credential = c /\ new.head = Idle.head
        /\ new.covered = Idle.covered
    BY <2>1 DEF Request
  <2> QED
    BY <2>1, <2>3, <2>4
<1> HIDE DEF new
<1>4. RequestOK(r)'
  <2>1. request'[r] = new
    BY <1>1, <1>2 DEF Typed
  <2>2. Depth' = Depth /\ frames' = frames
    BY <1>2 DEF Depth, hub
  <2> QED
    BY <1>1, <1>3, <2>1, <2>2 DEF RequestOK
<1>5. /\ new.step \notin Slotted /\ request[r].step \notin Slotted /\ request[r].step # "opened"
      /\ gate' = Free /\ gate' \in Requests \cup {Free}
  BY <1>2, <1>3 DEF Slotted, Idle
<1> QED
  BY <1>1, <1>2, <1>4, <1>5, QuietRequest

\* Requests that end without having changed anything.
LEMMA EndsInv ==
    ASSUME IInv, NEW r \in Requests, MessageRefused(r) \/ WaitFails(r) \/ ReadFails(r) \/ Answer(r)
    PROVE  IInv'
<1>1. /\ Typed /\ slots \in Nat /\ slots = Cardinality(InSlots) /\ IsFiniteSet(InSlots)
      /\ slots \in 0..MaxWaiters /\ Len(frames) \in Nat
  BY InTyped DEF Typed
<1>2. /\ request' = [request EXCEPT ![r] = Idle] /\ UNCHANGED <<boards, hub, chat>>
      /\ request[r].step \in {"submitting", "waiting", "reading", "answering"}
      /\ gate' \in {gate, Free}
      /\ gate' = gate /\ gate # Free => request[r].step \notin Gated
      /\ slots' = IF request[r].step \in Slotted THEN slots - 1 ELSE slots
  BY DEF MessageRefused, WaitFails, ReadFails, Answer, Ends, Gated, Slotted
<1>3. faults' \in 0..MaxFaults
  <2>1. faults' = faults \/ Fault
    BY DEF MessageRefused, WaitFails, ReadFails, Answer
  <2> QED
    BY <2>1, FaultsCounted
<1>4. request'[r] = Idle /\ boards' = boards /\ frames' = frames
  BY <1>1, <1>2 DEF Typed, hub
<1>5. RequestOK(r)'
  BY <1>1, <1>4, IdleOK DEF Extends
<1>6. slots' \in 0..MaxWaiters
  <2>1. CASE request[r].step \in Slotted
    <3>1. InSlots # {}
      BY <2>1 DEF InSlots
    <3>2. slots # 0
      BY <1>1, <3>1, FS_EmptySet
    <3> QED
      BY <1>1, <1>2, <3>2, BoundsAssumption
  <2> QED
    BY <1>1, <1>2, <2>1
<1>7. /\ gate' = Free \/ (gate' = gate /\ (request[r].step \in Gated => Idle.step \in Gated))
      /\ gate' \in Requests \cup {Free}
  BY <1>1, <1>2 DEF Typed
<1> QED
  BY <1>1, <1>2, <1>3, <1>5, <1>6, <1>7, IdleRequest, QuietRequest

LEMMA ObserveInv ==
    ASSUME IInv, NEW r \in Requests, Observe(r)
    PROVE  IInv'
<1> DEFINE new == [Idle EXCEPT !.step = "waiting"]
<1>1. /\ Typed /\ slots \in Nat /\ Len(frames) \in Nat /\ Depth \in Nat
      /\ gate \in Requests \cup {Free} /\ faults \in 0..MaxFaults
  BY InTyped DEF Typed
<1>2. /\ gate' = gate /\ slots < MaxWaiters /\ slots' = slots + 1 /\ faults' = faults
      /\ UNCHANGED <<boards, hub, chat>> /\ request[r] = Idle
      /\ request' = [request EXCEPT ![r] = new]
  BY DEF Observe, Starts
<1>3. /\ new \in Request /\ new.step = "waiting" /\ new.head = 0 /\ new.covered = 0
  <2>1. Idle \in Request /\ Idle.head = 0 /\ Idle.covered = 0
    BY IdleRequest DEF Idle
  <2>2. new \in Request
    BY <2>1 DEF Request, Steps
  <2>3. new.step = "waiting" /\ new.head = Idle.head /\ new.covered = Idle.covered
    BY <2>1 DEF Request
  <2> QED
    BY <2>1, <2>2, <2>3
<1> HIDE DEF new
<1>4. RequestOK(r)'
  <2>1. request'[r] = new
    BY <1>1, <1>2 DEF Typed
  <2>2. Depth' = Depth /\ frames' = frames
    BY <1>2 DEF Depth, hub
  <2> QED
    BY <1>1, <1>3, <2>1, <2>2 DEF RequestOK
<1>5. /\ new.step \in Slotted /\ request[r].step \notin Slotted /\ request[r].step # "opened"
      /\ request[r].step \notin Gated /\ slots' \in 0..MaxWaiters
  BY <1>1, <1>2, <1>3, BoundsAssumption DEF Slotted, Gated, Idle
<1> QED
  BY <1>1, <1>2, <1>4, <1>5, QuietRequest

\* What the hub shows had authority when it was made.
LEMMA ObserveHubInv ==
    ASSUME IInv, NEW r \in Requests, ObserveHub(r)
    PROVE  IInv'
<1> DEFINE motions == {session[c] : c \in {d \in Credentials : session[d].motion # NoMotion}}
           new == [request[r] EXCEPT !.step = "reading", !.covered = Len(frames),
                                     !.conversation = open, !.motions = motions]
<1>1. /\ Typed /\ Len(frames) \in Nat /\ Depth \in Nat /\ request[r] \in Request /\ RequestOK(r)
      /\ gate \in Requests \cup {Free} /\ faults \in 0..MaxFaults /\ slots \in 0..MaxWaiters
      /\ open \in 0..MaxMessages
  BY InTyped DEF Typed
<1>2. /\ gate' = gate /\ slots' = slots /\ faults' = faults
      /\ UNCHANGED <<boards, hub, chat>> /\ request[r].step = "viewing"
      /\ request' = [request EXCEPT ![r] = new]
  BY DEF ObserveHub
<1>3. /\ motions \in SUBSET Session
      /\ \A m \in motions : Authority(m.motion, m.actor, m.role)
  BY InTyped DEF SessionOK
<1> HIDE DEF motions
<1>4. /\ new \in Request /\ new.step = "reading" /\ new.head = request[r].head
      /\ new.covered = Len(frames) /\ new.motions = motions
  <2>1. "reading" \in Steps
    BY DEF Steps
  <2> QED
    BY <1>1, <1>3, <2>1 DEF Request
<1> HIDE DEF new
<1>5. RequestOK(r)'
  <2>1. request'[r] = new
    BY <1>1, <1>2 DEF Typed
  <2>2. boards' = boards /\ frames' = frames /\ Depth' = Depth
    BY <1>2 DEF Depth, hub
  <2>3. \A m \in new.motions : Authority(m.motion, m.actor, m.role)'
    BY <1>3, <1>4, <2>2 DEF Authority
  <2> QED
    BY <1>1, <1>4, <2>1, <2>2, <2>3 DEF RequestOK
<1>6. new.step \in Slotted /\ request[r].step \in Slotted /\ new.step \in Gated
  BY <1>2, <1>4 DEF Slotted, Gated
<1> QED
  BY <1>1, <1>2, <1>5, <1>6, QuietRequest

\* The fold decides which of them are shown.
LEMMA ProjectInv ==
    ASSUME IInv, NEW r \in Requests, ProjectLive(r)
    PROVE  IInv'
<1> DEFINE new == [request[r] EXCEPT !.step = "answering", !.head = Depth,
                      !.motions = Shown(request[r].motions), !.messages = chat'.messages]
<1>1. /\ Typed /\ Len(frames) \in Nat /\ Depth \in Nat /\ request[r] \in Request /\ RequestOK(r)
  BY InTyped
<1>2. /\ gate' = Free /\ slots' = slots /\ faults' = faults
      /\ boards' = boards /\ session' = session /\ frames' = frames /\ open' = open
      /\ request[r].step = "reading" /\ chat' \in {chat, NoChat}
      /\ request' = [request EXCEPT ![r] = new]
  BY DEF ProjectLive, Reconciled, hub
<1>3. /\ chat'.conversation \in 0..MaxMessages /\ chat'.messages \in Seq(Nat)
      /\ Len(chat'.messages) <= MaxFrames
      /\ \A i \in 1..Len(chat'.messages) : chat'.messages[i] \in 1..Len(frames)
  <2>1. CASE chat' = chat
    BY <1>1, <2>1 DEF Typed
  <2>2. CASE chat' = NoChat
    <3>1. chat'.conversation = 0 /\ chat'.messages = <<>>
      BY <2>2 DEF NoChat
    <3> QED
      BY <3>1, BoundsAssumption
  <2> QED
    BY <1>2, <2>1, <2>2
<1>4. /\ Shown(request[r].motions) \subseteq request[r].motions
      /\ \A m \in Shown(request[r].motions) : m.motion = Depth
  BY DEF Shown
<1>5. /\ new \in Request /\ new.step = "answering" /\ new.head = Depth
      /\ new.covered = request[r].covered /\ new.motions = Shown(request[r].motions)
  <2>1. "answering" \in Steps
    BY DEF Steps
  <2>2. Shown(request[r].motions) \in SUBSET Session
    BY <1>1, <1>4 DEF Request
  <2> QED
    BY <1>1, <1>3, <2>1, <2>2 DEF Request
<1> HIDE DEF new
<1>6. request'[r] = new /\ \A s \in Requests \ {r} : request'[s] = request[s]
  BY <1>1, <1>2 DEF Typed
<1>7. RequestOK(r)'
  <2>1. Depth' = Depth
    BY <1>2 DEF Depth
  <2>2. \A m \in new.motions : Authority(m.motion, m.actor, m.role)'
    <3>1. \A m \in new.motions : Authority(m.motion, m.actor, m.role)
      BY <1>1, <1>2, <1>4, <1>5 DEF RequestOK
    <3> QED
      BY <1>2, <2>1, <3>1 DEF Authority
  <2> QED
    BY <1>1, <1>2, <1>4, <1>5, <1>6, <2>1, <2>2 DEF RequestOK
<1>8. Typed'
  <2>1. DOMAIN request' = Requests /\ request' = [s \in Requests |-> request'[s]]
    BY <1>1, <1>2 DEF Typed
  <2> QED
    BY <1>1, <1>2, <1>3, <2>1 DEF Typed, Depth
<1>9. Extends /\ Evolves /\ \A c \in Credentials : SessionOK(c)'
  <2>1. Extends /\ Evolves
    BY <1>2 DEF Extends, Evolves
  <2> QED
    BY <1>2, <2>1, SessionKept
<1>10. /\ new.step \in Slotted /\ request[r].step \in Slotted
       /\ \A c \in Credentials : Opened(c)' => Opened(c)
  BY <1>2, <1>5 DEF Slotted, Opened
<1> QED
  BY <1>1, <1>2, <1>6, <1>7, <1>8, <1>9, <1>10, OneRequest

-----------------------------------------------------------------------------
(* Sessions.                                                               *)

\* A request starts or ends as one session changes.
LEMMA SessionStep ==
    ASSUME IInv, UNCHANGED <<boards, frames, open, chat, slots>>,
           NEW r \in Requests, NEW c \in Credentials, NEW after \in Session, NEW new \in Request,
           session' = [session EXCEPT ![c] = after],
           after.motion # NoMotion => Authority(after.motion, after.actor, after.role),
           after.state # "live" => after.motion = NoMotion,
           request' = [request EXCEPT ![r] = new],
           request[r].step \notin Slotted, new.step \notin Slotted,
           new = Idle \/ (new.step = "opened" /\ new.credential = c /\ new.head = 0
                          /\ new.covered = 0),
           session[c].state \in {"live", "ended"} =>
              /\ after.state \in {"live", "ended"}
              /\ after.state = "live" => session[c].state = "live" /\ after.actor = session[c].actor,
           after.state = "opened" => new.step = "opened",
           request[r].step = "opened" => request[r].credential = c,
           gate' = Free \/ (gate' = r /\ new.step \in Gated)
           \/ (gate' = gate /\ request[r].step \notin Gated),
           faults' \in 0..MaxFaults
    PROVE  IInv'
<1>1. /\ Typed /\ Len(frames) \in Nat /\ Depth \in Nat /\ Depth # 0
  BY InTyped
<1>2. /\ session'[c] = after /\ \A d \in Credentials \ {c} : session'[d] = session[d]
      /\ request'[r] = new /\ \A s \in Requests \ {r} : request'[s] = request[s]
  BY <1>1 DEF Typed
<1>3. Typed'
  <2>1. /\ DOMAIN request' = Requests /\ request' = [s \in Requests |-> request'[s]]
        /\ DOMAIN session' = Credentials /\ session' = [d \in Credentials |-> session'[d]]
    BY <1>1 DEF Typed
  <2>2. gate' \in Requests \cup {Free}
    BY <1>1 DEF Typed
  <2> QED
    BY <1>1, <2>1, <2>2 DEF Typed, Depth
<1>4. Extends /\ Evolves
  BY <1>2 DEF Extends, Evolves
<1>5. ASSUME NEW d \in Credentials
      PROVE  SessionOK(d)'
  <2>1. CASE d = c
    BY <1>1, <1>2, <1>4, <2>1, AuthorityKept DEF SessionOK
  <2>2. CASE d # c
    BY <1>2, <1>4, <2>2, SessionKept
  <2> QED
    BY <2>1, <2>2
<1>6. RequestOK(r)'
  <2>1. CASE new = Idle
    BY <1>1, <1>2, <1>4, <2>1, IdleOK
  <2>2. CASE new.step = "opened" /\ new.credential = c /\ new.head = 0 /\ new.covered = 0
    BY <1>1, <1>2, <2>2 DEF RequestOK, Depth
  <2> QED
    BY <2>1, <2>2
<1>7. ASSUME NEW d \in Credentials, Opened(d)'
      PROVE  \/ Opened(d) /\ ~ (request[r].step = "opened" /\ request[r].credential = d)
             \/ request'[r].step = "opened" /\ request'[r].credential = d
  <2>1. CASE d = c
    <3>1. new.step = "opened"
      BY <1>2, <1>7, <2>1 DEF Opened
    <3>2. new.credential = c
      BY <3>1 DEF Idle
    <3> QED
      BY <1>2, <2>1, <3>1, <3>2
  <2>2. CASE d # c
    BY <1>2, <1>7, <2>2 DEF Opened
  <2> QED
    BY <2>1, <2>2
<1>8. (request[r].step \in Slotted <=> request'[r].step \in Slotted) /\ slots' = slots
  BY <1>2
<1> QED
  BY <1>1, <1>2, <1>3, <1>4, <1>5, <1>6, <1>7, <1>8, OneRequest

LEMMA NoSessionOK ==
    \A s \in {"none", "opened", "ended"}, a \in Actors \cup {None} :
        /\ [NoSession EXCEPT !.state = s, !.actor = a] \in Session
        /\ [NoSession EXCEPT !.state = s] \in Session
BY DEF NoSession, Session, Role, NoMotion

LEMMA OpenInv ==
    ASSUME IInv, NEW r \in Requests, NEW a \in Actors, OpenSession(r, a)
    PROVE  IInv'
<1>1. PICK c \in Credentials :
         /\ session[c].state = "none"
         /\ session' = [session EXCEPT ![c] = [NoSession EXCEPT !.state = "opened", !.actor = a]]
         /\ Starts(r, [Idle EXCEPT !.step = "opened", !.credential = c])
  BY DEF OpenSession
<1> DEFINE after == [NoSession EXCEPT !.state = "opened", !.actor = a]
           new == [Idle EXCEPT !.step = "opened", !.credential = c]
<1>2. after \in Session /\ after.state = "opened" /\ after.motion = NoMotion
  BY NoSessionOK DEF NoSession
<1>3. /\ new \in Request /\ new.step = "opened" /\ new.credential = c /\ new.head = 0
      /\ new.covered = 0
  <2>1. Idle \in Request /\ Idle.head = 0 /\ Idle.covered = 0
    BY IdleRequest DEF Idle
  <2>2. c \in Nat /\ "opened" \in Steps
    BY DEF Credentials, Steps
  <2>3. new \in Request
    BY <2>1, <2>2 DEF Request
  <2>4. new.step = "opened" /\ new.credential = c /\ new.head = Idle.head
        /\ new.covered = Idle.covered
    BY <2>1 DEF Request
  <2> QED
    BY <2>1, <2>3, <2>4
<1> HIDE DEF after, new
<1>4. /\ request' = [request EXCEPT ![r] = new] /\ request[r] = Idle
      /\ session' = [session EXCEPT ![c] = after]
  BY <1>1 DEF Starts, after, new
<1>5. /\ UNCHANGED <<boards, frames, open, chat, slots>> /\ gate' = r
      /\ faults' \in 0..MaxFaults
  BY InTyped DEF OpenSession, Typed
<1>6. /\ request[r].step \notin Slotted /\ new.step \notin Slotted /\ new.step \in Gated
      /\ request[r].step # "opened" /\ session[c].state \notin {"live", "ended"}
  BY <1>1, <1>3, <1>4 DEF Slotted, Gated, Idle
<1> QED
  BY <1>2, <1>3, <1>4, <1>5, <1>6, SessionStep

LEMMA AdmitInv ==
    ASSUME IInv, NEW r \in Requests, AdmitSession(r)
    PROVE  IInv'
<1> DEFINE c == request[r].credential
           after == [session[c] EXCEPT !.state = "live", !.role = RoleOf(session[c].actor)]
<1>1. /\ request[r].step = "opened" /\ request' = [request EXCEPT ![r] = Idle]
      /\ session[c].state = "opened"
      /\ session' = [session EXCEPT ![c].state = "live", ![c].role = RoleOf(session[c].actor)]
      /\ gate' = Free /\ UNCHANGED <<boards, frames, open, chat, slots, faults>>
  BY DEF AdmitSession, Ends, Opened
<1>2. c \in Credentials
  BY <1>1, InTyped DEF RequestOK
<1>3. session[c] \in Session /\ session[c].motion = NoMotion
  BY <1>1, <1>2, InTyped DEF SessionOK
<1>4. RoleOf(session[c].actor) \in Role
  BY DEF RoleOf, Role
<1>5. after \in Session /\ after.state = "live" /\ after.motion = NoMotion
  BY <1>3, <1>4 DEF Session
<1>6. session' = [session EXCEPT ![c] = after]
  BY <1>1
<1> HIDE DEF after, c
<1>7. faults' \in 0..MaxFaults
  BY <1>1, InTyped DEF Typed
<1>8. request[r].step \notin Slotted
  BY <1>1 DEF Slotted
<1>9. request[r].credential = c
  BY DEF c
<1> QED
  BY <1>1, <1>2, <1>5, <1>6, <1>7, <1>8, <1>9, IdleRequest, SessionStep

LEMMA AbandonInv ==
    ASSUME IInv, NEW r \in Requests, AbandonSession(r)
    PROVE  IInv'
<1> DEFINE c == request[r].credential
           after == [NoSession EXCEPT !.state = "ended"]
<1>1. /\ request[r].step = "opened" /\ request' = [request EXCEPT ![r] = Idle]
      /\ session' = [session EXCEPT ![c] = after]
      /\ gate' = Free /\ UNCHANGED <<boards, frames, open, chat, slots>>
  BY DEF AbandonSession, Ends, Revoked
<1>2. c \in Credentials
  BY <1>1, InTyped DEF RequestOK
<1>3. after \in Session /\ after.state = "ended" /\ after.motion = NoMotion
  BY NoSessionOK DEF NoSession
<1>4. faults' \in 0..MaxFaults
  <2>1. faults' = faults \/ Fault
    BY DEF AbandonSession
  <2> QED
    BY <2>1, FaultsCounted
<1>5. request[r].step \notin Slotted /\ request[r].credential = c
  BY <1>1 DEF Slotted
<1> HIDE DEF after, c
<1> QED
  BY <1>1, <1>2, <1>3, <1>4, <1>5, IdleRequest, SessionStep

\* A hint is published as it was validated, or not at all.
LEMMA RenewInv ==
    ASSUME IInv, NEW r \in Requests, RenewPresence(r)
    PROVE  IInv'
<1> DEFINE c == request[r].credential
           after == IF Live(c) THEN [session[c] EXCEPT !.role = request[r].role,
                                                       !.motion = request[r].head]
                    ELSE session[c]
<1>1. /\ request[r].step = "renewing" /\ request' = [request EXCEPT ![r] = Idle]
      /\ session' = IF Live(c) THEN Presence(c, request[r].role, request[r].head) ELSE session
      /\ gate' = gate /\ UNCHANGED <<boards, frames, open, chat, slots, faults>>
  BY DEF RenewPresence, Ends
<1>2. /\ c \in Credentials /\ session[c].state \in {"live", "ended"}
      /\ Live(c) /\ request[r].head # NoMotion =>
            Authority(request[r].head, session[c].actor, request[r].role)
  BY <1>1, InTyped DEF RequestOK
<1>3. session[c] \in Session /\ SessionOK(c) /\ request[r].head \in Nat /\ request[r].role \in Role
  BY <1>2, InTyped DEF Request
<1>4. /\ after \in Session /\ after.state = session[c].state /\ after.actor = session[c].actor
      /\ after.motion # NoMotion => Authority(after.motion, after.actor, after.role)
      /\ after.state # "live" => after.motion = NoMotion
  <2>1. CASE Live(c)
    <3>1. /\ after \in Session /\ after.state = session[c].state /\ after.actor = session[c].actor
          /\ after.motion = request[r].head /\ after.role = request[r].role
      BY <1>3, <2>1 DEF Session
    <3> QED
      BY <1>2, <2>1, <3>1 DEF Live
  <2>2. CASE ~ Live(c)
    BY <1>3, <2>2 DEF SessionOK
  <2> QED
    BY <2>1, <2>2
<1>5. session' = [session EXCEPT ![c] = after]
  BY <1>1, <1>2, InTyped DEF Presence, Typed
<1>6. /\ faults' \in 0..MaxFaults /\ request[r].step \notin Slotted
      /\ request[r].step \notin Gated /\ request[r].step # "opened"
  BY <1>1, InTyped DEF Typed, Slotted, Gated
<1> HIDE DEF after, c
<1>7. after.state # "opened" /\ (after.state = "live" => session[c].state = "live")
      /\ after.state \in {"live", "ended"}
  BY <1>2, <1>4
<1> QED
  BY <1>1, <1>2, <1>4, <1>5, <1>6, <1>7, IdleRequest, SessionStep

LEMMA EndInv ==
    ASSUME IInv, NEW c \in Credentials, EndSession(c)
    PROVE  IInv'
<1> DEFINE after == [NoSession EXCEPT !.state = "ended"]
<1>1. /\ session' = [session EXCEPT ![c] = after]
      /\ UNCHANGED <<boards, frames, open, chat, gate, slots, request>>
  BY DEF EndSession, Revoked
<1>2. after \in Session /\ after.state = "ended" /\ after.motion = NoMotion
  BY NoSessionOK DEF NoSession
<1> HIDE DEF after
<1>3. Typed /\ faults' \in 0..MaxFaults
  BY InTyped, FaultsCounted DEF EndSession
<1>4. session'[c] = after /\ \A d \in Credentials \ {c} : session'[d] = session[d]
  BY <1>1, <1>3 DEF Typed
<1>5. Typed'
  <2>1. DOMAIN session' = Credentials /\ session' = [d \in Credentials |-> session'[d]]
    BY <1>1, <1>3 DEF Typed
  <2> QED
    BY <1>1, <1>3, <2>1 DEF Typed, Depth
<1>6. Extends /\ Evolves
  BY <1>1, <1>2, <1>4 DEF Extends, Evolves
<1>7. ASSUME NEW d \in Credentials
      PROVE  SessionOK(d)'
  <2>1. CASE d = c
    BY <1>2, <1>4, <2>1 DEF SessionOK
  <2>2. CASE d # c
    BY <1>4, <1>6, <2>2, SessionKept
  <2> QED
    BY <2>1, <2>2
<1>8. \A d \in Credentials : Opened(d)' => Opened(d)
  BY <1>2, <1>4 DEF Opened
<1> QED
  BY <1>1, <1>5, <1>6, <1>7, <1>8, NoRequest

-----------------------------------------------------------------------------
(* Chat.                                                                   *)

\* There is an unused name for the conversation of the next frame: fewer
\* frames were committed than there are names.
LEMMA NameLeft ==
    ASSUME IInv, Len(frames) < MaxMessages
    PROVE  \E n \in 1..MaxMessages : n \notin Conversations
<1>1. frames \in Seq(1..MaxMessages) /\ Len(frames) \in Nat /\ MaxMessages \in Nat
      /\ DOMAIN frames = 1..Len(frames)
  BY InTyped, BoundsAssumption DEF Typed
<1>2. SUFFICES ASSUME \A n \in 1..MaxMessages : n \in Conversations
               PROVE  FALSE
  OBVIOUS
<1> DEFINE place == [n \in 1..MaxMessages |-> CHOOSE i \in DOMAIN frames : frames[i] = n]
<1>3. \A n \in 1..MaxMessages : place[n] \in DOMAIN frames /\ frames[place[n]] = n
  BY <1>2 DEF Conversations
<1>4. place \in [1..MaxMessages -> 1..Len(frames)]
  BY <1>1, <1>3
<1>5. ASSUME NEW n \in Nat
      PROVE  IsFiniteSet(1..n) /\ Cardinality(1..n) = n
  <2>1. IsFiniteSet(1..n) /\ Cardinality(1..n) = IF 1 > n THEN 0 ELSE n - 1 + 1
    BY FS_Interval, 1 \in Int, n \in Int
  <2> QED
    BY <2>1
<1> HIDE DEF place
<1>6. \E m, n \in 1..MaxMessages : m # n /\ place[m] = place[n]
  <2>1. Cardinality(1..Len(frames)) < Cardinality(1..MaxMessages)
    BY <1>1, <1>5
  <2>2. IsFiniteSet(1..Len(frames)) /\ IsFiniteSet(1..MaxMessages)
    BY <1>1, <1>5
  <2> QED
    BY <1>4, <2>1, <2>2, FS_PigeonHole
<1> QED
  BY <1>3, <1>6

LEMMA FreshExists ==
    ASSUME IInv, Len(frames) < MaxMessages
    PROVE  Fresh \in 1..MaxMessages /\ Fresh \notin Conversations
BY NameLeft DEF Fresh

LEMMA CommitInv ==
    ASSUME IInv, NEW r \in Requests, CommitMessage(r)
    PROVE  IInv'
<1> DEFINE conversation == IF open = 0 THEN Fresh ELSE open
           new == [request[r] EXCEPT !.step = "committed", !.covered = Len(frames) + 1,
                                     !.conversation = conversation]
<1>1. /\ Typed /\ Len(frames) \in Nat /\ Depth \in Nat /\ request[r] \in Request /\ RequestOK(r)
      /\ open \in 0..MaxMessages /\ frames \in Seq(1..MaxMessages)
  BY InTyped DEF Typed
<1>2. /\ gate' = gate /\ slots' = slots /\ faults' = faults /\ chat' = chat
      /\ boards' = boards /\ session' = session
      /\ frames' = Append(frames, conversation) /\ open' = conversation
      /\ request[r].step = "submitting" /\ Len(frames) < MaxMessages
      /\ request' = [request EXCEPT ![r] = new]
  BY DEF CommitMessage, Committable
<1>3. conversation \in 1..MaxMessages
  BY <1>1, <1>2, FreshExists
<1>4. /\ new \in Request /\ new.step = "committed" /\ new.covered = Len(frames) + 1
      /\ new.head = request[r].head
  <2> HIDE DEF conversation
  <2>1. /\ conversation \in 0..MaxMessages /\ Len(frames) + 1 \in Nat /\ "committed" \in Steps
    BY <1>1, <1>3, BoundsAssumption DEF Steps
  <2> QED
    BY <1>1, <2>1 DEF Request
<1> HIDE DEF new, conversation
<1>5. frames' \in Seq(1..MaxMessages) /\ Len(frames') = Len(frames) + 1
  BY <1>1, <1>2, <1>3
<1>6. request'[r] = new /\ \A s \in Requests \ {r} : request'[s] = request[s]
  BY <1>1, <1>2 DEF Typed
<1>7. RequestOK(r)'
  <2>1. request[r].head <= Depth' /\ new.covered <= Len(frames') /\ new.covered # 0
    BY <1>1, <1>2, <1>4, <1>5 DEF RequestOK, Depth
  <2>2. /\ request'[r] \in Request /\ request'[r].step = "committed"
        /\ request'[r].head <= Depth' /\ request'[r].covered <= Len(frames')
        /\ request'[r].covered # 0
    BY <1>4, <1>6, <2>1
  <2> QED
    BY <2>2 DEF RequestOK
<1>8. Typed'
  <2>1. DOMAIN request' = Requests /\ request' = [s \in Requests |-> request'[s]]
    BY <1>1, <1>2 DEF Typed
  <2>2. \A i \in 1..Len(chat'.messages) : chat'.messages[i] \in 1..Len(frames')
    <3>1. \A i \in 1..Len(chat.messages) : chat.messages[i] \in 1..Len(frames)
      BY <1>1 DEF Typed
    <3>2. \A m \in 1..Len(frames) : m \in 1..Len(frames')
      BY <1>1, <1>5
    <3> QED
      BY <1>2, <3>1, <3>2
  <2>3. open' \in 0..MaxMessages
    BY <1>2, <1>3
  <2> QED
    BY <1>1, <1>2, <1>5, <2>1, <2>2, <2>3 DEF Typed, Depth
<1>9. Extends /\ Evolves /\ \A c \in Credentials : SessionOK(c)'
  <2>1. Extends /\ Evolves
    BY <1>2 DEF Extends, Evolves
  <2> QED
    BY <1>2, <2>1, SessionKept
<1>10. /\ new.step \notin Slotted /\ request[r].step \notin Slotted /\ new.step \in Gated
       /\ request[r].step # "opened" /\ \A c \in Credentials : Opened(c)' => Opened(c)
  BY <1>2, <1>4 DEF Slotted, Gated, Opened
<1>11. Len(frames) <= Len(frames') /\ Len(frames') \in Nat
  BY <1>1, <1>5
<1> QED
  BY <1>2, <1>6, <1>7, <1>8, <1>9, <1>10, <1>11, OneRequest

\* The transcript keeps at most maxLiveFrames messages, all of them committed.
LEMMA NewestMessages ==
    ASSUME NEW messages \in Seq(Nat), NEW n \in Nat,
           \A i \in 1..Len(messages) : messages[i] \in 1..n
    PROVE  /\ Newest(messages) \in Seq(Nat) /\ Len(Newest(messages)) <= MaxFrames
           /\ \A i \in 1..Len(Newest(messages)) : Newest(messages)[i] \in 1..n
<1>1. Len(messages) \in Nat /\ MaxFrames \in Nat \ {0}
  BY BoundsAssumption
<1>2. CASE Len(messages) > MaxFrames
  <2> DEFINE from == Len(messages) - MaxFrames + 1
  <2>1. Newest(messages) = SubSeq(messages, from, Len(messages))
    BY <1>2 DEF Newest
  <2>2. from \in 1..Len(messages)
    BY <1>1, <1>2
  <2>3. /\ SubSeq(messages, from, Len(messages)) \in Seq(Nat)
        /\ Len(SubSeq(messages, from, Len(messages))) = MaxFrames
        /\ \A i \in 1..MaxFrames :
              SubSeq(messages, from, Len(messages))[i] = messages[from + i - 1]
    BY <1>1, <2>2
  <2>4. \A i \in 1..MaxFrames : from + i - 1 \in 1..Len(messages)
    BY <1>1, <1>2
  <2> DEFINE newest == SubSeq(messages, from, Len(messages))
  <2>5. \A i \in 1..MaxFrames : newest[i] \in 1..n
    BY <2>3, <2>4
  <2>6. newest \in Seq(Nat) /\ Len(newest) = MaxFrames /\ Newest(messages) = newest
    BY <2>1, <2>3
  <2> HIDE DEF newest
  <2> QED
    BY <1>1, <2>5, <2>6
<1>3. CASE ~ (Len(messages) > MaxFrames)
  BY <1>1, <1>3 DEF Newest
<1> QED
  BY <1>2, <1>3

LEMMA RememberInv ==
    ASSUME IInv, NEW r \in Requests, RememberChat(r)
    PROVE  IInv'
<1> DEFINE kept == IF chat.conversation = request[r].conversation THEN chat.messages ELSE <<>>
           covered == request[r].covered
<1>1. /\ Typed /\ Len(frames) \in Nat /\ request[r] \in Request /\ RequestOK(r)
  BY InTyped
<1>2. /\ gate' = Free /\ slots' = slots /\ faults' = faults
      /\ boards' = boards /\ session' = session /\ frames' = frames /\ open' = open
      /\ request[r].step = "committed" /\ request' = [request EXCEPT ![r] = Idle]
      /\ chat' = [conversation |-> request[r].conversation,
                  messages |-> Newest(Append(kept, covered))]
  BY DEF RememberChat, Ends, hub
<1>3. covered \in 1..Len(frames)
  BY <1>1, <1>2 DEF RequestOK, Request
<1>4. kept \in Seq(Nat) /\ \A i \in 1..Len(kept) : kept[i] \in 1..Len(frames)
  BY <1>1 DEF Typed
<1> HIDE DEF kept, covered
<1>5. /\ Append(kept, covered) \in Seq(Nat)
      /\ \A i \in 1..Len(Append(kept, covered)) : Append(kept, covered)[i] \in 1..Len(frames)
  BY <1>1, <1>3, <1>4
<1>6. /\ chat'.conversation \in 0..MaxMessages /\ chat'.messages \in Seq(Nat)
      /\ Len(chat'.messages) <= MaxFrames
      /\ \A i \in 1..Len(chat'.messages) : chat'.messages[i] \in 1..Len(frames)
  <2>1. chat'.messages = Newest(Append(kept, covered))
        /\ chat'.conversation = request[r].conversation
    BY <1>2
  <2>2. request[r].conversation \in 0..MaxMessages
    BY <1>1 DEF Request
  <2> QED
    BY <1>1, <1>5, <2>1, <2>2, NewestMessages
<1>7. request'[r] = Idle /\ \A s \in Requests \ {r} : request'[s] = request[s]
  BY <1>1, <1>2 DEF Typed
<1>8. Typed'
  <2>1. DOMAIN request' = Requests /\ request' = [s \in Requests |-> request'[s]]
    BY <1>1, <1>2 DEF Typed
  <2> QED
    BY <1>1, <1>2, <1>6, <2>1 DEF Typed, Depth
<1>9. Extends /\ Evolves /\ \A c \in Credentials : SessionOK(c)'
  <2>1. Extends /\ Evolves
    BY <1>2 DEF Extends, Evolves
  <2> QED
    BY <1>2, <2>1, SessionKept
<1>10. RequestOK(r)'
  BY <1>1, <1>2, <1>7, <1>9, IdleOK
<1>11. /\ Idle.step \notin Slotted /\ request[r].step \notin Slotted
       /\ request[r].step # "opened" /\ \A c \in Credentials : Opened(c)' => Opened(c)
  BY <1>2, IdleRequest DEF Slotted, Opened
<1> QED
  BY <1>1, <1>2, <1>7, <1>8, <1>9, <1>10, <1>11, OneRequest

-----------------------------------------------------------------------------
(* The confirmed board and the hub's own clock.                            *)

LEMMA ConfirmInv ==
    ASSUME IInv, NEW board \in Board, Confirm(board)
    PROVE  IInv'
<1>1. Typed /\ boards \in Seq(Board)
  BY InTyped DEF Typed
<1>2. /\ boards' = Append(boards, board) /\ UNCHANGED <<hub, chat, gate, slots, request, faults>>
      /\ session' = session /\ frames' = frames /\ open' = open
  BY DEF Confirm, hub
<1>3. Extends /\ Evolves
  BY <1>2 DEF Extends, Evolves
<1>4. boards' \in Seq(Board) /\ Depth' # 0
  BY <1>1, <1>3, BoardsGrow
<1>5. Typed'
  BY <1>1, <1>2, <1>4 DEF Typed
<1>6. \A c \in Credentials : SessionOK(c)'
  BY <1>2, <1>3, SessionKept
<1> QED
  BY <1>2, <1>3, <1>5, <1>6, NoRequest DEF Opened

\* Every record leaves a board.
LEMMA NextBoard ==
    ASSUME IInv
    PROVE  /\ Current \in Board
           /\ \A a \in Actors : [Current EXCEPT !.black = a, !.turn = "white"] \in Board
           /\ \A turn \in {"none", "white", "black"} : [Current EXCEPT !.turn = turn] \in Board
<1>1. boards \in Seq(Board) /\ Depth \in Nat /\ Depth # 0
  BY InTyped DEF Typed
<1>2. Current \in Board
  BY <1>1 DEF Current, Depth
<1> QED
  BY <1>2 DEF Board

LEMMA RetireInv ==
    ASSUME IInv, RetireConversation
    PROVE  IInv'
<1>1. /\ Typed /\ open' = 0 /\ UNCHANGED <<boards, session, frames, chat, gate, slots, request>>
  BY InTyped DEF RetireConversation
<1>2. faults' \in 0..MaxFaults /\ open' \in 0..MaxMessages
  <2>1. faults < MaxFaults /\ faults' = faults + 1
    BY DEF RetireConversation, Fault
  <2>2. faults \in 0..MaxFaults /\ MaxFaults \in Nat /\ MaxMessages \in Nat
    BY <1>1, BoundsAssumption DEF Typed
  <2> QED
    BY <1>1, <2>1, <2>2
<1>3. Typed'
  BY <1>1, <1>2 DEF Typed, Depth
<1>4. Extends /\ Evolves
  BY <1>1 DEF Extends, Evolves
<1>5. \A c \in Credentials : SessionOK(c)'
  BY <1>1, <1>4, SessionKept
<1> QED
  BY <1>1, <1>3, <1>4, <1>5, NoRequest DEF Opened

-----------------------------------------------------------------------------
(* The specification.                                                      *)

LEMMA InitInv == Init => IInv
<1> SUFFICES ASSUME Init PROVE IInv
  OBVIOUS
<1> DEFINE first == [white |-> Creator, black |-> None, turn |-> "none"]
<1>1. first \in Board /\ boards = <<first>>
  BY CreatorAssumption DEF Init, Board
<1>2. boards \in Seq(Board) /\ Depth = 1
  BY <1>1 DEF Depth
<1>3. /\ frames = <<>> /\ open = 0 /\ chat.conversation = 0 /\ chat.messages = <<>>
      /\ gate = Free /\ slots = 0 /\ faults = 0
      /\ session = [c \in Credentials |-> NoSession] /\ request = [r \in Requests |-> Idle]
  BY DEF Init, NoChat
<1>4. Typed
  BY <1>2, <1>3, BoundsAssumption DEF Typed
<1>5. ASSUME NEW c \in Credentials
      PROVE  SessionOK(c)
  BY <1>3, NoSessionOK DEF SessionOK, NoSession, Session, Role, NoMotion
<1>6. ASSUME NEW r \in Requests
      PROVE  RequestOK(r)
  BY <1>2, <1>3, IdleRequest DEF RequestOK, Idle
<1>7. InSlots = {}
  BY <1>3 DEF InSlots, Idle, Slotted
<1>8. IsFiniteSet(InSlots) /\ slots = Cardinality(InSlots)
  BY <1>3, <1>7, FS_EmptySet
<1>9. EndedHoldsNothing
  BY <1>3, <1>8 DEF EndedHoldsNothing, InSlots, Slotted, Opened, NoSession
<1> QED
  BY <1>4, <1>5, <1>6, <1>8, <1>9 DEF IInv

LEMMA StutterInv ==
    ASSUME IInv, UNCHANGED vars
    PROVE  IInv'
<1>1. UNCHANGED <<boards, session, frames, open, chat, gate, slots, request, faults>>
  BY DEF vars, hub
<1>2. Typed /\ Typed'
  BY <1>1, InTyped DEF Typed, Depth
<1>3. Extends /\ Evolves
  BY <1>1 DEF Extends, Evolves
<1>4. \A c \in Credentials : SessionOK(c)'
  BY <1>1, <1>3, SessionKept
<1> QED
  BY <1>1, <1>2, <1>3, <1>4, NoRequest DEF Opened

LEMMA StepInv ==
    ASSUME IInv, [Next]_vars
    PROVE  IInv'
<1>1. ASSUME NEW r \in Requests, NEW a \in Actors, OpenSession(r, a)
      PROVE  IInv'
  BY <1>1, OpenInv
<1>2. ASSUME NEW r \in Requests, AdmitSession(r) \/ AbandonSession(r) \/ RenewPresence(r)
      PROVE  IInv'
  BY <1>2, AdmitInv, AbandonInv, RenewInv
<1>3. ASSUME NEW r \in Requests, NEW c \in Credentials,
             ReadForRenewal(r, c) \/ ReadForMotion(r, c) \/ PrepareMessage(r, c)
      PROVE  IInv'
  BY <1>3, ReadForInv, PrepareInv
<1>4. ASSUME NEW r \in Requests, GateChat(r) \/ GateView(r)
      PROVE  IInv'
  <2>1. CASE GateChat(r)
    <3>1. Lock(r, "drafted", "submitting") /\ UNCHANGED <<boards, hub, chat>>
      BY <2>1 DEF GateChat, Lock
    <3> QED
      BY <3>1, GoesInv
  <2>2. CASE GateView(r)
    <3>1. Lock(r, "waiting", "viewing") /\ UNCHANGED <<boards, hub, chat>>
      BY <2>2 DEF GateView, Lock
    <3> QED
      BY <3>1, GoesInv
  <2> QED
    BY <1>4, <2>1, <2>2
<1>5. ASSUME NEW r \in Requests, CommitMessage(r) \/ RememberChat(r)
      PROVE  IInv'
  BY <1>5, CommitInv, RememberInv
<1>6. ASSUME NEW r \in Requests, MessageRefused(r) \/ WaitFails(r) \/ ReadFails(r) \/ Answer(r)
      PROVE  IInv'
  BY <1>6, EndsInv
<1>7. ASSUME NEW r \in Requests, Observe(r) \/ ObserveHub(r) \/ ProjectLive(r)
      PROVE  IInv'
  BY <1>7, ObserveInv, ObserveHubInv, ProjectInv
<1>8. ASSUME NEW c \in Credentials, EndSession(c)
      PROVE  IInv'
  BY <1>8, EndInv
<1>9. ASSUME NEW a \in Actors, ConfirmJoin(a)
      PROVE  IInv'
  BY <1>9, NextBoard, ConfirmInv DEF ConfirmJoin
<1>10. ASSUME ConfirmMove
       PROVE  IInv'
  <2>1. PICK turn \in {"none", IF Current.turn = "white" THEN "black" ELSE "white"} :
           Confirm([Current EXCEPT !.turn = turn])
    BY <1>10 DEF ConfirmMove
  <2>2. turn \in {"none", "white", "black"}
    OBVIOUS
  <2> QED
    BY <2>1, <2>2, NextBoard, ConfirmInv
<1>11. ASSUME ConfirmOther
       PROVE  IInv'
  BY <1>11, NextBoard, ConfirmInv DEF ConfirmOther
<1> QED
  BY <1>1, <1>2, <1>3, <1>4, <1>5, <1>6, <1>7, <1>8, <1>9, <1>10, <1>11, RetireInv, StutterInv
     DEF Next

LEMMA Invariant == Spec => []IInv
BY InitInv, StepInv, PTL DEF Spec

\* Every variable of the room keeps its type; the transcript never exceeds
\* maxLiveFrames (rememberChatLocked), and no wait slot is counted twice.
THEOREM TypeCorrect == Spec => []TypeOK
<1>1. IInv => TypeOK
  <2> SUFFICES ASSUME IInv PROVE TypeOK
    OBVIOUS
  <2>1. /\ Typed /\ Len(frames) \in Nat /\ Depth \in Nat
        /\ DOMAIN frames = 1..Len(frames) /\ DOMAIN boards = 1..Len(boards)
    BY InTyped DEF Typed
  <2>2. \A h \in DOMAIN boards : boards[h] \in Board
    BY <2>1 DEF Typed
  <2>3. ASSUME NEW c \in Credentials
        PROVE  session[c] \in [state : {"none", "opened", "live", "ended"},
                    actor : Actors \cup {None}, role : Role, motion : 0..Depth]
    <3>1. session[c] \in Session /\ session[c].motion \in 0..Depth
      BY <2>1, InTyped DEF SessionOK, Session, Authority, NoMotion
    <3> QED
      BY <3>1 DEF Session
  <2>4. session \in [Credentials -> [state : {"none", "opened", "live", "ended"},
                    actor : Actors \cup {None}, role : Role, motion : 0..Depth]]
    BY <2>1, <2>3 DEF Typed
  <2>5. chat.messages \in Seq(DOMAIN frames)
    <3> DEFINE messages == chat.messages
    <3>1. /\ messages \in Seq(Nat) /\ Len(messages) \in Nat
          /\ \A i \in 1..Len(messages) : messages[i] \in DOMAIN frames
      BY <2>1 DEF Typed
    <3> HIDE DEF messages
    <3>2. messages \in [1..Len(messages) -> DOMAIN frames]
      BY <3>1
    <3>3. messages \in Seq(DOMAIN frames)
      BY <3>1, <3>2
    <3> QED
      BY <3>3 DEF messages
  <2>6. \A r \in Requests : request[r].head \in 0..Depth /\ request[r].covered \in 0..Len(frames)
    BY <2>1, InTyped DEF RequestOK, Request
  <2> QED
    BY <2>1, <2>2, <2>4, <2>5, <2>6 DEF TypeOK, Typed
<1> QED
  BY Invariant, <1>1, PTL

\* A motion shown with a board was hinted at by the side to move on that very
\* board, however the hint and the confirmed records interleave
\* (validateMotion, projectLiveLocked).
THEOREM MotionsHaveAuthorityHolds == Spec => []MotionsHaveAuthority
<1>1. IInv => MotionsHaveAuthority
  BY InTyped DEF RequestOK, Authority, MotionsHaveAuthority
<1> QED
  BY Invariant, <1>1, PTL

\* No handler returns with the gate, a wait slot or an unreachable session
\* left behind, however many requests are served and whichever call fails.
THEOREM EndedHoldsNothingHolds == Spec => []EndedHoldsNothing
<1>1. IInv => EndedHoldsNothing
  BY DEF IInv
<1> QED
  BY Invariant, <1>1, PTL

-----------------------------------------------------------------------------
(* The transcript: a second invariant, on top of the first.                *)

GateOwned == \A r \in Requests : request[r].step \in Gated => gate = r

\* Nobody is between a commit and the transcript.
Heard == \A r \in Requests : request[r].step # "committed"

\* Outside of that the transcript is that of the hub's conversation, or of one
\* that the hub has retired.
HeardOK ==
    /\ open \in {0, chat.conversation}
    /\ NewestOf(chat.messages, Said(Len(frames), chat.conversation))

\* In between it lacks the last frame, and is to be that frame's conversation.
CommittedOK(r) ==
    /\ request[r].covered = Len(frames)
    /\ request[r].conversation # 0
    /\ frames[Len(frames)] = request[r].conversation
    /\ open \in {0, request[r].conversation}
    /\ \/ /\ chat.conversation = request[r].conversation
          /\ NewestOf(chat.messages, Said(Len(frames) - 1, chat.conversation))
       \/ /\ chat.conversation # request[r].conversation
          /\ Said(Len(frames) - 1, request[r].conversation) = {}

\* An observation has the hub of the moment, except for what was retired since.
ReadingOK(r) ==
    /\ request[r].covered = Len(frames)
    /\ request[r].conversation \in {0, chat.conversation}
    /\ open \in {0, request[r].conversation}

AnsweringOK(r) ==
    NewestOf(request[r].messages, Said(request[r].covered, request[r].conversation))

TranscriptOK(r) ==
    /\ request[r].step = "committed" => CommittedOK(r)
    /\ request[r].step = "reading" => ReadingOK(r)
    /\ request[r].step = "answering" => AnsweringOK(r)

CInv ==
    /\ GateOwned
    /\ Heard => HeardOK
    /\ \A r \in Requests : TranscriptOK(r)

LEMMA AppendNewest ==
    ASSUME NEW messages \in Seq(Nat), NEW said \in SUBSET Nat, NewestOf(messages, said),
           NEW n \in Nat, \A m \in said : m < n
    PROVE  NewestOf(Newest(Append(messages, n)), said \cup {n})
<1> DEFINE all == Append(messages, n)
           length == Len(messages)
<1>1. /\ length \in Nat /\ MaxFrames \in Nat \ {0} /\ length <= MaxFrames
      /\ all \in Seq(Nat) /\ Len(all) = length + 1
      /\ all[length + 1] = n /\ \A i \in 1..length : all[i] = messages[i] /\ all[i] \in Nat
  BY BoundsAssumption DEF NewestOf
<1>2. /\ \A i, j \in 1..length : i < j => all[i] < all[j]
      /\ \A i \in 1..length : all[i] \in said
      /\ \A m \in said : \/ \E i \in 1..length : all[i] = m
                         \/ length = MaxFrames /\ \A i \in 1..length : m < all[i]
  BY <1>1 DEF NewestOf
<1> HIDE DEF all, length
<1>3. /\ \A i, j \in 1..(length + 1) : i < j => all[i] < all[j]
      /\ \A i \in 1..(length + 1) : all[i] \in said \cup {n}
  <2>1. \A i \in 1..(length + 1) : i \in 1..length \/ i = length + 1
    BY <1>1
  <2>2. \A i \in 1..length : all[i] < n
    BY <1>2
  <2>3. ASSUME NEW i \in 1..(length + 1), NEW j \in 1..(length + 1), i < j
        PROVE  all[i] < all[j]
    <3>1. i \in 1..length
      BY <1>1, <2>3
    <3>2. CASE j \in 1..length
      BY <1>2, <2>3, <3>1, <3>2
    <3>3. CASE j = length + 1
      BY <1>1, <2>2, <3>1, <3>3
    <3> QED
      BY <2>1, <3>2, <3>3
  <2>4. \A i \in 1..(length + 1) : all[i] \in said \cup {n}
    BY <1>1, <1>2, <2>1
  <2> QED
    BY <2>3, <2>4
<1>4. CASE length < MaxFrames
  <2>1. Newest(all) = all
    BY <1>1, <1>4 DEF Newest
  <2>2. \A m \in said \cup {n} : \E i \in 1..(length + 1) : all[i] = m
    BY <1>1, <1>2, <1>4
  <2>3. NewestOf(all, said \cup {n})
    BY <1>1, <1>3, <1>4, <2>2 DEF NewestOf
  <2> QED
    BY <2>1, <2>3 DEF all
<1>5. CASE length = MaxFrames
  <2> DEFINE newest == SubSeq(all, 2, length + 1)
  <2>1. Newest(all) = newest
    BY <1>1, <1>5 DEF Newest
  <2>2. Len(newest) = length /\ \A i \in 1..length : newest[i] = all[i + 1]
    BY <1>1, <1>5
  <2> HIDE DEF newest
  <2>3. \A i, j \in 1..length : i < j => newest[i] < newest[j]
    BY <1>1, <1>3, <2>2
  <2>4. \A i \in 1..length : newest[i] \in said \cup {n}
    BY <1>1, <1>3, <2>2
  <2>5. ASSUME NEW m \in said \cup {n}
        PROVE  (\E i \in 1..length : newest[i] = m) \/ \A i \in 1..length : m < newest[i]
    <3>1. CASE m = n
      <4>1. newest[length] = m /\ length \in 1..length
        BY <1>1, <1>5, <2>2, <3>1
      <4> QED
        BY <4>1
    <3>2. CASE m \in said /\ \E i \in 1..length : all[i] = m
      <4>1. PICK i \in 1..length : all[i] = m
        BY <3>2
      <4>2. CASE i = 1
        BY <1>1, <1>3, <2>2, <4>1, <4>2
      <4>3. CASE i # 1
        <5>1. i - 1 \in 1..length /\ newest[i - 1] = m
          BY <1>1, <2>2, <4>1, <4>3
        <5> QED
          BY <5>1
      <4> QED
        BY <4>2, <4>3
    <3>3. CASE m \in said /\ \A i \in 1..length : m < all[i]
      <4>1. \A i \in 1..(length + 1) : m < all[i]
        BY <1>1, <3>3
      <4> QED
        BY <1>1, <2>2, <4>1
    <3> QED
      BY <1>2, <3>1, <3>2, <3>3
  <2>6. NewestOf(newest, said \cup {n})
    BY <1>1, <1>5, <2>2, <2>3, <2>4, <2>5 DEF NewestOf
  <2> QED
    BY <2>1, <2>6 DEF all
<1> QED
  BY <1>1, <1>4, <1>5

LEMMA NothingNewest == NewestOf(<<>>, {})
BY BoundsAssumption DEF NewestOf

\* A commit leaves what was said before it as it was.
LEMMA SaidKept ==
    ASSUME IInv, NEW conversation, NEW n \in 0..Len(frames),
           \/ frames' = frames
           \/ \E c \in 1..MaxMessages : frames' = Append(frames, c)
    PROVE  {i \in 1..n : frames'[i] = conversation} = Said(n, conversation)
<1>1. frames \in Seq(1..MaxMessages) /\ Len(frames) \in Nat
  BY InTyped DEF Typed
<1>2. \A i \in 1..n : frames'[i] = frames[i]
  BY <1>1
<1> QED
  BY <1>2 DEF Said

\* While frames and chat stay, so does what was said and remembered.
LEMMA SameTranscript ==
    ASSUME UNCHANGED <<frames, chat>>
    PROVE  /\ \A n, c : Said(n, c)' = Said(n, c)
           /\ \A n, c : NewestOf(chat.messages, Said(n, c))' = NewestOf(chat.messages, Said(n, c))
<1>1. \A n, c : Said(n, c)' = Said(n, c)
  BY DEF Said
<1> QED
  BY <1>1 DEF NewestOf

\* Another's answer.
LEMMA AnswerKept ==
    ASSUME IInv, NEW r \in Requests, TranscriptOK(r), request[r].step = "answering",
           request'[r] = request[r],
           \/ frames' = frames
           \/ \E c \in 1..MaxMessages : frames' = Append(frames, c)
    PROVE  TranscriptOK(r)'
<1>1. request[r].covered \in 0..Len(frames)
  BY InTyped DEF RequestOK, Request
<1>2. {i \in 1..request[r].covered : frames'[i] = request[r].conversation}
        = Said(request[r].covered, request[r].conversation)
  BY <1>1, SaidKept
<1>3. NewestOf(request[r].messages, Said(request[r].covered, request[r].conversation))
  BY DEF TranscriptOK, AnsweringOK
<1>4. Said(request[r].covered, request[r].conversation)'
        = Said(request[r].covered, request[r].conversation)
  BY <1>2 DEF Said
<1>5. AnsweringOK(r)'
  BY <1>3, <1>4 DEF AnsweringOK, NewestOf
<1> QED
  BY <1>5 DEF TranscriptOK

LEMMA GateKept ==
    ASSUME GateOwned, NEW r \in Requests,
           \A s \in Requests \ {r} : request'[s] = request[s],
           \/ gate = Free /\ gate' = r
           \/ gate' = gate /\ (request'[r].step \in Gated => request[r].step \in Gated)
           \/ request[r].step \in Gated /\ request'[r].step \notin Gated
    PROVE  GateOwned'
BY FreeAssumption DEF GateOwned

\* A request moves, away from the transcript.
LEMMA QuietChat ==
    ASSUME IInv, CInv, UNCHANGED <<frames, open, chat>>, NEW r \in Requests,
           NEW new, request' = [request EXCEPT ![r] = new],
           request[r].step # "committed",
           new.step \notin {"committed", "reading", "answering"},
           \/ gate = Free /\ gate' = r
           \/ gate' = gate /\ new.step \notin Gated
           \/ request[r].step \in Gated /\ new.step \notin Gated
    PROVE  CInv'
<1>1. /\ request'[r] = new /\ \A s \in Requests \ {r} : request'[s] = request[s]
      /\ frames' = frames /\ open' = open /\ chat' = chat
  BY InTyped DEF Typed
<1>2. GateOwned'
  BY <1>1, GateKept DEF CInv
<1>3. Heard' => HeardOK'
  BY <1>1 DEF CInv, Heard, HeardOK, NewestOf, Said
<1>4. ASSUME NEW s \in Requests
      PROVE  TranscriptOK(s)'
  <2>1. CASE s = r
    BY <1>1, <2>1 DEF TranscriptOK
  <2>2. CASE s # r
    <3>1. TranscriptOK(s) /\ request'[s] = request[s]
      BY <1>1, <2>2 DEF CInv
    <3>2. CommittedOK(s) => CommittedOK(s)'
      BY <1>1, <3>1, SameTranscript DEF CommittedOK
    <3>3. ReadingOK(s) => ReadingOK(s)'
      BY <1>1, <3>1 DEF ReadingOK
    <3>4. request[s].step = "answering" => TranscriptOK(s)'
      BY <1>1, <3>1, AnswerKept
    <3> QED
      BY <3>1, <3>2, <3>3, <3>4 DEF TranscriptOK
  <2> QED
    BY <2>1, <2>2
<1> QED
  BY <1>2, <1>3, <1>4 DEF CInv

\* A request begins.
LEMMA StartsChat ==
    ASSUME IInv, CInv, UNCHANGED <<frames, open, chat>>, NEW r \in Requests,
           NEW new, Starts(r, new),
           \/ new.step = "opened" /\ gate = Free /\ gate' = r
           \/ new.step \in {"renewing", "drafted", "waiting"} /\ gate' = gate
    PROVE  CInv'
<1>1. request' = [request EXCEPT ![r] = new] /\ request[r].step = "idle"
  BY DEF Starts, Idle
<1>2. /\ new.step \notin {"committed", "reading", "answering"}
      /\ new.step \notin Gated \/ (gate = Free /\ gate' = r)
  BY DEF Gated
<1> QED
  BY <1>1, <1>2, QuietChat

\* No request moves; a conversation may be retired.
LEMMA NoRequestChat ==
    ASSUME IInv, CInv, UNCHANGED <<frames, chat, gate, request>>, open' \in {0, open}
    PROVE  CInv'
<1>1. GateOwned' /\ (Heard' => HeardOK')
  BY DEF CInv, GateOwned, Heard, HeardOK, NewestOf, Said
<1>2. ASSUME NEW s \in Requests
      PROVE  TranscriptOK(s)'
  <2>1. TranscriptOK(s)
    BY DEF CInv
  <2>2. CommittedOK(s) => CommittedOK(s)'
    BY SameTranscript DEF CommittedOK
  <2>3. ReadingOK(s) => ReadingOK(s)'
    BY DEF ReadingOK
  <2>4. request[s].step = "answering" => TranscriptOK(s)'
    BY <2>1, AnswerKept
  <2> QED
    BY <2>1, <2>2, <2>3, <2>4 DEF TranscriptOK
<1> QED
  BY <1>1, <1>2 DEF CInv

\* Whoever is behind the gate is there alone.
LEMMA Alone ==
    ASSUME CInv, NEW r \in Requests, request[r].step \in Gated,
           NEW s \in Requests \ {r}
    PROVE  request[s].step \notin Gated
BY DEF CInv, GateOwned

LEMMA CommitChat ==
    ASSUME IInv, CInv, NEW r \in Requests, CommitMessage(r)
    PROVE  CInv'
<1> DEFINE conversation == IF open = 0 THEN Fresh ELSE open
           new == [request[r] EXCEPT !.step = "committed", !.covered = Len(frames) + 1,
                                     !.conversation = conversation]
<1>1. /\ Typed /\ Len(frames) \in Nat /\ request[r] \in Request
      /\ open \in 0..MaxMessages /\ frames \in Seq(1..MaxMessages)
  BY InTyped DEF Typed
<1>2. /\ gate' = gate /\ chat' = chat
      /\ frames' = Append(frames, conversation) /\ open' = conversation
      /\ request[r].step = "submitting" /\ Len(frames) < MaxMessages
      /\ request' = [request EXCEPT ![r] = new]
  BY DEF CommitMessage, Committable
<1>3. conversation \in 1..MaxMessages
  BY <1>1, <1>2, FreshExists
<1>4. /\ new.step = "committed" /\ new.covered = Len(frames) + 1
      /\ new.conversation = conversation
  <2> HIDE DEF conversation
  <2> QED
    BY <1>1 DEF Request
<1>5. Heard /\ \A s \in Requests : request[s].step # "reading"
  BY <1>2, Alone DEF Heard, Gated
<1>6. open \in {0, chat.conversation}
      /\ NewestOf(chat.messages, Said(Len(frames), chat.conversation))
  BY <1>5 DEF CInv, HeardOK
<1>7. open = 0 => Said(Len(frames), conversation) = {}
  <2>1. ASSUME open = 0, NEW i \in 1..Len(frames)
        PROVE  frames[i] # Fresh
    <3>1. Fresh \notin Conversations
      BY <1>2, FreshExists
    <3> QED
      BY <1>1, <3>1 DEF Conversations
  <2> QED
    BY <2>1 DEF Said
<1> HIDE DEF new, conversation
<1>8. /\ frames' \in Seq(1..MaxMessages) /\ Len(frames') = Len(frames) + 1
      /\ frames'[Len(frames')] = conversation /\ Len(frames') - 1 = Len(frames)
  BY <1>1, <1>2, <1>3
<1>9. request'[r] = new /\ \A s \in Requests \ {r} : request'[s] = request[s]
  BY <1>1, <1>2 DEF Typed
<1>10. GateOwned'
  BY <1>2, <1>9, GateKept DEF CInv, Gated
<1>11. ~ Heard'
  BY <1>4, <1>9 DEF Heard
<1>12. CommittedOK(r)'
  <2>1. \A c : {i \in 1..Len(frames) : frames'[i] = c} = Said(Len(frames), c)
    BY <1>1, <1>2, <1>3, SaidKept
  <2>2. \A c : Said(Len(frames) - 1, c)' = Said(Len(frames), c)
    BY <1>8, <2>1 DEF Said
  <2>3. CASE chat.conversation = conversation
    <3>1. NewestOf(chat.messages, Said(Len(frames) - 1, chat.conversation))'
      BY <1>2, <1>6, <2>2 DEF NewestOf
    <3> QED
      BY <1>2, <1>3, <1>4, <1>8, <1>9, <2>3, <3>1 DEF CommittedOK
  <2>4. CASE chat.conversation # conversation
    <3>1. open = 0
      BY <1>6, <2>4 DEF conversation
    <3>2. /\ request'[r].covered = Len(frames') /\ request'[r].conversation = conversation
          /\ conversation # 0
      BY <1>1, <1>3, <1>4, <1>8, <1>9
    <3>3. Said(Len(frames) - 1, request[r].conversation)' = {}
      <4>1. {i \in 1..Len(frames) : frames'[i] = conversation} = {}
        BY <1>7, <2>1, <3>1
      <4> QED
        BY <1>8, <3>2, <4>1 DEF Said
    <3> QED
      BY <1>2, <1>8, <2>4, <3>2, <3>3 DEF CommittedOK
  <2> QED
    BY <2>3, <2>4
<1>13. ASSUME NEW s \in Requests
       PROVE  TranscriptOK(s)'
  <2>1. CASE s = r
    BY <1>4, <1>9, <1>12, <2>1 DEF TranscriptOK
  <2>2. CASE s # r
    <3>1. request'[s] = request[s] /\ TranscriptOK(s)
          /\ request[s].step \notin {"committed", "reading"}
      BY <1>5, <1>9, <2>2 DEF CInv, Heard
    <3>2. request[s].step = "answering" => TranscriptOK(s)'
      BY <1>2, <1>3, <3>1, AnswerKept
    <3> QED
      BY <3>1, <3>2 DEF TranscriptOK
  <2> QED
    BY <2>1, <2>2
<1> QED
  BY <1>10, <1>11, <1>13 DEF CInv

LEMMA RememberTranscript ==
    ASSUME IInv, CInv, NEW r \in Requests, RememberChat(r)
    PROVE  CInv'
<1> DEFINE conversation == request[r].conversation
           kept == IF chat.conversation = conversation THEN chat.messages ELSE <<>>
           last == Len(frames)
<1>1. /\ Typed /\ last \in Nat /\ request[r] \in Request /\ RequestOK(r)
      /\ frames \in Seq(1..MaxMessages)
  BY InTyped DEF Typed
<1>2. /\ frames' = frames /\ open' = open /\ gate' = Free
      /\ request[r].step = "committed" /\ request' = [request EXCEPT ![r] = Idle]
      /\ chat' = [conversation |-> conversation,
                  messages |-> Newest(Append(kept, request[r].covered))]
  BY DEF RememberChat, Ends, hub
<1>3. CommittedOK(r) /\ last # 0
  BY <1>1, <1>2 DEF CInv, TranscriptOK, CommittedOK, RequestOK, Request
<1>4. kept \in Seq(Nat)
  BY <1>1 DEF Typed
<1>5. NewestOf(kept, Said(last - 1, conversation))
  BY <1>3, NothingNewest DEF CommittedOK
<1>6. chat'.conversation = conversation /\ chat'.messages = Newest(Append(kept, last))
  BY <1>2, <1>3 DEF CommittedOK
<1>7. frames[last] = conversation /\ open \in {0, conversation}
  BY <1>3 DEF CommittedOK
<1> HIDE DEF kept, conversation, last
<1>8. /\ Said(last - 1, conversation) \in SUBSET Nat
      /\ \A m \in Said(last - 1, conversation) : m < last
  BY <1>1 DEF Said
<1>9. Said(last, conversation) = Said(last - 1, conversation) \cup {last}
  BY <1>1, <1>3, <1>7 DEF Said
<1>10. NewestOf(chat'.messages, Said(last, conversation))
  BY <1>1, <1>4, <1>5, <1>6, <1>8, <1>9, AppendNewest
<1>11. HeardOK'
  BY <1>2, <1>6, <1>7, <1>10 DEF HeardOK, NewestOf, Said, last
<1>12. request'[r] = Idle /\ \A s \in Requests \ {r} : request'[s] = request[s]
  BY <1>1, <1>2 DEF Typed
<1>13. GateOwned'
  BY <1>2, <1>12, IdleRequest, GateKept DEF CInv, Gated
<1>14. ASSUME NEW s \in Requests
       PROVE  TranscriptOK(s)'
  <2>1. CASE s = r
    BY <1>12, <2>1 DEF TranscriptOK, Idle
  <2>2. CASE s # r
    <3>1. /\ request'[s] = request[s] /\ TranscriptOK(s)
          /\ request[s].step \notin {"committed", "reading"}
      BY <1>2, <1>12, <2>2, Alone DEF CInv, Gated
    <3>2. request[s].step = "answering" => TranscriptOK(s)'
      BY <1>2, <3>1, AnswerKept
    <3> QED
      BY <3>1, <3>2 DEF TranscriptOK
  <2> QED
    BY <2>1, <2>2
<1> QED
  BY <1>11, <1>13, <1>14 DEF CInv

LEMMA ObserveHubChat ==
    ASSUME IInv, CInv, NEW r \in Requests, ObserveHub(r)
    PROVE  CInv'
<1> DEFINE shown == {session[c] : c \in {d \in Credentials : session[d].motion # NoMotion}}
           new == [request[r] EXCEPT !.step = "reading", !.covered = Len(frames),
                                     !.conversation = open, !.motions = shown]
<1>1. /\ Typed /\ request[r] \in Request
  BY InTyped
<1>2. /\ frames' = frames /\ open' = open /\ chat' = chat /\ gate' = gate
      /\ request[r].step = "viewing" /\ request' = [request EXCEPT ![r] = new]
  BY DEF ObserveHub, hub
<1>3. new.step = "reading" /\ new.covered = Len(frames) /\ new.conversation = open
  <2> HIDE DEF shown
  <2> QED
    BY <1>1 DEF Request
<1> HIDE DEF new
<1>4. request'[r] = new /\ \A s \in Requests \ {r} : request'[s] = request[s]
  BY <1>1, <1>2 DEF Typed
<1>5. Heard /\ HeardOK
  <2>1. Heard
    BY <1>2, Alone DEF Heard, Gated
  <2> QED
    BY <2>1 DEF CInv
<1>6. GateOwned'
  BY <1>2, <1>4, GateKept DEF CInv, Gated
<1>7. HeardOK'
  BY <1>2, <1>5 DEF HeardOK, NewestOf, Said
<1>8. ReadingOK(r)'
  BY <1>2, <1>3, <1>4, <1>5 DEF ReadingOK, HeardOK
<1>9. ASSUME NEW s \in Requests
      PROVE  TranscriptOK(s)'
  <2>1. CASE s = r
    BY <1>3, <1>4, <1>8, <2>1 DEF TranscriptOK
  <2>2. CASE s # r
    <3>1. /\ request'[s] = request[s] /\ TranscriptOK(s)
          /\ request[s].step \notin {"committed", "reading"}
      BY <1>2, <1>4, <2>2, Alone DEF CInv, Gated
    <3>2. request[s].step = "answering" => TranscriptOK(s)'
      BY <1>2, <3>1, AnswerKept
    <3> QED
      BY <3>1, <3>2 DEF TranscriptOK
  <2> QED
    BY <2>1, <2>2
<1> QED
  BY <1>6, <1>7, <1>9 DEF CInv

LEMMA NothingSaid == ASSUME IInv, NEW n \in 0..Len(frames) PROVE Said(n, 0) = {}
<1>1. frames \in Seq(1..MaxMessages) /\ Len(frames) \in Nat /\ MaxMessages \in Nat
  BY InTyped, BoundsAssumption DEF Typed
<1>2. \A i \in 1..n : frames[i] \in 1..MaxMessages
  BY <1>1
<1> QED
  BY <1>1, <1>2 DEF Said

LEMMA ProjectChat ==
    ASSUME IInv, CInv, NEW r \in Requests, ProjectLive(r)
    PROVE  CInv'
<1> DEFINE snapshot == request[r].conversation
           motions == Shown(request[r].motions)
           new == [request[r] EXCEPT !.step = "answering", !.head = Depth,
                                     !.motions = motions, !.messages = chat'.messages]
<1>1. /\ Typed /\ request[r] \in Request /\ Len(frames) \in Nat
  BY InTyped
<1>2. /\ frames' = frames /\ open' = open /\ gate' = Free
      /\ request[r].step = "reading" /\ request' = [request EXCEPT ![r] = new]
      /\ chat' = Reconciled(snapshot)
  BY DEF ProjectLive, hub
<1>3. /\ new.step = "answering" /\ new.covered = request[r].covered
      /\ new.conversation = snapshot /\ new.messages = chat'.messages
  <2> HIDE DEF motions
  <2> QED
    BY <1>1 DEF Request
<1>4. Heard /\ HeardOK
  <2>1. Heard
    BY <1>2, Alone DEF Heard, Gated
  <2> QED
    BY <2>1 DEF CInv
<1>5. request[r].covered = Len(frames) /\ snapshot \in {0, chat.conversation}
      /\ open \in {0, snapshot}
  BY <1>2 DEF CInv, TranscriptOK, ReadingOK
<1> HIDE DEF new, snapshot
<1>6. request'[r] = new /\ \A s \in Requests \ {r} : request'[s] = request[s]
  BY <1>1, <1>2 DEF Typed
<1>7. /\ chat'.conversation = snapshot
      /\ NewestOf(chat'.messages, Said(Len(frames), snapshot))
  <2>1. CASE chat.conversation \in {0, snapshot}
    <3>1. chat' = chat /\ chat.conversation = snapshot
      BY <1>2, <1>5, <2>1 DEF Reconciled
    <3> QED
      BY <1>4, <3>1 DEF HeardOK
  <2>2. CASE chat.conversation \notin {0, snapshot}
    <3>1. chat'.conversation = 0 /\ chat'.messages = <<>> /\ snapshot = 0
      BY <1>2, <1>5, <2>2 DEF Reconciled, NoChat
    <3>2. Said(Len(frames), snapshot) = {}
      BY <1>1, <3>1, NothingSaid
    <3> QED
      BY <3>1, <3>2, NothingNewest
  <2> QED
    BY <2>1, <2>2
<1>8. HeardOK'
  BY <1>2, <1>5, <1>7 DEF HeardOK, NewestOf, Said
<1>9. AnsweringOK(r)'
  <2>1. /\ request'[r].covered = Len(frames) /\ request'[r].conversation = snapshot
        /\ request'[r].messages = chat'.messages
    BY <1>3, <1>5, <1>6
  <2>2. Said(request[r].covered, request[r].conversation)' = Said(Len(frames), snapshot)
    BY <1>2, <2>1 DEF Said
  <2> QED
    BY <1>7, <2>1, <2>2 DEF AnsweringOK, NewestOf
<1>10. GateOwned'
  BY <1>2, <1>3, <1>6, GateKept DEF CInv, Gated
<1>11. ASSUME NEW s \in Requests
       PROVE  TranscriptOK(s)'
  <2>1. CASE s = r
    BY <1>3, <1>6, <1>9, <2>1 DEF TranscriptOK
  <2>2. CASE s # r
    <3>1. /\ request'[s] = request[s] /\ TranscriptOK(s)
          /\ request[s].step \notin {"committed", "reading"}
      BY <1>2, <1>6, <2>2, Alone DEF CInv, Gated
    <3>2. request[s].step = "answering" => TranscriptOK(s)'
      BY <1>2, <3>1, AnswerKept
    <3> QED
      BY <3>1, <3>2 DEF TranscriptOK
  <2> QED
    BY <2>1, <2>2
<1> QED
  BY <1>8, <1>10, <1>11 DEF CInv

LEMMA InitChat == Init => CInv
<1> SUFFICES ASSUME Init PROVE CInv
  OBVIOUS
<1>1. /\ frames = <<>> /\ open = 0 /\ chat.conversation = 0 /\ chat.messages = <<>>
      /\ request = [r \in Requests |-> Idle]
  BY DEF Init, NoChat
<1>2. Said(Len(frames), 0) = {}
  BY <1>1 DEF Said
<1> QED
  BY <1>1, <1>2, IdleRequest, NothingNewest DEF CInv, GateOwned, HeardOK, TranscriptOK, Idle

LEMMA StepChat ==
    ASSUME IInv, CInv, [Next]_vars
    PROVE  CInv'
<1> USE DEF hub
<1>1. ASSUME NEW r \in Requests, NEW a \in Actors, OpenSession(r, a)
      PROVE  CInv'
  <2>1. PICK c \in Credentials :
           Starts(r, [Idle EXCEPT !.step = "opened", !.credential = c])
    BY <1>1 DEF OpenSession
  <2> DEFINE new == [Idle EXCEPT !.step = "opened", !.credential = c]
  <2>2. Starts(r, new) /\ new.step = "opened"
    BY <2>1 DEF Idle
  <2>3. gate = Free /\ gate' = r /\ UNCHANGED <<frames, open, chat>>
    BY <1>1 DEF OpenSession
  <2> HIDE DEF new
  <2> QED
    BY <2>2, <2>3, StartsChat
<1>2. ASSUME NEW r \in Requests,
             \/ AdmitSession(r) \/ AbandonSession(r) \/ RenewPresence(r)
             \/ MessageRefused(r) \/ WaitFails(r) \/ ReadFails(r) \/ Answer(r)
      PROVE  CInv'
  <2>1. request' = [request EXCEPT ![r] = Idle] /\ UNCHANGED <<frames, open, chat>>
    BY <1>2 DEF AdmitSession, AbandonSession, RenewPresence, MessageRefused, WaitFails,
                ReadFails, Answer, Ends
  <2>2. \/ request[r].step \in {"opened", "submitting", "reading"}
        \/ gate' = gate /\ request[r].step \in {"renewing", "waiting", "answering"}
    BY <1>2 DEF AdmitSession, AbandonSession, RenewPresence, MessageRefused, WaitFails,
                ReadFails, Answer, Ends
  <2>3. Idle.step \notin Gated /\ Idle.step \notin {"committed", "reading", "answering"}
    BY DEF Idle, Gated
  <2>4. /\ request[r].step # "committed"
        /\ request[r].step \in Gated \/ gate' = gate
    BY <2>2 DEF Gated
  <2> QED
    BY <2>1, <2>3, <2>4, QuietChat
<1>3. ASSUME NEW r \in Requests, NEW c \in Credentials,
             ReadForRenewal(r, c) \/ ReadForMotion(r, c) \/ PrepareMessage(r, c)
      PROVE  CInv'
  <2>1. gate' = gate /\ UNCHANGED <<frames, open, chat>>
    BY <1>3 DEF ReadForRenewal, ReadForMotion, PrepareMessage
  <2>2. CASE ReadForRenewal(r, c)
    <3> DEFINE new == [Idle EXCEPT !.step = "renewing", !.credential = c,
                                   !.role = RoleOf(session[c].actor)]
    <3>1. Starts(r, new) /\ new.step = "renewing"
      BY <2>2 DEF ReadForRenewal, Idle
    <3> HIDE DEF new
    <3> QED
      BY <2>1, <3>1, StartsChat
  <2>3. CASE ReadForMotion(r, c)
    <3> DEFINE new == [Idle EXCEPT !.step = "renewing", !.credential = c,
                                   !.role = RoleOf(session[c].actor), !.head = Depth]
    <3>1. Starts(r, new) /\ new.step = "renewing"
      BY <2>3 DEF ReadForMotion, Idle
    <3> HIDE DEF new
    <3> QED
      BY <2>1, <3>1, StartsChat
  <2>4. CASE PrepareMessage(r, c)
    <3> DEFINE new == [Idle EXCEPT !.step = "drafted", !.credential = c,
                                   !.conversation = chat.conversation]
    <3>1. Starts(r, new) /\ new.step = "drafted"
      BY <2>4 DEF PrepareMessage, Idle
    <3> HIDE DEF new
    <3> QED
      BY <2>1, <3>1, StartsChat
  <2> QED
    BY <1>3, <2>2, <2>3, <2>4
<1>4. ASSUME NEW r \in Requests, GateChat(r) \/ GateView(r)
      PROVE  CInv'
  <2>1. PICK from \in {"drafted", "waiting"}, to \in {"submitting", "viewing"} : Lock(r, from, to)
    BY <1>4 DEF GateChat, GateView
  <2> DEFINE new == [request[r] EXCEPT !.step = to]
  <2>2. /\ request' = [request EXCEPT ![r] = new] /\ request[r].step = from
        /\ gate = Free /\ gate' = r /\ UNCHANGED <<frames, open, chat>>
    BY <2>1 DEF Lock, Goes
  <2>3. request[r] \in Request
    BY InTyped
  <2>4. new.step = to
    BY <2>3 DEF Request
  <2> HIDE DEF new
  <2> QED
    BY <2>2, <2>4, QuietChat
<1>5. ASSUME NEW r \in Requests, Observe(r)
      PROVE  CInv'
  <2> DEFINE new == [Idle EXCEPT !.step = "waiting"]
  <2>1. /\ Starts(r, new) /\ new.step = "waiting"
        /\ gate' = gate /\ UNCHANGED <<frames, open, chat>>
    BY <1>5 DEF Observe, Idle
  <2> HIDE DEF new
  <2> QED
    BY <2>1, StartsChat
<1>6. ASSUME \/ \E c \in Credentials : EndSession(c)
             \/ \E a \in Actors : ConfirmJoin(a)
             \/ ConfirmMove \/ ConfirmOther \/ RetireConversation \/ UNCHANGED vars
      PROVE  CInv'
  <2>1. UNCHANGED <<frames, chat, gate, request>> /\ open' \in {0, open}
    BY <1>6 DEF EndSession, ConfirmJoin, ConfirmMove, ConfirmOther, Confirm,
                RetireConversation, vars
  <2> QED
    BY <2>1, NoRequestChat
<1>7. ASSUME NEW r \in Requests, CommitMessage(r) \/ RememberChat(r) \/ ObserveHub(r) \/ ProjectLive(r)
      PROVE  CInv'
  BY <1>7, CommitChat, RememberTranscript, ObserveHubChat, ProjectChat
<1> QED
  BY <1>1, <1>2, <1>3, <1>4, <1>5, <1>6, <1>7 DEF Next

\* The transcript of an answer is exactly the newest frames of the
\* conversation that its cursor covers, for any number of requests and frames:
\* commit and transcript are one step behind the gate (submitMessage, observe).
THEOREM ChatMatchesCursorHolds == Spec => []ChatMatchesCursor
<1>1. IInv /\ CInv /\ [Next]_vars => CInv'
  BY StepChat
<1>2. CInv => ChatMatchesCursor
  BY DEF CInv, TranscriptOK, AnsweringOK, ChatMatchesCursor
<1> QED
  BY Invariant, InitChat, <1>1, <1>2, PTL DEF Spec
=============================================================================
