----------------------------- MODULE ChessFold -----------------------------
(***************************************************************************)
(* The deterministic fold of src/chess.go: every record of the verified    *)
(* log is interpreted in log order and either has its whole effect on one  *)
(* game or is counted as a refusal.  A record is identified by its         *)
(* position in the log, so record identifiers are the numbers 1, 2, ...    *)
(* and 0 stands for the empty identifier.                                  *)
(*                                                                         *)
(* Outside src/ and therefore abstract here: the chess rules engine (a     *)
(* move is quiet, ends the game, or is unplayable) and the identity fold   *)
(* of the host (a record may change which identity stands for a key, and   *)
(* a standing anchor stops answering when its last instant has passed).    *)
(***************************************************************************)
EXTENDS Naturals, FiniteSets, Sequences

CONSTANTS
    Keys,         \* actor fingerprints
    Identities,   \* persistent identities an anchor may name
    Scopes,       \* bound: anchor scopes in use; 0 is "chess", g is "chess:<game g>"
    InvitationKinds, \* bound: kinds of invitation in use
    None,         \* no key, no identity, no side
    MaxRecords,   \* bound: length of the log
    MaxRefusals,  \* maxRefusals, the length of the diagnostic tail
    MaxTime,      \* bound: last signed timestamp
    MaxGames,     \* bound: games ever created
    MaxRefusedTotal \* bound: records ever refused

ASSUME BoundsAssumption ==
    /\ MaxRecords \in Nat
    /\ MaxRefusals \in Nat \ {0}
    /\ MaxTime \in Nat
    /\ MaxGames \in Nat
    /\ MaxRefusedTotal \in Nat

Sides == {"white", "black"}
Ids   == 1..MaxRecords
IdOrNone == 0..MaxRecords
Times == 0..MaxTime

ASSUME NoneAssumption == None \notin Keys \cup Identities \cup Sides
ASSUME ScopesAssumption == Scopes \subseteq IdOrNone
ASSUME InvitationKindsAssumption == InvitationKinds \subseteq {"open", "key", "secret"}

VARIABLES
    depth,        \* records folded so far; the next record is depth + 1
    now,          \* timestamp of the last record
    standing,     \* the anchor that stands for each key at this frontier
    games,        \* the projection's games, by the record that created them
    refused,      \* bounded tail of refused records, oldest first
    refusedTotal  \* all refusals, those older than the tail included

vars == <<depth, now, standing, games, refused, refusedTotal>>

Other(side) == IF side = "white" THEN "black" ELSE "white"

Seat == [actor : Keys \cup {None}, identity : Identities \cup {None}]
EmptySeat == [actor |-> None, identity |-> None]

\* An anchor answers for its key up to and including notAfter.
Anchors == [identity : Identities \cup {None}, scope : IdOrNone, notAfter : Times]
NoAnchor == [identity |-> None, scope |-> 0, notAfter |-> 0]

\* Nobody invited (open admission), one key, or whoever knows a secret.
Invitations == [kind : {"open", "secret"}, key : {None}]
                 \cup [kind : {"key"}, key : Keys]
OpenInvitation == [kind |-> "open", key |-> None]
MalformedInvitation == [kind |-> "malformed", key |-> None]

Status  == {"absent", "open", "playing", "finished"}
Outcome == {"none", "white-wins", "black-wins", "draw"}
Method  == {"none", "engine", "resignation", "agreement"}

Game == [status : Status, creator : Keys \cup {None}, named : BOOLEAN,
         invitation : Invitations, seat : [Sides -> Seat],
         join : IdOrNone, lastMove : IdOrNone, moves : Nat, turn : Sides,
         outcome : Outcome, method : Method,
         drawOffer : IdOrNone, offeredBy : Sides \cup {None}]

NoGame == [status |-> "absent", creator |-> None, named |-> FALSE,
           invitation |-> OpenInvitation, seat |-> [s \in Sides |-> EmptySeat],
           join |-> 0, lastMove |-> 0, moves |-> 0, turn |-> "white",
           outcome |-> "none", method |-> "none",
           drawOffer |-> 0, offeredBy |-> None]

-----------------------------------------------------------------------------
(* Seat authority.                                                         *)

\* The identity key k acts under at time t in game g, or None: the anchor
\* must stand, not have expired, and cover the game.
Resolved(k, t, g) ==
    IF /\ standing[k].identity # None
       /\ t <= standing[k].notAfter
       /\ standing[k].scope \in {0, g}
    THEN standing[k].identity
    ELSE None

\* Slip: a key seated on one side borrows the other through its identity.
MatchesBorrowing(owner, other, k, who) ==
    /\ owner.actor # None
    /\ IF owner.identity # None THEN who = owner.identity ELSE k = owner.actor

\* Key k, acting as identity who, holds the seat owner opposite other.
Matches(owner, other, k, who) ==
    /\ owner.actor # None
    /\ k # other.actor
    /\ IF owner.identity # None THEN who = owner.identity ELSE k = owner.actor

\* The key holds an unanchored seat, but its identity already holds the other.
Collides(owner, other, k, who) ==
    /\ Matches(owner, other, k, who)
    /\ owner.identity = None
    /\ who # None
    /\ other.identity = who

HoldsSeat(game, side, k, who) ==
    Matches(game.seat[side], game.seat[Other(side)], k, who)

SeatCollision(game, k, who) ==
    \E s \in Sides : Collides(game.seat[s], game.seat[Other(s)], k, who)

\* Slip: the collision of a seat's upgrade with the other seat goes unnoticed.
SeatSideIgnoringCollision(game, k, who) ==
    LET white == HoldsSeat(game, "white", k, who)
        black == HoldsSeat(game, "black", k, who)
    IN  IF white <=> black THEN None ELSE IF white THEN "white" ELSE "black"

\* The one side the key may act for; None when there is none or no unique one.
SeatSide(game, k, who) ==
    LET white == HoldsSeat(game, "white", k, who)
        black == HoldsSeat(game, "black", k, who)
    IN  IF SeatCollision(game, k, who) \/ (white <=> black) THEN None
        ELSE IF white THEN "white" ELSE "black"

WithSeat(game, side, seat) ==
    [game EXCEPT !.seat = [game.seat EXCEPT ![side] = seat]]

\* The game after an accepted act of side: a seat whose key acts under a
\* qualified identity for the first time passes to that identity.
Committed(game, side, who) ==
    IF game.seat[side].identity = None /\ who # None
    THEN WithSeat(game, side, [actor |-> game.seat[side].actor, identity |-> who])
    ELSE game

\* Slip: the preview looks at the key alone.
SeatForKey(g, k) == SeatSide(games[g], k, None)

\* The seat preview: judged at the last record, so at its timestamp.
SeatFor(g, k) == SeatSide(games[g], k, Resolved(k, now, g))

-----------------------------------------------------------------------------
(* One record: its place in the log, and its effect or refusal.            *)

Next1 == depth + 1

Appended(t) ==
    /\ depth < MaxRecords
    /\ t \in now..MaxTime
    /\ depth' = Next1
    /\ now' = t

Effective(g, game) ==
    /\ games' = [games EXCEPT ![g] = game]
    /\ UNCHANGED <<standing, refused, refusedTotal>>

\* Slip: the refusal names the record before the one refused.
RefusePredecessor ==
    /\ refusedTotal < MaxRefusedTotal
    /\ refusedTotal' = refusedTotal + 1
    /\ refused' = Append(IF Len(refused) = MaxRefusals THEN Tail(refused) ELSE refused,
                         depth)
    /\ UNCHANGED <<standing, games>>

\* refuse: count the record and keep it in the tail, dropping the oldest.
Refuse ==
    /\ refusedTotal < MaxRefusedTotal
    /\ refusedTotal' = refusedTotal + 1
    /\ refused' = Append(IF Len(refused) = MaxRefusals THEN Tail(refused) ELSE refused,
                         Next1)
    /\ UNCHANGED <<standing, games>>

Playing(g) == games[g].status = "playing"
RestsOn(rests, id) == rests # 0 /\ rests = id

-----------------------------------------------------------------------------
(* Acts.  k is the signing key, t the signed timestamp, g the game the     *)
(* payload names, rests the only record the act rests on (0: none).        *)

\* seatAt: who sits down keeps the identity the key acts under.
SeatAt(k, t, g) == [actor |-> k, identity |-> Resolved(k, t, g)]

NewGame(k, t, color, invitation, named) ==
    [WithSeat(NoGame, color, SeatAt(k, t, Next1)) EXCEPT
        !.status = "open", !.creator = k, !.named = named, !.invitation = invitation]

\* foldNewGame, which create and create-named share.
FoldNewGame(k, t, color, rests, invitation, named) ==
    LET wellFormed == color \in Sides /\ rests = 0 /\ invitation \in Invitations
    IN  \/ wellFormed /\ Effective(Next1, NewGame(k, t, color, invitation, named))
        \/ ~wellFormed /\ Refuse

FoldCreate(k, t, color, rests, invitation) ==
    /\ Appended(t)
    /\ FoldNewGame(k, t, color, rests, invitation, FALSE)

FoldCreateNamed(k, t, color, rests, invitation, validName) ==
    /\ Appended(t)
    /\ \/ validName /\ FoldNewGame(k, t, color, rests, invitation, TRUE)
       \/ ~validName /\ Refuse

\* Only the creator names a game, once; a finished game may still be named.
NameAllowed(k, g, rests, validName) ==
    /\ games[g].status # "absent"
    /\ RestsOn(rests, g)
    /\ k = games[g].creator
    /\ validName
    /\ ~games[g].named

FoldName(k, t, g, rests, validName) ==
    /\ Appended(t)
    /\ \/ /\ NameAllowed(k, g, rests, validName)
          /\ Effective(g, [games[g] EXCEPT !.named = TRUE])
       \/ ~NameAllowed(k, g, rests, validName) /\ Refuse

Admitted(game, k, knowsSecret) ==
    CASE game.invitation.kind = "key"    -> k = game.invitation.key
      [] game.invitation.kind = "secret" -> knowsSecret
      [] OTHER                           -> TRUE

FreeSide(game) == IF game.seat["white"].actor = None THEN "white" ELSE "black"

\* Slip: a second join is not refused.
JoinAllowedTwice(k, t, g, rests, knowsSecret) ==
    /\ games[g].status # "absent"
    /\ RestsOn(rests, g)
    /\ k # games[g].creator
    /\ Admitted(games[g], k, knowsSecret)

\* The first admitted key takes the free seat, unless it acts under the very
\* identity that already holds the creator's seat.
JoinAllowed(k, t, g, rests, knowsSecret) ==
    LET game == games[g]
        who  == Resolved(k, t, g)
    IN  /\ game.status # "absent"
        /\ RestsOn(rests, g)
        /\ game.join = 0
        /\ k # game.creator
        /\ Admitted(game, k, knowsSecret)
        /\ who = None \/ who # game.seat[Other(FreeSide(game))].identity

Joined(k, t, g) ==
    [WithSeat(games[g], FreeSide(games[g]), SeatAt(k, t, g)) EXCEPT
        !.join = Next1, !.lastMove = Next1, !.status = "playing"]

FoldJoin(k, t, g, rests, knowsSecret) ==
    /\ Appended(t)
    /\ \/ JoinAllowed(k, t, g, rests, knowsSecret) /\ Effective(g, Joined(k, t, g))
       \/ ~JoinAllowed(k, t, g, rests, knowsSecret) /\ Refuse

\* What the engine makes of the move; "unplayable" is illegal or badly written.
MoveResults == {"quiet", "wins", "draws", "unplayable"}

MoveAllowed(k, t, g, rests, result) ==
    /\ Playing(g)
    /\ RestsOn(rests, games[g].lastMove)
    /\ SeatSide(games[g], k, Resolved(k, t, g)) = games[g].turn
    /\ result # "unplayable"

Finished(game, method, outcome) ==
    [game EXCEPT !.status = "finished", !.method = method, !.outcome = outcome]

WinFor(side) == IF side = "white" THEN "white-wins" ELSE "black-wins"

\* Slip: a move answers no offer.
KeepingDeclinedOffer(game, side) == game

\* Slip: a declined offer leaves its side behind.
ForgettingOnlyTheOffer(game, side) ==
    IF game.drawOffer # 0 /\ side # game.offeredBy
    THEN [game EXCEPT !.drawOffer = 0]
    ELSE game

\* Answering an offer with a move declines it; one's own offer stays pending.
WithoutDeclinedOffer(game, side) ==
    IF game.drawOffer # 0 /\ side # game.offeredBy
    THEN [game EXCEPT !.drawOffer = 0, !.offeredBy = None]
    ELSE game

\* refresh after the engine has played the move.
Refreshed(game, side, result) ==
    IF result = "quiet" THEN game
    ELSE Finished(game, "engine", IF result = "wins" THEN WinFor(side) ELSE "draw")

Moved(k, t, g, result) ==
    LET side  == games[g].turn
        owned == Committed(games[g], side, Resolved(k, t, g))
        moved == [WithoutDeclinedOffer(owned, side) EXCEPT
                     !.lastMove = Next1, !.moves = @ + 1, !.turn = Other(side)]
    IN  Refreshed(moved, side, result)

\* Slip: the seat passes to the identity before the move is found unplayable.
FoldMoveCommittingFirst(k, t, g, rests, result) ==
    /\ Appended(t)
    /\ \/ MoveAllowed(k, t, g, rests, result) /\ Effective(g, Moved(k, t, g, result))
       \/ /\ MoveAllowed(k, t, g, rests, "quiet")
          /\ result = "unplayable"
          /\ refusedTotal' = refusedTotal + 1
          /\ games' = [games EXCEPT ![g] =
                          Committed(@, @.turn, Resolved(k, t, g))]
          /\ UNCHANGED <<standing, refused>>

FoldMove(k, t, g, rests, result) ==
    /\ Appended(t)
    /\ \/ MoveAllowed(k, t, g, rests, result) /\ Effective(g, Moved(k, t, g, result))
       \/ ~MoveAllowed(k, t, g, rests, result) /\ Refuse

\* Either player may resign, on or off turn.
ResignAllowed(k, t, g, rests) ==
    /\ Playing(g)
    /\ RestsOn(rests, games[g].lastMove)
    /\ SeatSide(games[g], k, Resolved(k, t, g)) # None

Resigned(k, t, g) ==
    LET who  == Resolved(k, t, g)
        side == SeatSide(games[g], k, who)
    IN  Finished(Committed(games[g], side, who), "resignation", WinFor(Other(side)))

FoldResign(k, t, g, rests) ==
    /\ Appended(t)
    /\ \/ ResignAllowed(k, t, g, rests) /\ Effective(g, Resigned(k, t, g))
       \/ ~ResignAllowed(k, t, g, rests) /\ Refuse

\* Either player may offer a draw, on or off turn, while none is pending.
OfferAllowed(k, t, g, rests) ==
    /\ Playing(g)
    /\ RestsOn(rests, games[g].lastMove)
    /\ SeatSide(games[g], k, Resolved(k, t, g)) # None
    /\ games[g].drawOffer = 0

Offered(k, t, g) ==
    LET who  == Resolved(k, t, g)
        side == SeatSide(games[g], k, who)
    IN  [Committed(games[g], side, who) EXCEPT
            !.drawOffer = Next1, !.offeredBy = side]

FoldDrawOffer(k, t, g, rests) ==
    /\ Appended(t)
    /\ \/ OfferAllowed(k, t, g, rests) /\ Effective(g, Offered(k, t, g))
       \/ ~OfferAllowed(k, t, g, rests) /\ Refuse

\* Slip: the offer of a game decided meanwhile can still be accepted.
AcceptAllowedLate(k, t, g, rests, offer) ==
    LET side == SeatSide(games[g], k, Resolved(k, t, g))
    IN  /\ offer # 0 /\ offer = games[g].drawOffer
        /\ RestsOn(rests, offer)
        /\ side # None /\ side # games[g].offeredBy

\* An acceptance rests on the pending offer, not on the last move.
AcceptAllowed(k, t, g, rests, offer) ==
    LET side == SeatSide(games[g], k, Resolved(k, t, g))
    IN  /\ Playing(g)
        /\ offer # 0 /\ offer = games[g].drawOffer
        /\ RestsOn(rests, offer)
        /\ side # None /\ side # games[g].offeredBy

Agreed(k, t, g) ==
    LET who  == Resolved(k, t, g)
        side == SeatSide(games[g], k, who)
    IN  Finished(Committed(games[g], side, who), "agreement", "draw")

FoldDrawAccept(k, t, g, rests, offer) ==
    /\ Appended(t)
    /\ \/ AcceptAllowed(k, t, g, rests, offer) /\ Effective(g, Agreed(k, t, g))
       \/ ~AcceptAllowed(k, t, g, rests, offer) /\ Refuse

\* A chess record whose payload does not decode, whatever its schema.
FoldUndecodable(t) == Appended(t) /\ Refuse

\* A record of the identity schemas: opaque to the games, it may change the
\* anchor that stands for one key.
IdentityRecord(t, k, anchor) ==
    /\ Appended(t)
    /\ standing' = [standing EXCEPT ![k] = anchor]
    /\ UNCHANGED <<games, refused, refusedTotal>>

-----------------------------------------------------------------------------
Init ==
    /\ depth = 0
    /\ now = 0
    /\ standing = [k \in Keys |-> NoAnchor]
    /\ games = [g \in Ids |-> NoGame]
    /\ refused = <<>>
    /\ refusedTotal = 0

\* The inputs.  The fold only compares what an act rests on with identifiers
\* of the game the act names, so those and "none of them" are all the choices;
\* likewise a game that does not exist looks like a record that created none.
Colors == Sides \cup {"other"}
Offerable ==
    {i \in Invitations : i.kind \in InvitationKinds} \cup {MalformedInvitation}
StandingAnchors ==
    {NoAnchor} \cup [identity : Identities, scope : Scopes, notAfter : Times]
Nameable == {g \in Ids : games[g].status # "absent" \/ g = depth}
Citable(g) == {0, g, games[g].join, games[g].lastMove, games[g].drawOffer}

CreateStep(k, t) ==
    /\ Cardinality({g \in Ids : games[g].status # "absent"}) < MaxGames
    /\ \E color \in Colors, rests \in {0, depth}, invitation \in Offerable :
          \/ FoldCreate(k, t, color, rests, invitation)
          \/ \E validName \in BOOLEAN :
                FoldCreateNamed(k, t, color, rests, invitation, validName)

GameStep(k, t, g, rests) ==
    \/ \E validName \in BOOLEAN : FoldName(k, t, g, rests, validName)
    \/ \E knowsSecret \in BOOLEAN : FoldJoin(k, t, g, rests, knowsSecret)
    \/ \E result \in MoveResults : FoldMove(k, t, g, rests, result)
    \/ FoldResign(k, t, g, rests)
    \/ FoldDrawOffer(k, t, g, rests)
    \/ \E offer \in Citable(g) : FoldDrawAccept(k, t, g, rests, offer)

Next ==
    \E t \in Times :
        \/ FoldUndecodable(t)
        \/ \E k \in Keys :
              \/ \E anchor \in StandingAnchors : IdentityRecord(t, k, anchor)
              \/ CreateStep(k, t)
              \/ \E g \in Nameable : \E rests \in Citable(g) : GameStep(k, t, g, rests)

Spec == Init /\ [][Next]_vars

-----------------------------------------------------------------------------
(* Properties.                                                             *)

\* Every variable of the projection keeps its type; the tail stays within
\* maxRefusals whatever is appended.
TypeOK ==
    /\ depth \in 0..MaxRecords
    /\ now \in Times
    /\ standing \in [Keys -> Anchors]
    /\ games \in [Ids -> Game]
    /\ refused \in Seq(Ids)
    /\ Len(refused) <= MaxRefusals
    /\ refusedTotal \in Nat

GameOrder(g, game, last) ==
    /\ game.status = "absent" => game = NoGame
    /\ game.status # "absent" =>
          /\ g <= last
          /\ game.creator # None
          /\ \E s \in Sides : game.seat[s].actor = game.creator
          /\ game.seat["white"].actor # game.seat["black"].actor
    /\ game.status \in {"playing", "finished"} <=> game.join # 0
    /\ game.status = "open" =>
          game.moves = 0 /\ \E s \in Sides : game.seat[s] = EmptySeat
    /\ game.join # 0 =>
          /\ g < game.join
          /\ game.join + game.moves <= game.lastMove
          /\ game.seat["white"].actor # None
          /\ game.seat["black"].actor # None
    /\ game.lastMove <= last
    /\ game.drawOffer # 0 => game.join # 0 /\ game.join < game.drawOffer
    /\ game.drawOffer <= last
    /\ game.drawOffer = 0 <=> game.offeredBy = None
    /\ game.status = "finished" <=> game.method # "none"
    /\ game.status = "finished" <=> game.outcome # "none"
    /\ \A s \in Sides : game.seat[s].actor = None => game.seat[s] = EmptySeat

DistinctIdentities(game) ==
    game.seat["white"].identity # None =>
        game.seat["white"].identity # game.seat["black"].identity

FreshOffer(game) ==
    /\ game.drawOffer # 0 /\ game.drawOffer < game.lastMove =>
          game.turn = Other(game.offeredBy)
    /\ game.method = "agreement" => game.drawOffer # 0

\* The order of a game's records and how its status follows from them: a game
\* is created before it is joined, joined before it is moved in, and nothing
\* it cites lies beyond the log.  It is in play or decided exactly when it was
\* joined, by then both seats are held by different keys, one of them the
\* creator's, and it has a result exactly when it is finished.
ChainOrder == \A g \in Ids : GameOrder(g, games[g], depth)

\* No persistent identity ever holds both seats of a game: neither by joining
\* its own game under a second key, nor by anchoring both players' keys once
\* the game is under way and letting each seat pass to the identity (the
\* collision branch of matchSeat and sameAnchoredSeat in foldJoin).
OneIdentityPerGame == \A g \in Ids : DistinctIdentities(games[g])

\* Whatever any key is anchored to, now or later, it can never hold both sides
\* of a game, so the ambiguous branch of seatSide is never taken.
AuthorityExclusive ==
    \A g \in Ids, k \in Keys, who \in Identities \cup {None} :
        ~ /\ HoldsSeat(games[g], "white", k, who)
          /\ HoldsSeat(games[g], "black", k, who)

\* A draw offer never outlives the opponent's next move: if the chain has moved
\* on since the offer, only the player who offered has moved, so nobody accepts
\* an offer after playing on, and a draw by agreement had such an offer.
OfferFreshness == \A g \in Ids : FreshOffer(games[g])

\* The records a game's state rests on.
Cited(g) ==
    IF games[g].status = "absent" THEN {}
    ELSE {g, games[g].join, games[g].lastMove, games[g].drawOffer} \ {0}

\* A record has force or is refused, never both: no record a game rests on is
\* in the refusal tail, and none is cited by two games.  The tail is
\* in log order and only short when there were no more refusals.
RefusalsAccounted ==
    /\ \A g \in Ids : \A i \in 1..Len(refused) : refused[i] \notin Cited(g)
    /\ \A g, h \in Ids : g # h => Cited(g) \cap Cited(h) = {}
    /\ \A i \in 1..Len(refused), j \in 1..Len(refused) : i < j => refused[i] < refused[j]
    /\ Len(refused) < MaxRefusals => Len(refused) = refusedTotal

\* A refused record leaves every game exactly as it was, the seats included: an
\* upgrade found while matching the seat is only kept when the act has force.
RefusedChangesNothing ==
    [][refusedTotal' # refusedTotal => games' = games]_vars

\* A seat once taken keeps its key, and once it has passed to an identity it
\* never passes to another or back, whatever anchors are granted or revoked.
SeatOwnershipStable ==
    [][\A g \in Ids, s \in Sides :
          LET old == games[g].seat[s]
              new == games'[g].seat[s]
          IN  /\ old.actor # None => new.actor = old.actor
              /\ old.identity # None => new.identity = old.identity]_vars

\* A finished game only ever gains a name: no late move, resignation, offer,
\* acceptance or join reopens it or changes its result, players or chain.
FinishedIsFinal ==
    [][\A g \in Ids : games[g].status = "finished" =>
          games'[g] = [games[g] EXCEPT !.named = games'[g].named]]_vars

\* What a preview is worth to a later append with no record in between: it
\* names the side the append will act for, and says no to a key the fold would
\* accept only while that key's identity holds the opposing seat (an anchor
\* that may expire before the append).  The comment on SeatFor does not except
\* that case.
PreviewErrsOnlyOnCollision ==
    \A g \in Ids, k \in Keys, t \in now..MaxTime :
        LET side == SeatSide(games[g], k, Resolved(k, t, g))
        IN  side # None /\ SeatFor(g, k) # side =>
                /\ SeatFor(g, k) = None
                /\ SeatCollision(games[g], k, Resolved(k, now, g))
=============================================================================
