-------------------------- MODULE ChessFoldProofs --------------------------
(***************************************************************************)
(* Theorems of ChessFold for every value of its constants.                 *)
(***************************************************************************)
EXTENDS ChessFold, SequenceTheorems, TLAPS

-----------------------------------------------------------------------------
(* What the operators of the fold return.                                  *)

LEMMA SideFacts ==
    ASSUME NEW s \in Sides
    PROVE  Other(s) \in Sides /\ Other(s) # s /\ Other(Other(s)) = s
BY DEF Sides, Other

LEMMA ResolvedType ==
    ASSUME TypeOK, NEW k \in Keys, NEW t \in Times, NEW g \in Ids
    PROVE  Resolved(k, t, g) \in Identities \cup {None}
BY DEF TypeOK, Resolved, Anchors

LEMMA NoGameType == NoGame \in Game
<1>1. EmptySeat \in Seat
  BY DEF EmptySeat, Seat
<1>2. OpenInvitation \in Invitations
  BY DEF OpenInvitation, Invitations
<1> QED
  BY <1>1, <1>2, BoundsAssumption DEF NoGame, Game, Status, Outcome, Method, Sides, IdOrNone

LEMMA SeatSideType ==
    ASSUME NEW game, NEW k, NEW who
    PROVE  SeatSide(game, k, who) \in Sides \cup {None}
BY DEF SeatSide, Sides

\* Committing changes at most the identity of one seat.
LEMMA CommittedType ==
    ASSUME NEW game \in Game, NEW s \in Sides,
           NEW who \in Identities \cup {None}
    PROVE  Committed(game, s, who) \in Game
BY DEF Committed, WithSeat, Game, Seat

\* Every act names an existing identifier and the next record gets a fresh one.
LEMMA AppendedFacts ==
    ASSUME TypeOK, NEW t \in Times, Appended(t)
    PROVE  /\ Next1 \in Ids
           /\ Next1 > depth
           /\ depth' = Next1
           /\ depth' \in 0..MaxRecords
           /\ now' \in Times
BY BoundsAssumption DEF TypeOK, Appended, Next1, Ids, Times

-----------------------------------------------------------------------------
(* The inductive invariant, game by game: last is the last record.         *)

GameInv(g, game, last) ==
    /\ game \in Game
    /\ GameOrder(g, game, last)
    /\ DistinctIdentities(game)
    /\ FreshOffer(game)

\* A taken seat keeps its key, an anchored one its identity.
SeatsKept(old, new) ==
    \A s \in Sides :
        /\ old.seat[s].actor # None => new.seat[s].actor = old.seat[s].actor
        /\ old.seat[s].identity # None => new.seat[s].identity = old.seat[s].identity

IInv == TypeOK /\ \A g \in Ids : GameInv(g, games[g], depth)

LEMMA NoGameInv ==
    ASSUME NEW g \in Ids, NEW last \in 0..MaxRecords
    PROVE  GameInv(g, NoGame, last)
BY NoGameType, BoundsAssumption
   DEF GameInv, GameOrder, DistinctIdentities, FreshOffer, NoGame, EmptySeat, Sides, Ids

\* Nothing a game says depends on how far the log has grown beyond it.
LEMMA GameInvLater ==
    ASSUME NEW g \in Ids, NEW game, NEW last \in Nat, NEW later \in Nat,
           last <= later, GameInv(g, game, last)
    PROVE  GameInv(g, game, later)
BY BoundsAssumption DEF GameInv, GameOrder, Game, Ids, IdOrNone

LEMMA OpenedGameType ==
    ASSUME NEW game \in Game, NEW seats \in [Sides -> Seat], NEW creator \in Keys,
           NEW named \in BOOLEAN, NEW invitation \in Invitations
    PROVE  [game EXCEPT !.seat = seats, !.status = "open", !.creator = creator,
                        !.named = named, !.invitation = invitation] \in Game
<1>1. "open" \in Status /\ creator \in Keys \cup {None}
  BY DEF Status
<1> QED
  BY <1>1 DEF Game

LEMMA NewGameInv ==
    ASSUME TypeOK, NEW k \in Keys, NEW t \in Times, NEW color \in Sides,
           NEW invitation \in Invitations, NEW named \in BOOLEAN, Next1 \in Ids
    PROVE  GameInv(Next1, NewGame(k, t, color, invitation, named), Next1)
<1> DEFINE new == NewGame(k, t, color, invitation, named)
           seated == SeatAt(k, t, Next1)
<1>1. seated \in Seat /\ seated.actor = k /\ EmptySeat \in Seat
  BY ResolvedType DEF SeatAt, Seat, EmptySeat
<1>2. new.seat = [[s \in Sides |-> EmptySeat] EXCEPT ![color] = seated]
  BY DEF NewGame, WithSeat, NoGame
<1>3. new.seat \in [Sides -> Seat] /\ new.seat[color] = seated
      /\ new.seat[Other(color)] = EmptySeat
  BY <1>1, <1>2, SideFacts
<1>4. new = [NoGame EXCEPT !.seat = new.seat, !.status = "open", !.creator = k,
                           !.named = named, !.invitation = invitation]
  BY <1>2 DEF NewGame, WithSeat, NoGame
<1>5. new \in Game
  <2> DEFINE seats == new.seat
  <2>1. seats \in [Sides -> Seat]
    BY <1>3
  <2> HIDE DEF seats
  <2>2. [NoGame EXCEPT !.seat = seats, !.status = "open", !.creator = k,
                       !.named = named, !.invitation = invitation] \in Game
    BY <2>1, NoGameType, OpenedGameType
  <2> QED
    BY <1>4, <2>2 DEF seats
<1>6. /\ new.status = "open" /\ new.creator = k /\ new.join = 0 /\ new.lastMove = 0
      /\ new.drawOffer = 0 /\ new.offeredBy = None
      /\ new.outcome = "none" /\ new.method = "none" /\ new.moves = 0
  BY DEF NewGame, WithSeat, NoGame
<1>7. /\ \A s \in Sides : s = color \/ s = Other(color)
      /\ k # None /\ EmptySeat.actor = None /\ EmptySeat.identity = None
  BY NoneAssumption DEF Sides, Other, EmptySeat
<1> HIDE DEF new, seated
<1>8. GameOrder(Next1, new, Next1)
  BY <1>1, <1>3, <1>6, <1>7, SideFacts, BoundsAssumption DEF GameOrder, Sides, Ids
<1>9. DistinctIdentities(new) /\ FreshOffer(new)
  BY <1>3, <1>6, <1>7 DEF DistinctIdentities, FreshOffer, Sides, Other
<1> QED
  BY <1>5, <1>8, <1>9 DEF GameInv, new

\* A key that may act for a side holds its seat, without collision.
LEMMA SeatSideHolds ==
    ASSUME NEW game, NEW k, NEW who, NEW s \in Sides, SeatSide(game, k, who) = s
    PROVE  HoldsSeat(game, s, k, who) /\ ~SeatCollision(game, k, who)
BY NoneAssumption DEF SeatSide, Sides

\* Committing an accepted act keeps the invariant and everything but one
\* seat's identity: the collision check is what keeps identities distinct.
LEMMA CommittedInv ==
    ASSUME NEW g \in Ids, NEW game, NEW last \in Nat, GameInv(g, game, last),
           NEW k, NEW who \in Identities \cup {None}, NEW s \in Sides,
           SeatSide(game, k, who) = s
    PROVE  LET new == Committed(game, s, who)
           IN  /\ GameInv(g, new, last)
               /\ SeatsKept(game, new)
               /\ \E seat \in [Sides -> Seat] : new = [game EXCEPT !.seat = seat]
<1> DEFINE new == Committed(game, s, who)
<1>1. CASE ~(game.seat[s].identity = None /\ who # None)
  <2>1. new = game
    BY <1>1 DEF Committed
  <2>2. game.seat \in [Sides -> Seat] /\ game = [game EXCEPT !.seat = game.seat]
    BY DEF GameInv, Game
  <2> QED
    BY <2>1, <2>2 DEF SeatsKept
<1>2. CASE game.seat[s].identity = None /\ who # None
  <2> DEFINE owner == [actor |-> game.seat[s].actor, identity |-> who]
             seat == [game.seat EXCEPT ![s] = owner]
  <2>1. game \in Game /\ game.seat \in [Sides -> Seat]
    BY DEF GameInv, Game
  <2>2. owner \in Seat
    BY <2>1 DEF Seat
  <2>3. new = [game EXCEPT !.seat = seat]
    BY <1>2 DEF Committed, WithSeat
  <2>4. /\ seat \in [Sides -> Seat] /\ seat[s] = owner
        /\ seat[Other(s)] = game.seat[Other(s)]
        /\ \A x \in Sides : x = s \/ x = Other(s)
        /\ \A x \in Sides : seat[x].actor = game.seat[x].actor
    BY <2>1, <2>2, SideFacts DEF Sides, Other
  <2>5. HoldsSeat(game, s, k, who) /\ ~SeatCollision(game, k, who)
    BY SeatSideHolds
  <2>6. game.seat[s].actor # None /\ game.seat[Other(s)].identity # who
    BY <1>2, <2>5 DEF HoldsSeat, SeatCollision, Collides, Matches
  <2> HIDE DEF owner, seat
  <2>7. new \in Game /\ new.seat = seat
    BY <2>1, <2>3, <2>4 DEF Game
  <2>8. /\ new.status = game.status /\ new.creator = game.creator
        /\ new.join = game.join /\ new.lastMove = game.lastMove
        /\ new.moves = game.moves /\ new.turn = game.turn
        /\ new.outcome = game.outcome /\ new.method = game.method
        /\ new.drawOffer = game.drawOffer /\ new.offeredBy = game.offeredBy
    BY <2>1, <2>3 DEF Game
  <2>9. game.status # "absent"
    BY <2>6 DEF GameInv, GameOrder, NoGame, EmptySeat
  <2> HIDE DEF new
  <2>10. GameOrder(g, new, last)
    <3>1. \A x \in Sides : game.seat[x] = EmptySeat => seat[x] = EmptySeat
      BY <2>4, <2>6 DEF EmptySeat
    <3>2. \A x \in Sides : seat[x].actor = None => seat[x] = EmptySeat
      BY <2>4, <2>6, <3>1 DEF GameInv, GameOrder
    <3> QED
      BY <2>4, <2>7, <2>8, <2>9, <3>1, <3>2 DEF GameInv, GameOrder, Sides
  <2>11. DistinctIdentities(new) /\ FreshOffer(new)
    <3>1. owner.identity = who
      BY DEF owner
    <3>2. FreshOffer(new)
      BY <2>8 DEF GameInv, FreshOffer
    <3> QED
      BY <1>2, <2>4, <2>6, <2>7, <3>1, <3>2 DEF DistinctIdentities, Sides, Other
  <2>12. SeatsKept(game, new)
    BY <1>2, <2>4, <2>7 DEF SeatsKept
  <2> QED
    BY <2>3, <2>4, <2>7, <2>10, <2>11, <2>12 DEF GameInv, new
<1> QED
  BY <1>1, <1>2

LEMMA NameInv ==
    ASSUME NEW g \in Ids, GameInv(g, games[g], depth), games[g].status # "absent"
    PROVE  GameInv(g, [games[g] EXCEPT !.named = TRUE], depth)
BY DEF GameInv, GameOrder, DistinctIdentities, FreshOffer, Game

LEMMA JoinInv ==
    ASSUME TypeOK, NEW k \in Keys, NEW t \in Times, NEW g \in Ids, NEW rests,
           NEW knowsSecret, Next1 \in Ids, GameInv(g, games[g], depth),
           JoinAllowed(k, t, g, rests, knowsSecret)
    PROVE  GameInv(g, Joined(k, t, g), Next1) /\ SeatsKept(games[g], Joined(k, t, g))
<1> DEFINE game == games[g]
           new == Joined(k, t, g)
           side == FreeSide(game)
           seated == SeatAt(k, t, g)
           seat == [game.seat EXCEPT ![side] = seated]
           who == Resolved(k, t, g)
<1>1. /\ game \in Game /\ game.seat \in [Sides -> Seat]
      /\ depth \in Nat /\ Next1 = depth + 1
      /\ who \in Identities \cup {None} /\ k # None
  BY ResolvedType, NoneAssumption DEF GameInv, Game, TypeOK, Next1
<1>2. /\ game.status # "absent" /\ game.join = 0 /\ k # game.creator
      /\ who = None \/ who # game.seat[Other(side)].identity
  BY DEF JoinAllowed
<1>3. /\ game.status = "open" /\ game.drawOffer = 0
      /\ game.outcome = "none" /\ game.method = "none" /\ game.offeredBy = None
  BY <1>1, <1>2 DEF GameInv, GameOrder, Game, Status
<1>4. /\ side \in Sides /\ Other(side) \in Sides /\ Other(side) # side
      /\ \A x \in Sides : x = side \/ x = Other(side)
  BY DEF FreeSide, Sides, Other
<1>5. seated \in Seat /\ seated.actor = k /\ seated.identity = who
  BY <1>1 DEF SeatAt, Seat
<1>6. /\ seat \in [Sides -> Seat] /\ seat[side] = seated
      /\ seat[Other(side)] = game.seat[Other(side)]
  BY <1>1, <1>4, <1>5
<1>7. new = [game EXCEPT !.seat = seat, !.join = Next1, !.lastMove = Next1,
                         !.status = "playing"]
  BY DEF Joined, WithSeat
<1> HIDE DEF side, seat, seated
<1>8a. new \in Game
  <2>1. Next1 \in IdOrNone /\ "playing" \in Status
    BY <1>1, BoundsAssumption DEF Ids, IdOrNone, Status
  <2> HIDE DEF game, new
  <2>2. game \in Game /\ new = [game EXCEPT !.seat = seat, !.join = Next1,
                                  !.lastMove = Next1, !.status = "playing"]
    BY <1>1, <1>7
  <2> QED
    BY <1>6, <2>1, <2>2 DEF Game
<1>8. new.seat = seat /\ new.status = "playing"
      /\ new.join = Next1 /\ new.lastMove = Next1 /\ new.moves = game.moves
      /\ new.creator = game.creator /\ new.drawOffer = 0 /\ new.offeredBy = None
      /\ new.outcome = "none" /\ new.method = "none"
  BY <1>1, <1>3, <1>6, <1>7 DEF Game
<1>9. /\ game.seat[side].actor = None
      /\ game.seat[Other(side)].actor = game.creator /\ game.creator # None
      /\ game.moves = 0
  <2>1. /\ game.seat["white"].actor # game.seat["black"].actor /\ game.moves = 0
        /\ \E x \in Sides : game.seat[x] = EmptySeat
        /\ \E x \in Sides : game.seat[x].actor = game.creator
        /\ game.creator # None
    BY <1>3 DEF GameInv, GameOrder
  <2> QED
    BY <2>1 DEF side, FreeSide, Sides, Other, EmptySeat
<1> HIDE DEF new, game, who
<1>10. GameOrder(g, new, Next1)
  <2>1. g <= depth /\ g < Next1 /\ g \in Nat /\ Next1 \in Nat
    BY <1>1, <1>3 DEF GameInv, GameOrder, game, Ids
  <2>2. /\ new.seat["white"].actor # None /\ new.seat["black"].actor # None
        /\ new.seat["white"].actor # new.seat["black"].actor
        /\ \E x \in Sides : new.seat[x].actor = new.creator
    BY <1>1, <1>2, <1>4, <1>5, <1>6, <1>8, <1>9 DEF Sides
  <2> QED
    BY <1>8, <1>9, <2>1, <2>2 DEF GameOrder, Sides
<1>11. DistinctIdentities(new)
  BY <1>2, <1>4, <1>5, <1>6, <1>8 DEF DistinctIdentities, Sides
<1>12. FreshOffer(new)
  BY <1>8 DEF FreshOffer
<1>13. SeatsKept(game, new)
  <2>1. game.seat[side] = EmptySeat
    BY <1>4, <1>9 DEF GameInv, GameOrder, game
  <2> QED
    BY <1>4, <1>6, <1>8, <2>1 DEF SeatsKept, EmptySeat
<1> QED
  BY <1>8a, <1>10, <1>11, <1>12, <1>13 DEF GameInv, new, game

\* The step every accepted act of a seated player starts from.
LEMMA ActorCommits ==
    ASSUME TypeOK, NEW k \in Keys, NEW t \in Times, NEW g \in Ids, NEW s \in Sides,
           GameInv(g, games[g], depth), Playing(g),
           SeatSide(games[g], k, Resolved(k, t, g)) = s, Next1 \in Ids
    PROVE  LET owned == Committed(games[g], s, Resolved(k, t, g))
           IN  /\ GameInv(g, owned, depth)
               /\ GameInv(g, owned, Next1)
               /\ SeatsKept(games[g], owned)
               /\ owned.status = "playing" /\ owned.turn = games[g].turn
               /\ owned.drawOffer = games[g].drawOffer
               /\ owned.offeredBy = games[g].offeredBy
<1> DEFINE owned == Committed(games[g], s, Resolved(k, t, g))
<1>1. depth \in Nat /\ Next1 \in Nat /\ depth <= Next1
  BY DEF TypeOK, Next1
<1>2. Resolved(k, t, g) \in Identities \cup {None}
  BY ResolvedType
<1>3. /\ GameInv(g, owned, depth) /\ SeatsKept(games[g], owned)
      /\ \E seat \in [Sides -> Seat] : owned = [games[g] EXCEPT !.seat = seat]
  BY <1>1, <1>2, CommittedInv
<1>4. /\ owned.status = games[g].status /\ owned.turn = games[g].turn
      /\ owned.drawOffer = games[g].drawOffer /\ owned.offeredBy = games[g].offeredBy
  BY <1>3 DEF GameInv, Game
<1> HIDE DEF owned
<1>5. GameInv(g, owned, Next1)
  BY <1>1, <1>3, GameInvLater
<1> QED
  BY <1>3, <1>4, <1>5 DEF owned, Playing

\* However a game ends, its chain and its seats stay what they were.
LEMMA FinishedInv ==
    ASSUME NEW g \in Ids, NEW game, NEW last \in Nat, GameInv(g, game, last),
           game.status = "playing",
           NEW method \in Method \ {"none"}, NEW outcome \in Outcome \ {"none"},
           method = "agreement" => game.drawOffer # 0
    PROVE  /\ GameInv(g, Finished(game, method, outcome), last)
           /\ Finished(game, method, outcome).seat = game.seat
<1> DEFINE new == Finished(game, method, outcome)
<1>1. game \in Game
  BY DEF GameInv
<1>2. new \in Game
  BY <1>1 DEF Finished, Game, Status
<1>3. /\ new.status = "finished" /\ new.method = method /\ new.outcome = outcome
      /\ new.creator = game.creator /\ new.seat = game.seat /\ new.join = game.join
      /\ new.lastMove = game.lastMove /\ new.moves = game.moves /\ new.turn = game.turn
      /\ new.drawOffer = game.drawOffer /\ new.offeredBy = game.offeredBy
  BY <1>1 DEF Finished, Game
<1> HIDE DEF new
<1>4. GameOrder(g, new, last)
  BY <1>3 DEF GameInv, GameOrder
<1>5. DistinctIdentities(new) /\ FreshOffer(new)
  BY <1>3 DEF GameInv, DistinctIdentities, FreshOffer
<1> QED
  BY <1>2, <1>3, <1>4, <1>5 DEF GameInv, new

LEMMA ResignInv ==
    ASSUME TypeOK, NEW k \in Keys, NEW t \in Times, NEW g \in Ids, NEW rests,
           Next1 \in Ids, GameInv(g, games[g], depth), ResignAllowed(k, t, g, rests)
    PROVE  GameInv(g, Resigned(k, t, g), Next1) /\ SeatsKept(games[g], Resigned(k, t, g))
<1> DEFINE s == SeatSide(games[g], k, Resolved(k, t, g))
           owned == Committed(games[g], s, Resolved(k, t, g))
<1>1. s \in Sides /\ Playing(g)
  BY SeatSideType DEF ResignAllowed
<1>2. GameInv(g, owned, Next1) /\ SeatsKept(games[g], owned) /\ owned.status = "playing"
  BY <1>1, ActorCommits
<1>3. WinFor(Other(s)) \in Outcome \ {"none"} /\ "resignation" \in Method \ {"none"}
  BY DEF WinFor, Outcome, Method
<1>4. Next1 \in Nat
  BY DEF Ids
<1>5. Resigned(k, t, g) = Finished(owned, "resignation", WinFor(Other(s)))
  BY DEF Resigned
<1> HIDE DEF s, owned
<1>6. /\ GameInv(g, Resigned(k, t, g), Next1)
      /\ Resigned(k, t, g).seat = owned.seat
  <2> DEFINE outcome == WinFor(Other(s))
  <2>1. outcome \in Outcome \ {"none"} /\ "resignation" # "agreement"
    BY <1>3
  <2> HIDE DEF outcome
  <2>2. /\ GameInv(g, Finished(owned, "resignation", outcome), Next1)
        /\ Finished(owned, "resignation", outcome).seat = owned.seat
    BY <1>2, <1>3, <1>4, <2>1, FinishedInv
  <2> QED
    BY <1>5, <2>2 DEF outcome
<1> QED
  BY <1>2, <1>6 DEF SeatsKept

LEMMA AcceptInv ==
    ASSUME TypeOK, NEW k \in Keys, NEW t \in Times, NEW g \in Ids, NEW rests, NEW offer,
           Next1 \in Ids, GameInv(g, games[g], depth),
           AcceptAllowed(k, t, g, rests, offer)
    PROVE  GameInv(g, Agreed(k, t, g), Next1) /\ SeatsKept(games[g], Agreed(k, t, g))
<1> DEFINE s == SeatSide(games[g], k, Resolved(k, t, g))
           owned == Committed(games[g], s, Resolved(k, t, g))
<1>1. s \in Sides /\ Playing(g) /\ games[g].drawOffer # 0
  BY SeatSideType DEF AcceptAllowed
<1>2. /\ GameInv(g, owned, Next1) /\ SeatsKept(games[g], owned)
      /\ owned.status = "playing" /\ owned.drawOffer # 0
  BY <1>1, ActorCommits
<1>3. "draw" \in Outcome \ {"none"} /\ "agreement" \in Method \ {"none"}
  BY DEF Outcome, Method
<1>4. Next1 \in Nat
  BY DEF Ids
<1>5. Agreed(k, t, g) = Finished(owned, "agreement", "draw")
  BY DEF Agreed
<1> HIDE DEF s, owned
<1>6. /\ GameInv(g, Finished(owned, "agreement", "draw"), Next1)
      /\ Finished(owned, "agreement", "draw").seat = owned.seat
  BY <1>2, <1>3, <1>4, FinishedInv
<1> QED
  BY <1>2, <1>5, <1>6 DEF SeatsKept

LEMMA OfferInv ==
    ASSUME TypeOK, NEW k \in Keys, NEW t \in Times, NEW g \in Ids, NEW rests,
           Next1 \in Ids, GameInv(g, games[g], depth), OfferAllowed(k, t, g, rests)
    PROVE  GameInv(g, Offered(k, t, g), Next1) /\ SeatsKept(games[g], Offered(k, t, g))
<1> DEFINE s == SeatSide(games[g], k, Resolved(k, t, g))
           owned == Committed(games[g], s, Resolved(k, t, g))
           new == Offered(k, t, g)
<1>1. s \in Sides /\ s # None /\ Playing(g)
  BY SeatSideType DEF OfferAllowed
<1>2. GameInv(g, owned, depth) /\ SeatsKept(games[g], owned) /\ owned.status = "playing"
  BY <1>1, ActorCommits
<1>3. Next1 = depth + 1 /\ depth \in Nat /\ Next1 \in IdOrNone /\ Next1 # 0
  BY DEF TypeOK, Next1, Ids, IdOrNone
<1>4. new = [owned EXCEPT !.drawOffer = Next1, !.offeredBy = s]
  BY DEF Offered
<1>5. owned \in Game
  BY <1>2 DEF GameInv
<1> HIDE DEF s, owned, new
<1>6. new \in Game
  BY <1>1, <1>3, <1>4, <1>5 DEF Game
<1>7. /\ new.drawOffer = Next1 /\ new.offeredBy = s
      /\ new.status = "playing" /\ new.method = owned.method /\ new.outcome = owned.outcome
      /\ new.creator = owned.creator /\ new.seat = owned.seat /\ new.join = owned.join
      /\ new.lastMove = owned.lastMove /\ new.moves = owned.moves
  BY <1>2, <1>4, <1>5 DEF Game
<1>8. /\ owned.join \in Nat /\ owned.lastMove \in Nat /\ owned.moves \in Nat /\ g \in Nat
      /\ owned.join # 0 /\ owned.join <= depth /\ owned.lastMove <= depth
      /\ owned.method = "none"
  BY <1>2, <1>3, <1>5 DEF GameInv, GameOrder, Game, IdOrNone, Ids
<1>9. GameOrder(g, new, Next1)
  BY <1>1, <1>2, <1>3, <1>7, <1>8 DEF GameInv, GameOrder
<1>10. DistinctIdentities(new) /\ FreshOffer(new)
  BY <1>2, <1>3, <1>7, <1>8 DEF GameInv, DistinctIdentities, FreshOffer
<1> QED
  BY <1>2, <1>6, <1>7, <1>9, <1>10 DEF GameInv, SeatsKept, new

LEMMA MoveInv ==
    ASSUME TypeOK, NEW k \in Keys, NEW t \in Times, NEW g \in Ids, NEW rests,
           NEW result \in MoveResults, Next1 \in Ids, GameInv(g, games[g], depth),
           MoveAllowed(k, t, g, rests, result)
    PROVE  /\ GameInv(g, Moved(k, t, g, result), Next1)
           /\ SeatsKept(games[g], Moved(k, t, g, result))
<1> DEFINE s == games[g].turn
           owned == Committed(games[g], s, Resolved(k, t, g))
           answered == WithoutDeclinedOffer(owned, s)
           moved == [answered EXCEPT !.lastMove = Next1, !.moves = @ + 1,
                                     !.turn = Other(s)]
<1>1. s \in Sides /\ Playing(g) /\ SeatSide(games[g], k, Resolved(k, t, g)) = s
  BY DEF MoveAllowed, GameInv, Game
<1>2. /\ GameInv(g, owned, depth) /\ SeatsKept(games[g], owned)
      /\ owned.status = "playing" /\ owned \in Game
  BY <1>1, ActorCommits DEF GameInv
<1>3. Next1 = depth + 1 /\ depth \in Nat /\ Next1 \in IdOrNone /\ Next1 # 0
  BY DEF TypeOK, Next1, Ids, IdOrNone
<1>4. Moved(k, t, g, result) = Refreshed(moved, s, result)
  BY DEF Moved
<1>5. Other(s) \in Sides /\ Other(s) # s /\ \A x \in Sides : x # s => Other(s) = x
  BY <1>1 DEF Sides, Other
<1> HIDE DEF s, owned
<1>6. /\ answered \in Game
      /\ \/ answered.drawOffer = 0 /\ answered.offeredBy = None
         \/ /\ answered.drawOffer = owned.drawOffer /\ owned.drawOffer # 0
            /\ answered.offeredBy = s /\ owned.offeredBy = s
      /\ answered.status = "playing" /\ answered.method = owned.method
      /\ answered.outcome = owned.outcome /\ answered.creator = owned.creator
      /\ answered.seat = owned.seat /\ answered.join = owned.join
      /\ answered.lastMove = owned.lastMove /\ answered.moves = owned.moves
  <2>1. CASE owned.drawOffer # 0 /\ s # owned.offeredBy
    <3>1. 0 \in IdOrNone
      BY BoundsAssumption DEF IdOrNone
    <3>2. answered = [owned EXCEPT !.drawOffer = 0, !.offeredBy = None]
      BY <2>1 DEF WithoutDeclinedOffer
    <3>3. answered \in Game
      BY <1>2, <3>1, <3>2 DEF Game
    <3> QED
      BY <1>2, <3>2, <3>3 DEF Game
  <2>2. CASE owned.drawOffer = 0
    BY <1>2, <2>2 DEF WithoutDeclinedOffer, GameInv, GameOrder
  <2>3. CASE owned.drawOffer # 0 /\ s = owned.offeredBy
    BY <1>2, <2>3 DEF WithoutDeclinedOffer
  <2> QED
    BY <2>1, <2>2, <2>3
<1> HIDE DEF answered
<1>7a. moved \in Game
  <2>1. answered.moves + 1 \in Nat
    BY <1>6 DEF Game
  <2> QED
    BY <1>3, <1>5, <1>6, <2>1 DEF Game
<1>7. /\ moved.lastMove = Next1 /\ moved.moves = owned.moves + 1
      /\ moved.turn = Other(s) /\ moved.status = "playing"
      /\ moved.method = owned.method /\ moved.outcome = owned.outcome
      /\ moved.creator = owned.creator /\ moved.seat = owned.seat
      /\ moved.join = owned.join
      /\ moved.drawOffer = answered.drawOffer /\ moved.offeredBy = answered.offeredBy
  BY <1>6 DEF Game
<1>8. /\ owned.join \in Nat /\ owned.lastMove \in Nat /\ owned.moves \in Nat /\ g \in Nat
      /\ owned.drawOffer \in Nat
      /\ owned.join # 0 /\ owned.join <= depth /\ owned.lastMove <= depth
      /\ owned.join + owned.moves <= owned.lastMove
      /\ owned.drawOffer <= depth /\ owned.method = "none"
  BY <1>2, <1>3 DEF GameInv, GameOrder, Game, IdOrNone, Ids
<1> HIDE DEF moved
<1>9. GameOrder(g, moved, Next1)
  <2>1. moved.join + moved.moves <= moved.lastMove
    BY <1>3, <1>7, <1>8
  <2>2. /\ moved.drawOffer # 0 => moved.join < moved.drawOffer
        /\ moved.drawOffer <= Next1
        /\ moved.drawOffer = 0 <=> moved.offeredBy = None
    BY <1>1, <1>2, <1>3, <1>6, <1>7, <1>8, NoneAssumption DEF GameInv, GameOrder
  <2>3. moved.lastMove <= Next1 /\ g <= Next1
    BY <1>2, <1>3, <1>7, <1>8 DEF GameInv, GameOrder
  <2> QED
    BY <1>2, <1>7, <1>8, <2>1, <2>2, <2>3 DEF GameInv, GameOrder
<1>10. DistinctIdentities(moved)
  BY <1>2, <1>7 DEF GameInv, DistinctIdentities
<1>11. FreshOffer(moved)
  BY <1>6, <1>7, <1>8 DEF FreshOffer
<1>12. GameInv(g, moved, Next1) /\ SeatsKept(games[g], moved)
  BY <1>2, <1>7a, <1>7, <1>9, <1>10, <1>11 DEF GameInv, SeatsKept
<1>13. CASE result = "quiet"
  BY <1>4, <1>12, <1>13 DEF Refreshed
<1>14. CASE result # "quiet"
  <2> DEFINE outcome == IF result = "wins" THEN WinFor(s) ELSE "draw"
  <2>1. Moved(k, t, g, result) = Finished(moved, "engine", outcome)
    BY <1>4, <1>14 DEF Refreshed
  <2>2. outcome \in Outcome \ {"none"} /\ "engine" \in Method \ {"none"}
    BY DEF WinFor, Outcome, Method
  <2> HIDE DEF outcome
  <2> QED
    <3>1. /\ GameInv(g, Finished(moved, "engine", outcome), Next1)
          /\ Finished(moved, "engine", outcome).seat = moved.seat
      BY <1>3, <1>7, <1>12, <2>2, FinishedInv
    <3> QED
      BY <1>12, <2>1, <3>1 DEF SeatsKept
<1> QED
  BY <1>13, <1>14

-----------------------------------------------------------------------------
(* The steps.                                                              *)

\* The records after its creation that a game's state rests on.
Citations(game) == {game.join, game.lastMove, game.drawOffer}

CitesOnlyNew(old, new) == Citations(new) \subseteq Citations(old) \cup {0, Next1}

\* What an effective record may do to the game it names.
Continues(old, new) ==
    /\ SeatsKept(old, new)
    /\ old.status = "finished" => new = [old EXCEPT !.named = new.named]
    /\ CitesOnlyNew(old, new)

\* A record that has force changes one game, and that one lawfully.
LawfulEffect ==
    \E g \in Ids, new \in Game :
        /\ Effective(g, new)
        /\ GameInv(g, new, Next1)
        /\ Continues(games[g], new)
        /\ games[g].status # "absent" \/ g = Next1

\* Every step folds one record: it is refused, belongs to the identity fold,
\* or has a lawful effect.
FoldsOne ==
    \/ Refuse
    \/ \E t \in Times, k \in Keys, anchor \in StandingAnchors : IdentityRecord(t, k, anchor)
    \/ LawfulEffect

\* A seat that passes to an identity cites nothing new.
LEMMA CommittedCites ==
    ASSUME NEW game \in Game, NEW s, NEW who
    PROVE  LET new == Committed(game, s, who)
           IN  /\ DOMAIN new = DOMAIN game
               /\ new.join = game.join /\ new.lastMove = game.lastMove
               /\ new.drawOffer = game.drawOffer
BY DEF Committed, WithSeat, Game

LEMMA JoinedCites ==
    ASSUME NEW g \in Ids, games[g] \in Game, NEW k, NEW t
    PROVE  CitesOnlyNew(games[g], Joined(k, t, g))
BY DEF CitesOnlyNew, Citations, Joined, WithSeat, Game

LEMMA MovedCites ==
    ASSUME NEW g \in Ids, games[g] \in Game, NEW k, NEW t, NEW result
    PROVE  CitesOnlyNew(games[g], Moved(k, t, g, result))
<1> DEFINE side  == games[g].turn
           owned == Committed(games[g], side, Resolved(k, t, g))
           open  == WithoutDeclinedOffer(owned, side)
           moved == [open EXCEPT !.lastMove = Next1, !.moves = @ + 1, !.turn = Other(side)]
<1>1. /\ DOMAIN owned = DOMAIN games[g]
      /\ owned.join = games[g].join /\ owned.drawOffer = games[g].drawOffer
  BY CommittedCites
<1>2. DOMAIN games[g] = {"status", "creator", "named", "invitation", "seat", "join", "lastMove",
                         "moves", "turn", "outcome", "method", "drawOffer", "offeredBy"}
  BY DEF Game
<1> HIDE DEF owned
<1>3. /\ DOMAIN open = DOMAIN games[g] /\ open.join = games[g].join
      /\ open.drawOffer \in {0, games[g].drawOffer}
  BY <1>1, <1>2 DEF WithoutDeclinedOffer
<1> HIDE DEF open
<1>4. /\ moved.join = games[g].join /\ moved.lastMove = Next1
      /\ moved.drawOffer \in {0, games[g].drawOffer}
      /\ DOMAIN moved = DOMAIN games[g]
  BY <1>2, <1>3
<1>5. Moved(k, t, g, result) = Refreshed(moved, side, result)
  BY DEF Moved, owned, open
<1> HIDE DEF moved
<1>6. /\ Refreshed(moved, side, result).join = moved.join
      /\ Refreshed(moved, side, result).lastMove = moved.lastMove
      /\ Refreshed(moved, side, result).drawOffer = moved.drawOffer
  BY <1>2, <1>4 DEF Refreshed, Finished
<1> QED
  BY <1>4, <1>5, <1>6 DEF CitesOnlyNew, Citations

LEMMA ResignedCites ==
    ASSUME NEW g \in Ids, games[g] \in Game, NEW k, NEW t
    PROVE  CitesOnlyNew(games[g], Resigned(k, t, g))
BY CommittedCites DEF CitesOnlyNew, Citations, Resigned, Finished, Game

LEMMA OfferedCites ==
    ASSUME NEW g \in Ids, games[g] \in Game, NEW k, NEW t
    PROVE  CitesOnlyNew(games[g], Offered(k, t, g))
BY CommittedCites DEF CitesOnlyNew, Citations, Offered, Game

LEMMA AgreedCites ==
    ASSUME NEW g \in Ids, games[g] \in Game, NEW k, NEW t
    PROVE  CitesOnlyNew(games[g], Agreed(k, t, g))
BY CommittedCites DEF CitesOnlyNew, Citations, Agreed, Finished, Game

LEMMA NewGameLawful ==
    ASSUME IInv, NEW k \in Keys, NEW t \in Times, NEW color, NEW rests,
           NEW invitation, NEW named \in BOOLEAN, Appended(t),
           FoldNewGame(k, t, color, rests, invitation, named)
    PROVE  Refuse \/ LawfulEffect
<1>1. Next1 \in Ids /\ Next1 > depth /\ depth \in Nat /\ TypeOK
  BY AppendedFacts DEF IInv, TypeOK
<1>2. CASE Refuse
  BY <1>2
<1>3. CASE /\ color \in Sides /\ invitation \in Invitations
           /\ Effective(Next1, NewGame(k, t, color, invitation, named))
  <2> DEFINE new == NewGame(k, t, color, invitation, named)
  <2>1. GameInv(Next1, new, Next1)
    BY <1>1, <1>3, NewGameInv
  <2>2. games[Next1] = NoGame
    BY <1>1 DEF IInv, GameInv, GameOrder, Ids
  <2>3. SeatsKept(games[Next1], new) /\ games[Next1].status = "absent"
    BY <2>2 DEF SeatsKept, NoGame, EmptySeat
  <2>4. new.join = 0 /\ new.lastMove = 0 /\ new.drawOffer = 0
    BY DEF NewGame, WithSeat, NoGame
  <2>5. Continues(games[Next1], new)
    BY <2>3, <2>4 DEF Continues, CitesOnlyNew, Citations
  <2> HIDE DEF new
  <2> QED
    BY <1>1, <1>3, <2>1, <2>5 DEF LawfulEffect, GameInv, new
<1> QED
  BY <1>2, <1>3 DEF FoldNewGame

LEMMA CreateLawful ==
    ASSUME IInv, NEW k \in Keys, NEW t \in Times, CreateStep(k, t)
    PROVE  Refuse \/ LawfulEffect
BY NewGameLawful DEF CreateStep, FoldCreate, FoldCreateNamed

LEMMA PlayingContinues ==
    ASSUME NEW old, NEW new, old.status # "finished", SeatsKept(old, new),
           CitesOnlyNew(old, new)
    PROVE  Continues(old, new)
BY DEF Continues

LEMMA NameLawful ==
    ASSUME IInv, NEW k \in Keys, NEW t \in Times, NEW g \in Ids, NEW rests,
           NEW validName, FoldName(k, t, g, rests, validName)
    PROVE  Refuse \/ LawfulEffect
<1> DEFINE new == [games[g] EXCEPT !.named = TRUE]
<1>1. Next1 \in Ids /\ depth <= Next1 /\ depth \in Nat /\ Next1 \in Nat
  BY AppendedFacts DEF IInv, TypeOK, FoldName, Ids
<1>2. CASE Refuse
  BY <1>2
<1>3. CASE NameAllowed(k, g, rests, validName) /\ Effective(g, new)
  <2>1. GameInv(g, games[g], depth) /\ games[g].status # "absent" /\ games[g] \in Game
    BY <1>3 DEF IInv, NameAllowed, GameInv
  <2>2. GameInv(g, new, Next1)
    BY <1>1, <2>1, NameInv, GameInvLater
  <2>3. Continues(games[g], new)
    BY <2>1 DEF Continues, CitesOnlyNew, Citations, SeatsKept, Game
  <2> HIDE DEF new
  <2> QED
    BY <1>3, <2>1, <2>2, <2>3 DEF LawfulEffect, GameInv
<1> QED
  BY <1>2, <1>3 DEF FoldName

LEMMA JoinLawful ==
    ASSUME IInv, NEW k \in Keys, NEW t \in Times, NEW g \in Ids, NEW rests,
           NEW knowsSecret, FoldJoin(k, t, g, rests, knowsSecret)
    PROVE  Refuse \/ LawfulEffect
<1>1. Next1 \in Ids /\ TypeOK /\ GameInv(g, games[g], depth)
  BY AppendedFacts DEF IInv, FoldJoin
<1>2. CASE Refuse
  BY <1>2
<1>3. CASE JoinAllowed(k, t, g, rests, knowsSecret) /\ Effective(g, Joined(k, t, g))
  <2>1. GameInv(g, Joined(k, t, g), Next1) /\ SeatsKept(games[g], Joined(k, t, g))
    BY <1>1, <1>3, JoinInv
  <2>2. games[g].status \notin {"finished", "absent"}
    BY <1>1, <1>3 DEF JoinAllowed, GameInv, GameOrder
  <2>3. CitesOnlyNew(games[g], Joined(k, t, g))
    BY <1>1, <1>3, JoinedCites DEF GameInv
  <2> QED
    BY <1>3, <2>1, <2>2, <2>3, PlayingContinues DEF LawfulEffect, GameInv
<1> QED
  BY <1>2, <1>3 DEF FoldJoin

LEMMA MoveLawful ==
    ASSUME IInv, NEW k \in Keys, NEW t \in Times, NEW g \in Ids, NEW rests,
           NEW result \in MoveResults, FoldMove(k, t, g, rests, result)
    PROVE  Refuse \/ LawfulEffect
<1>1. Next1 \in Ids /\ TypeOK /\ GameInv(g, games[g], depth)
  BY AppendedFacts DEF IInv, FoldMove
<1>2. CASE Refuse
  BY <1>2
<1>3. CASE MoveAllowed(k, t, g, rests, result) /\ Effective(g, Moved(k, t, g, result))
  <2>1. /\ GameInv(g, Moved(k, t, g, result), Next1)
        /\ SeatsKept(games[g], Moved(k, t, g, result))
    BY <1>1, <1>3, MoveInv
  <2>2. games[g].status \notin {"finished", "absent"}
    BY <1>3 DEF MoveAllowed, Playing
  <2>3. CitesOnlyNew(games[g], Moved(k, t, g, result))
    BY <1>1, <1>3, MovedCites DEF GameInv, MoveAllowed
  <2> QED
    BY <1>3, <2>1, <2>2, <2>3, PlayingContinues DEF LawfulEffect, GameInv
<1> QED
  BY <1>2, <1>3 DEF FoldMove

LEMMA ResignLawful ==
    ASSUME IInv, NEW k \in Keys, NEW t \in Times, NEW g \in Ids, NEW rests,
           FoldResign(k, t, g, rests)
    PROVE  Refuse \/ LawfulEffect
<1>1. Next1 \in Ids /\ TypeOK /\ GameInv(g, games[g], depth)
  BY AppendedFacts DEF IInv, FoldResign
<1>2. CASE Refuse
  BY <1>2
<1>3. CASE ResignAllowed(k, t, g, rests) /\ Effective(g, Resigned(k, t, g))
  <2>1. GameInv(g, Resigned(k, t, g), Next1) /\ SeatsKept(games[g], Resigned(k, t, g))
    BY <1>1, <1>3, ResignInv
  <2>2. games[g].status \notin {"finished", "absent"}
    BY <1>3 DEF ResignAllowed, Playing
  <2>3. CitesOnlyNew(games[g], Resigned(k, t, g))
    BY <1>1, <1>3, ResignedCites DEF GameInv
  <2> QED
    BY <1>3, <2>1, <2>2, <2>3, PlayingContinues DEF LawfulEffect, GameInv
<1> QED
  BY <1>2, <1>3 DEF FoldResign

LEMMA OfferLawful ==
    ASSUME IInv, NEW k \in Keys, NEW t \in Times, NEW g \in Ids, NEW rests,
           FoldDrawOffer(k, t, g, rests)
    PROVE  Refuse \/ LawfulEffect
<1>1. Next1 \in Ids /\ TypeOK /\ GameInv(g, games[g], depth)
  BY AppendedFacts DEF IInv, FoldDrawOffer
<1>2. CASE Refuse
  BY <1>2
<1>3. CASE OfferAllowed(k, t, g, rests) /\ Effective(g, Offered(k, t, g))
  <2>1. GameInv(g, Offered(k, t, g), Next1) /\ SeatsKept(games[g], Offered(k, t, g))
    BY <1>1, <1>3, OfferInv
  <2>2. games[g].status \notin {"finished", "absent"}
    BY <1>3 DEF OfferAllowed, Playing
  <2>3. CitesOnlyNew(games[g], Offered(k, t, g))
    BY <1>1, <1>3, OfferedCites DEF GameInv
  <2> QED
    BY <1>3, <2>1, <2>2, <2>3, PlayingContinues DEF LawfulEffect, GameInv
<1> QED
  BY <1>2, <1>3 DEF FoldDrawOffer

LEMMA AcceptLawful ==
    ASSUME IInv, NEW k \in Keys, NEW t \in Times, NEW g \in Ids, NEW rests, NEW offer,
           FoldDrawAccept(k, t, g, rests, offer)
    PROVE  Refuse \/ LawfulEffect
<1>1. Next1 \in Ids /\ TypeOK /\ GameInv(g, games[g], depth)
  BY AppendedFacts DEF IInv, FoldDrawAccept
<1>2. CASE Refuse
  BY <1>2
<1>3. CASE AcceptAllowed(k, t, g, rests, offer) /\ Effective(g, Agreed(k, t, g))
  <2>1. GameInv(g, Agreed(k, t, g), Next1) /\ SeatsKept(games[g], Agreed(k, t, g))
    BY <1>1, <1>3, AcceptInv
  <2>2. games[g].status \notin {"finished", "absent"}
    BY <1>3 DEF AcceptAllowed, Playing
  <2>3. CitesOnlyNew(games[g], Agreed(k, t, g))
    BY <1>1, <1>3, AgreedCites DEF GameInv
  <2> QED
    BY <1>3, <2>1, <2>2, <2>3, PlayingContinues DEF LawfulEffect, GameInv
<1> QED
  BY <1>2, <1>3 DEF FoldDrawAccept

\* One step of the log, whatever the record.
LEMMA NextFoldsOne ==
    ASSUME IInv, Next
    PROVE  FoldsOne /\ \E t \in Times : Appended(t)
<1> PICK t \in Times :
        \/ FoldUndecodable(t)
        \/ \E k \in Keys :
              \/ \E anchor \in StandingAnchors : IdentityRecord(t, k, anchor)
              \/ CreateStep(k, t)
              \/ \E g \in Nameable : \E rests \in Citable(g) : GameStep(k, t, g, rests)
  BY DEF Next
<1>1. CASE FoldUndecodable(t)
  BY <1>1 DEF FoldUndecodable, FoldsOne
<1>2. ASSUME NEW k \in Keys, NEW anchor \in StandingAnchors, IdentityRecord(t, k, anchor)
      PROVE  FoldsOne /\ \E u \in Times : Appended(u)
  BY <1>2 DEF IdentityRecord, FoldsOne
<1>3. ASSUME NEW k \in Keys, CreateStep(k, t)
      PROVE  FoldsOne /\ \E u \in Times : Appended(u)
  <2>1. Appended(t)
    BY <1>3 DEF CreateStep, FoldCreate, FoldCreateNamed
  <2> QED
    BY <1>3, <2>1, CreateLawful DEF FoldsOne
<1>4. ASSUME NEW k \in Keys, NEW g \in Nameable, NEW rests \in Citable(g),
             GameStep(k, t, g, rests)
      PROVE  FoldsOne /\ \E u \in Times : Appended(u)
  <2>1. Appended(t)
    BY <1>4 DEF GameStep, FoldName, FoldJoin, FoldMove, FoldResign, FoldDrawOffer, FoldDrawAccept
  <2>2. g \in Ids
    BY DEF Nameable
  <2>3. Refuse \/ LawfulEffect
    BY <1>4, <2>2, NameLawful, JoinLawful, MoveLawful, ResignLawful, OfferLawful, AcceptLawful
       DEF GameStep
  <2> QED
    BY <2>1, <2>3 DEF FoldsOne
<1> QED
  BY <1>1, <1>2, <1>3, <1>4 DEF FoldUndecodable

-----------------------------------------------------------------------------
(* The invariant is inductive.                                             *)

LEMMA StandingType ==
    ASSUME standing \in [Keys -> Anchors], NEW k \in Keys, NEW anchor \in StandingAnchors
    PROVE  [standing EXCEPT ![k] = anchor] \in [Keys -> Anchors]
<1>1. 0 \in IdOrNone /\ 0 \in Times
  BY BoundsAssumption DEF IdOrNone, Times
<1>2. anchor \in Anchors
  BY <1>1, ScopesAssumption DEF StandingAnchors, NoAnchor, Anchors
<1> QED
  BY <1>2

\* The refusal tail: one more entry, never more than maxRefusals of them.
LEMMA RefuseType ==
    ASSUME TypeOK, Refuse, Next1 \in Ids
    PROVE  refused' \in Seq(Ids) /\ Len(refused') <= MaxRefusals /\ refusedTotal' \in Nat
<1>1. /\ refused \in Seq(Ids) /\ Len(refused) <= MaxRefusals /\ Len(refused) \in Nat
      /\ refusedTotal \in Nat /\ MaxRefusals \in Nat \ {0}
  BY BoundsAssumption DEF TypeOK
<1>2. refusedTotal' \in Nat
  BY <1>1 DEF Refuse
<1>3. CASE Len(refused) = MaxRefusals
  <2>1. refused # <<>>
    BY <1>1, <1>3
  <2>2. Tail(refused) \in Seq(Ids) /\ Len(Tail(refused)) = Len(refused) - 1
    BY <1>1, <2>1
  <2>3. refused' = Append(Tail(refused), Next1)
    BY <1>3 DEF Refuse
  <2> QED
    BY <1>1, <1>2, <1>3, <2>2, <2>3
<1>4. CASE Len(refused) # MaxRefusals
  <2>1. refused' = Append(refused, Next1)
    BY <1>4 DEF Refuse
  <2> QED
    BY <1>1, <1>2, <1>4, <2>1
<1> QED
  BY <1>3, <1>4

LEMMA InitInv == Init => IInv
<1> SUFFICES ASSUME Init PROVE IInv
  OBVIOUS
<1>1. 0 \in IdOrNone /\ 0 \in Times /\ 0 \in 0..MaxRecords
  BY BoundsAssumption DEF IdOrNone, Times
<1>2. standing \in [Keys -> Anchors]
  BY <1>1 DEF Init, NoAnchor, Anchors
<1>3. games \in [Ids -> Game] /\ \A g \in Ids : games[g] = NoGame
  BY NoGameType DEF Init
<1>4. refused \in Seq(Ids) /\ Len(refused) = 0 /\ refusedTotal = 0
  BY DEF Init
<1>5. TypeOK
  BY <1>1, <1>2, <1>3, <1>4, BoundsAssumption DEF Init, TypeOK
<1>6. \A g \in Ids : GameInv(g, games[g], depth)
  BY <1>1, <1>3, NoGameInv DEF Init
<1> QED
  BY <1>5, <1>6 DEF IInv

LEMMA NextInv == IInv /\ [Next]_vars => IInv'
<1> SUFFICES ASSUME IInv, [Next]_vars PROVE IInv'
  OBVIOUS
<1>1. CASE UNCHANGED vars
  <2>1. TypeOK'
    BY <1>1 DEF IInv, TypeOK, vars
  <2>2. \A g \in Ids : GameInv(g, games[g], depth)'
    BY <1>1 DEF IInv, GameInv, GameOrder, DistinctIdentities, FreshOffer, vars
  <2> QED
    BY <2>1, <2>2 DEF IInv
<1>2. CASE Next
  <2>1. PICK t \in Times : Appended(t)
    BY <1>2, NextFoldsOne
  <2>2. FoldsOne /\ TypeOK
    BY <1>2, NextFoldsOne DEF IInv
  <2>3. /\ Next1 \in Ids /\ depth' = Next1 /\ depth' \in 0..MaxRecords /\ now' \in Times
        /\ depth \in Nat /\ Next1 \in Nat /\ depth <= Next1
    BY <2>1, <2>2, AppendedFacts DEF TypeOK, Ids
  <2>4. \A g \in Ids : GameInv(g, games[g], Next1)
    BY <2>3, GameInvLater DEF IInv
  <2>5. CASE Refuse
    <3>1. TypeOK'
      BY <2>2, <2>3, <2>5, RefuseType DEF TypeOK, Refuse
    <3>2. \A g \in Ids : GameInv(g, games'[g], depth')
      BY <2>3, <2>4, <2>5 DEF Refuse
    <3> QED
      BY <3>1, <3>2 DEF IInv
  <2>6. ASSUME NEW u \in Times, NEW k \in Keys, NEW anchor \in StandingAnchors,
               IdentityRecord(u, k, anchor)
        PROVE  IInv'
    <3>1. standing' \in [Keys -> Anchors]
      BY <2>2, <2>6, StandingType DEF TypeOK, IdentityRecord
    <3>2. TypeOK'
      BY <2>2, <2>3, <2>6, <3>1 DEF TypeOK, IdentityRecord
    <3>3. \A g \in Ids : GameInv(g, games'[g], depth')
      BY <2>3, <2>4, <2>6 DEF IdentityRecord
    <3> QED
      BY <3>2, <3>3 DEF IInv
  <2>7. CASE LawfulEffect
    <3>1. PICK g \in Ids, new \in Game : Effective(g, new) /\ GameInv(g, new, Next1)
      BY <2>7 DEF LawfulEffect
    <3>2. games' = [games EXCEPT ![g] = new] /\ games \in [Ids -> Game]
      BY <2>2, <3>1 DEF Effective, TypeOK
    <3>3. TypeOK'
      BY <2>2, <2>3, <3>1, <3>2 DEF TypeOK, Effective
    <3>4. \A h \in Ids : GameInv(h, games'[h], depth')
      BY <2>3, <2>4, <3>1, <3>2
    <3> QED
      BY <3>3, <3>4 DEF IInv
  <2> QED
    BY <2>2, <2>5, <2>6, <2>7 DEF FoldsOne
<1> QED
  BY <1>1, <1>2

\* Distinct keys and distinct identities leave no key with both sides.
LEMMA ExclusiveSeats ==
    ASSUME NEW g \in Ids, NEW k \in Keys, NEW who \in Identities \cup {None}, IInv
    PROVE  ~(HoldsSeat(games[g], "white", k, who) /\ HoldsSeat(games[g], "black", k, who))
<1>1. DistinctIdentities(games[g])
  BY DEF IInv, GameInv
<1> QED
  BY <1>1 DEF HoldsSeat, Matches, DistinctIdentities, Other

-----------------------------------------------------------------------------
(* The theorems.                                                           *)

LEMMA InvariantHolds == Spec => []IInv
BY InitInv, NextInv, PTL DEF Spec

\* Whatever is appended, the projection keeps its types and the refusal tail
\* its bound (refuse in src/chess.go).
THEOREM TypeCorrect == Spec => []TypeOK
<1>1. IInv => TypeOK
  BY DEF IInv
<1> QED
  BY <1>1, InvariantHolds, PTL

\* The records of every game stay in causal order and its status, seats and
\* result follow from them.
THEOREM ChainOrderHolds == Spec => []ChainOrder
<1>1. IInv => ChainOrder
  BY DEF IInv, GameInv, ChainOrder
<1> QED
  BY <1>1, InvariantHolds, PTL

\* No identity ever comes to hold both seats of a game, however many keys it is
\* anchored to and whenever.
THEOREM OneIdentityHolds == Spec => []OneIdentityPerGame
<1>1. IInv => OneIdentityPerGame
  BY DEF IInv, GameInv, OneIdentityPerGame
<1> QED
  BY <1>1, InvariantHolds, PTL

\* seatSide never meets a key that matches both seats.
THEOREM AuthorityExclusiveHolds == Spec => []AuthorityExclusive
<1>1. IInv => AuthorityExclusive
  BY ExclusiveSeats DEF AuthorityExclusive
<1> QED
  BY <1>1, InvariantHolds, PTL

\* No offer is pending, and none is accepted, past the opponent's next move.
THEOREM OfferFreshnessHolds == Spec => []OfferFreshness
<1>1. IInv => OfferFreshness
  BY DEF IInv, GameInv, OfferFreshness
<1> QED
  BY <1>1, InvariantHolds, PTL

\* An anchor at a later instant answers as it does now, or no longer does.
LEMMA ResolvedLater ==
    ASSUME TypeOK, NEW k \in Keys, NEW g \in Ids, NEW t \in now..MaxTime
    PROVE  Resolved(k, t, g) \in {Resolved(k, now, g), None}
<1>1. t \in Nat /\ now \in Nat /\ now <= t /\ standing[k].notAfter \in Nat
  BY BoundsAssumption DEF TypeOK, Anchors, Times
<1> QED
  BY <1>1 DEF Resolved

\* The preview errs only towards no, and only on a collision.
THEOREM PreviewHolds == Spec => []PreviewErrsOnlyOnCollision
<1>1. ASSUME TypeOK, NEW g \in Ids, NEW k \in Keys, NEW t \in now..MaxTime,
             SeatSide(games[g], k, Resolved(k, t, g)) # None,
             SeatFor(g, k) # SeatSide(games[g], k, Resolved(k, t, g))
      PROVE  /\ SeatFor(g, k) = None
             /\ SeatCollision(games[g], k, Resolved(k, now, g))
  <2> DEFINE who == Resolved(k, now, g)
             white == games[g].seat["white"]
             black == games[g].seat["black"]
  <2>1. Resolved(k, t, g) = None
    BY <1>1, ResolvedLater DEF SeatFor
  <2>2. SeatSide(games[g], k, None) # None
    BY <1>1, <2>1
  <2>3. ASSUME NEW s \in Sides, Matches(games[g].seat[s], games[g].seat[Other(s)], k, None),
               ~Matches(games[g].seat[Other(s)], games[g].seat[s], k, None)
        PROVE  /\ games[g].seat[s].actor # None
               /\ k # games[g].seat[Other(s)].actor
               /\ games[g].seat[s].identity = None
               /\ k = games[g].seat[s].actor
    BY <2>3 DEF Matches
  <2>4. PICK s \in Sides : /\ HoldsSeat(games[g], s, k, None)
                          /\ ~HoldsSeat(games[g], Other(s), k, None)
                          /\ SeatSide(games[g], k, None) = s
    BY <2>2 DEF SeatSide, Sides, Other
  <2>5. /\ games[g].seat[s].actor # None
        /\ k # games[g].seat[Other(s)].actor
        /\ games[g].seat[s].identity = None
        /\ k = games[g].seat[s].actor
    BY <2>3, <2>4, SideFacts DEF HoldsSeat
  <2>6. HoldsSeat(games[g], s, k, who) /\ ~HoldsSeat(games[g], Other(s), k, who)
    BY <2>5, SideFacts DEF HoldsSeat, Matches
  <2>7. CASE SeatCollision(games[g], k, who)
    BY <2>7 DEF SeatFor, SeatSide
  <2>8. CASE ~SeatCollision(games[g], k, who)
    <3>1. SeatSide(games[g], k, who) = s
      BY <2>6, <2>8 DEF SeatSide, Sides, Other
    <3> QED
      BY <1>1, <2>1, <2>4, <3>1 DEF SeatFor
  <2> QED
    BY <2>7, <2>8
<1>2. IInv => PreviewErrsOnlyOnCollision
  BY <1>1 DEF IInv, PreviewErrsOnlyOnCollision
<1> QED
  BY <1>2, InvariantHolds, PTL

\* A step either leaves all games alone or changes one of them lawfully.
LEMMA StepContinues ==
    ASSUME IInv, [Next]_vars
    PROVE  /\ \A g \in Ids : Continues(games[g], games'[g])
           /\ refusedTotal' # refusedTotal => games' = games
<1>1. \A g \in Ids : Continues(games[g], games[g])
  <2>1. \A g \in Ids : games[g] \in Game
    BY DEF IInv, TypeOK
  <2> QED
    BY <2>1 DEF Continues, CitesOnlyNew, SeatsKept, Game
<1>2. CASE games' = games
  BY <1>1, <1>2
<1>3. CASE LawfulEffect
  <2>1. PICK g \in Ids, new \in Game : Effective(g, new) /\ Continues(games[g], new)
    BY <1>3 DEF LawfulEffect
  <2>2. games' = [games EXCEPT ![g] = new] /\ games \in [Ids -> Game]
        /\ refusedTotal' = refusedTotal
    BY <2>1 DEF Effective, IInv, TypeOK
  <2> QED
    BY <1>1, <2>1, <2>2
<1>4. CASE Next
  BY <1>2, <1>3, <1>4, NextFoldsOne DEF FoldsOne, Refuse, IdentityRecord
<1> QED
  BY <1>2, <1>4 DEF vars

\* A refused record leaves every game as it was, seat upgrades included.
THEOREM RefusedChangesNothingHolds == Spec => RefusedChangesNothing
<1>1. IInv /\ [Next]_vars => [refusedTotal' # refusedTotal => games' = games]_vars
  BY StepContinues
<1> QED
  BY <1>1, InvariantHolds, PTL DEF Spec, RefusedChangesNothing

\* A taken seat keeps its key for ever and an anchored one its identity.
THEOREM SeatOwnershipStableHolds == Spec => SeatOwnershipStable
<1> DEFINE Stable ==
        \A g \in Ids, s \in Sides :
            LET old == games[g].seat[s]
                new == games'[g].seat[s]
            IN  /\ old.actor # None => new.actor = old.actor
                /\ old.identity # None => new.identity = old.identity
<1>1. IInv /\ [Next]_vars => [Stable]_vars
  BY StepContinues DEF Continues, SeatsKept
<1> QED
  BY <1>1, InvariantHolds, PTL DEF Spec, SeatOwnershipStable

\* Nothing but a name is ever added to a finished game.
THEOREM FinishedIsFinalHolds == Spec => FinishedIsFinal
<1> DEFINE Final ==
        \A g \in Ids : games[g].status = "finished" =>
            games'[g] = [games[g] EXCEPT !.named = games'[g].named]
<1>1. IInv /\ [Next]_vars => [Final]_vars
  BY StepContinues DEF Continues
<1> QED
  BY <1>1, InvariantHolds, PTL DEF Spec, FinishedIsFinal

-----------------------------------------------------------------------------
(* The accounting of refusals.                                             *)

\* Besides: nothing in the tail lies beyond the log.
Accounted ==
    /\ RefusalsAccounted
    /\ \A i \in 1..Len(refused) : refused[i] <= depth

LEMMA RefusedAreRecords ==
    ASSUME IInv
    PROVE  depth \in Nat /\ \A i \in 1..Len(refused) : refused[i] \in Nat
<1>1. refused \in Seq(Ids) /\ depth \in Nat
  BY DEF IInv, TypeOK
<1>2. \A i \in 1..Len(refused) : refused[i] \in Ids
  BY <1>1
<1> QED
  BY <1>1, <1>2 DEF Ids

\* What a game rests on lies within the log.
LEMMA CitedBounds ==
    ASSUME IInv, NEW g \in Ids
    PROVE  /\ Cited(g) \subseteq 1..depth /\ depth \in Nat
           /\ games[g].status # "absent" => g \in Cited(g)
<1>1. GameInv(g, games[g], depth) /\ depth \in Nat /\ g \in Nat /\ g # 0
  BY DEF IInv, TypeOK, Ids
<1>2. CASE games[g].status = "absent"
  BY <1>1, <1>2 DEF Cited
<1>3. CASE games[g].status # "absent"
  <2>1. /\ g <= depth /\ games[g].join \in Nat /\ games[g].lastMove \in Nat
        /\ games[g].drawOffer \in Nat /\ games[g].moves \in Nat
        /\ games[g].lastMove <= depth /\ games[g].drawOffer <= depth
        /\ games[g].join # 0 => games[g].join + games[g].moves <= games[g].lastMove
    BY <1>1, <1>3 DEF GameInv, GameOrder, Game, IdOrNone
  <2>2. games[g].join <= depth
    BY <1>1, <2>1
  <2> QED
    BY <1>1, <1>3, <2>1, <2>2 DEF Cited
<1> QED
  BY <1>2, <1>3

\* An effective record enters the citations of one game as it is appended.
LEMMA EffectAccounted ==
    ASSUME IInv, Accounted, LawfulEffect, NEW t \in Times, Appended(t)
    PROVE  Accounted'
<1>1. Next1 = depth + 1 /\ depth \in Nat /\ depth' = Next1 /\ refused \in Seq(Ids)
  BY AppendedFacts DEF IInv, TypeOK, Next1
<1>2. PICK g \in Ids, new \in Game :
        /\ Effective(g, new)
        /\ Continues(games[g], new)
        /\ games[g].status # "absent" \/ g = Next1
        /\ GameInv(g, new, Next1)
  BY DEF LawfulEffect
<1>3. /\ games'[g] = new /\ \A h \in Ids \ {g} : games'[h] = games[h]
      /\ refused' = refused /\ refusedTotal' = refusedTotal
  BY <1>2 DEF Effective, IInv, TypeOK
<1>4. \A h \in Ids \ {g} : Cited(h)' = Cited(h)
  BY <1>3 DEF Cited
<1>5. Cited(g)' \subseteq Cited(g) \cup {Next1}
  <2>1. CASE games[g].status # "absent"
    BY <1>2, <1>3, <2>1 DEF Cited, Continues, CitesOnlyNew, Citations
  <2>2. CASE games[g].status = "absent"
    <3>1. games[g] = NoGame /\ g = Next1
      BY <1>2, <2>2 DEF IInv, GameInv, GameOrder
    <3> QED
      BY <1>2, <1>3, <3>1 DEF Cited, Continues, CitesOnlyNew, Citations, NoGame
  <2> QED
    BY <2>1, <2>2
<1>6. \A h \in Ids : Next1 \notin Cited(h)
  <2>1. \A h \in Ids : Cited(h) \subseteq 1..depth
    BY CitedBounds
  <2> QED
    BY <1>1, <2>1
<1>7. \A i \in 1..Len(refused) : refused[i] <= depth /\ refused[i] # Next1
  <2>1. \A i \in 1..Len(refused) : refused[i] \in Nat
    BY RefusedAreRecords
  <2> QED
    BY <1>1, <2>1 DEF Accounted
<1>8. ASSUME NEW h \in Ids, NEW i \in 1..Len(refused)
      PROVE  refused[i] \notin Cited(h)'
  BY <1>4, <1>5, <1>7 DEF Accounted, RefusalsAccounted
<1>9. ASSUME NEW h \in Ids, NEW j \in Ids, h # j
      PROVE  Cited(h)' \cap Cited(j)' = {}
  <2>1. Cited(h) \cap Cited(j) = {}
    BY <1>9 DEF Accounted, RefusalsAccounted
  <2>2. Cited(h)' \subseteq Cited(h) \cup {Next1} /\ Cited(j)' \subseteq Cited(j) \cup {Next1}
    BY <1>4, <1>5
  <2>3. Next1 \notin Cited(h)' \/ Next1 \notin Cited(j)'
    BY <1>4, <1>6, <1>9
  <2> QED
    BY <2>1, <2>2, <2>3, <1>6
<1>10. \A i \in 1..Len(refused) : refused[i] <= depth'
  <2>1. \A i \in 1..Len(refused) : refused[i] \in Nat
    BY RefusedAreRecords
  <2> QED
    BY <1>1, <1>7, <2>1
<1> QED
  BY <1>3, <1>8, <1>9, <1>10 DEF Accounted, RefusalsAccounted

\* A refused one goes to the end of the tail, behind records before it.
LEMMA RefuseAccounted ==
    ASSUME IInv, Accounted, Refuse, NEW t \in Times, Appended(t)
    PROVE  Accounted'
<1> DEFINE kept == IF Len(refused) = MaxRefusals THEN Tail(refused) ELSE refused
           skip == IF Len(refused) = MaxRefusals THEN 1 ELSE 0
<1>1. /\ Next1 = depth + 1 /\ depth \in Nat /\ depth' = Next1 /\ refused \in Seq(Ids)
      /\ Len(refused) \in Nat /\ Len(refused) <= MaxRefusals /\ MaxRefusals \in Nat \ {0}
      /\ refusedTotal \in Nat /\ Next1 \in Ids
  BY AppendedFacts, BoundsAssumption DEF IInv, TypeOK, Next1
<1>2. /\ refused' = Append(kept, Next1) /\ refusedTotal' = refusedTotal + 1 /\ games' = games
  BY DEF Refuse
<1>3. /\ kept \in Seq(Ids) /\ Len(kept) = Len(refused) - skip /\ skip \in {0, 1}
      /\ Len(kept) \in Nat /\ skip <= Len(refused)
      /\ \A i \in 1..Len(kept) : kept[i] = refused[i + skip]
  <2>1. CASE Len(refused) = MaxRefusals
    <3>1. refused # <<>>
      BY <1>1, <2>1
    <3>2. /\ Tail(refused) \in Seq(Ids) /\ Len(Tail(refused)) = Len(refused) - 1
          /\ \A i \in 1..Len(Tail(refused)) : Tail(refused)[i] = refused[i + 1]
      BY <1>1, <3>1
    <3> QED
      BY <1>1, <2>1, <3>2
  <2>2. CASE Len(refused) # MaxRefusals
    BY <1>1, <2>2
  <2> QED
    BY <2>1, <2>2
<1>4. \A i \in 1..Len(kept) : i + skip \in 1..Len(refused)
  BY <1>1, <1>3
<1>5. /\ \A i \in 1..Len(kept) : kept[i] <= depth /\ kept[i] \in Nat
      /\ \A i, j \in 1..Len(kept) : i < j => kept[i] < kept[j]
      /\ \A g \in Ids : \A i \in 1..Len(kept) : kept[i] \notin Cited(g)
  <2>1. \A i, j \in 1..Len(kept) : i < j => i + skip < j + skip
    BY <1>1, <1>3
  <2>2. \A i \in 1..Len(refused) : refused[i] \in Nat
    BY RefusedAreRecords
  <2> HIDE DEF kept, skip
  <2> QED
    BY <1>3, <1>4, <2>1, <2>2 DEF Accounted, RefusalsAccounted
<1>6. Len(refused) < MaxRefusals => Len(kept) = refusedTotal
  BY <1>1, <1>3 DEF Accounted, RefusalsAccounted
<1>7. Len(refused) = MaxRefusals => Len(kept) + 1 = MaxRefusals
  BY <1>1, <1>3
<1> HIDE DEF kept
<1>8. /\ Len(refused') = Len(kept) + 1 /\ refused'[Len(kept) + 1] = Next1
      /\ \A i \in 1..Len(kept) : refused'[i] = kept[i]
      /\ \A i \in 1..Len(refused') : i \in 1..Len(kept) \/ i = Len(kept) + 1
  BY <1>1, <1>2, <1>3
<1>9. \A g \in Ids : Cited(g)' = Cited(g) /\ Next1 \notin Cited(g)
  <2>1. \A g \in Ids : Cited(g) \subseteq 1..depth
    BY CitedBounds
  <2> QED
    BY <1>1, <1>2, <2>1 DEF Cited
<1>10. \A i \in 1..Len(refused') : refused'[i] <= depth'
  BY <1>1, <1>5, <1>8
<1>11. \A g \in Ids : \A i \in 1..Len(refused') : refused'[i] \notin Cited(g)'
  BY <1>5, <1>8, <1>9
<1>12. \A i \in 1..Len(refused'), j \in 1..Len(refused') : i < j => refused'[i] < refused'[j]
  <2> SUFFICES ASSUME NEW i \in 1..Len(refused'), NEW j \in 1..Len(refused'), i < j
               PROVE  refused'[i] < refused'[j]
    OBVIOUS
  <2>1. i \in 1..Len(kept)
    BY <1>3, <1>8
  <2>2. CASE j \in 1..Len(kept)
    BY <1>5, <1>8, <2>1, <2>2
  <2>3. CASE j = Len(kept) + 1
    BY <1>1, <1>5, <1>8, <2>1, <2>3
  <2> QED
    BY <1>8, <2>2, <2>3
<1>13. Len(refused') < MaxRefusals => Len(refused') = refusedTotal'
  BY <1>1, <1>2, <1>3, <1>6, <1>7, <1>8
<1>14. \A g, h \in Ids : g # h => Cited(g)' \cap Cited(h)' = {}
  BY <1>9 DEF Accounted, RefusalsAccounted
<1> QED
  BY <1>10, <1>11, <1>12, <1>13, <1>14 DEF Accounted, RefusalsAccounted

LEMMA StepAccounted ==
    ASSUME IInv, Accounted, [Next]_vars
    PROVE  Accounted'
<1>1. CASE UNCHANGED <<games, refused, refusedTotal>> /\ depth' >= depth /\ depth' \in Nat
  <2>1. depth \in Nat /\ \A i \in 1..Len(refused) : refused[i] \in Nat
    BY RefusedAreRecords
  <2>2. \A i \in 1..Len(refused) : refused[i] <= depth'
    BY <1>1, <2>1 DEF Accounted
  <2>3. RefusalsAccounted'
    BY <1>1 DEF Accounted, RefusalsAccounted, Cited
  <2> QED
    BY <1>1, <2>2, <2>3 DEF Accounted
<1>2. CASE UNCHANGED vars
  <2>1. depth \in Nat
    BY DEF IInv, TypeOK
  <2> QED
    BY <1>1, <1>2, <2>1 DEF vars
<1>3. CASE Next
  <2>1. PICK t \in Times : Appended(t)
    BY <1>3, NextFoldsOne
  <2>2. depth' >= depth /\ depth' \in Nat
    BY <2>1, AppendedFacts DEF IInv, TypeOK
  <2>3. CASE \E u \in Times, k \in Keys, anchor \in StandingAnchors : IdentityRecord(u, k, anchor)
    BY <1>1, <2>2, <2>3 DEF IdentityRecord
  <2> QED
    BY <1>3, <2>1, <2>3, NextFoldsOne, EffectAccounted, RefuseAccounted DEF FoldsOne
<1> QED
  BY <1>2, <1>3

\* Every record a game rests on had force for that game alone and is not
\* among the refused ones, whatever the length of the log; the tail holds the
\* latest refusals in order (Projection.refuse).
THEOREM RefusalsAccountedHolds == Spec => []RefusalsAccounted
<1>1. Init => Accounted
  BY DEF Init, Accounted, RefusalsAccounted, Cited, NoGame
<1>2. IInv /\ Accounted /\ [Next]_vars => Accounted'
  BY StepAccounted
<1>3. Accounted => RefusalsAccounted
  BY DEF Accounted
<1> QED
  BY <1>1, <1>2, <1>3, InvariantHolds, PTL DEF Spec
=============================================================================
