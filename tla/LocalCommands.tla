--------------------------- MODULE LocalCommands ---------------------------
(***************************************************************************)
(* What a local command, the service and the pages read from a projection   *)
(* (src/chess.go lines 799-833), and the act a local command builds from    *)
(* it before it appends (lines 924-1070).  A local writer holds the writer  *)
(* lock from before the read until after the append, so the act is folded   *)
(* at the very frontier it was read at.                                     *)
(***************************************************************************)
EXTENDS ChessFold

CONSTANT MaxPage  \* maxPage, the games on a page

ASSUME PageAssumption == MaxPage \in Nat \ {0}

-----------------------------------------------------------------------------
(* Reading.                                                                *)

GameByID(g) == g # 0 /\ games[g].status # "absent"

\* Projection.ByID: the games the fold has created, each at its place.
Listed == {g \in Ids : games[g].status # "absent"}
Place(g) == Cardinality({h \in Listed : h <= g})

\* Projection.Games: the games in create order.
InCreateOrder == [i \in 1..Cardinality(Listed) |-> CHOOSE g \in Listed : Place(g) = i]

Least(m, n) == IF m < n THEN m ELSE n
Clamped(limit) == IF limit = 0 \/ limit > MaxPage THEN MaxPage ELSE limit

\* Slip: the page starts at the cursor's own game.
StartAt(after) == IF after = 0 THEN 0 ELSE Place(after) - 1

\* The games before the page.
Start(after) == IF after = 0 THEN 0 ELSE Place(after)

\* A page and the cursor of the next one, 0 at the end.
GamesPage(after, limit) ==
    LET all  == InCreateOrder
        end  == Least(Start(after) + Clamped(limit), Len(all))
        page == SubSeq(all, Start(after) + 1, end)
    IN  IF after # 0 /\ ~GameByID(after) THEN [page |-> <<>>, next |-> 0]
        ELSE [page |-> page,
              next |-> IF end < Len(all) /\ page # <<>> THEN page[Len(page)] ELSE 0]

-----------------------------------------------------------------------------
(* Building.  An act is what it rests on, or None when the command refuses  *)
(* to build one.                                                            *)

\* Move, and appendAtCurrentMove for Resign and OfferDraw.
MoveAct(g) == IF GameByID(g) /\ games[g].lastMove # 0 THEN games[g].lastMove ELSE None

\* Slip: an acceptance rests on the last move like every other act.
AcceptDrawActOnMove(g) ==
    IF GameByID(g) /\ games[g].drawOffer # 0 THEN games[g].lastMove ELSE None

AcceptDrawAct(g) == IF GameByID(g) /\ games[g].drawOffer # 0 THEN games[g].drawOffer ELSE None

\* JoinAct reads nothing: the fold decides admission.
JoinAct(g) == g

-----------------------------------------------------------------------------
(* Properties.                                                             *)

\* Reading page after page from the empty cursor, at most one page more than
\* there are games.
Walk(limit) ==
    LET from[n \in 0..Cardinality(Listed)] ==
            [after \in Listed \cup {0} |->
                LET read == GamesPage(after, limit)
                IN  IF n = 0 \/ read.next = 0 THEN read.page
                    ELSE read.page \o from[n - 1][read.next]]
    IN  from[Cardinality(Listed)][0]

\* Whoever follows the next cursors sees every game exactly once, in create
\* order, and comes to an end, whatever limit is asked for: zero, one within
\* maxPage or one above it.
PagesCoverGames ==
    \A limit \in 0..(MaxPage + 1) :
        LET seen == Walk(limit)
        IN  /\ \A i, j \in DOMAIN seen : i < j => seen[i] < seen[j]
            /\ {seen[i] : i \in DOMAIN seen} = Listed

\* What a local command can do is exactly what its player could do by citing
\* records by hand: whenever some act of the kind would have force, the
\* command builds one, and the one it builds has force.  So no command refuses
\* a player whose act is due, and none cites a record the fold takes for a
\* superseded one.
LocalActsHaveForce ==
    \A g \in {h \in Ids : GameByID(h)}, k \in Keys, t \in Times : \A rests \in Citable(g) :
        /\ \A result \in MoveResults :
              MoveAllowed(k, t, g, rests, result) => MoveAllowed(k, t, g, MoveAct(g), result)
        /\ ResignAllowed(k, t, g, rests) => ResignAllowed(k, t, g, MoveAct(g))
        /\ OfferAllowed(k, t, g, rests) => OfferAllowed(k, t, g, MoveAct(g))
        /\ \A offer \in Citable(g) :
              AcceptAllowed(k, t, g, rests, offer) =>
                  AcceptAllowed(k, t, g, AcceptDrawAct(g), AcceptDrawAct(g))
        /\ \A knowsSecret \in BOOLEAN :
              JoinAllowed(k, t, g, rests, knowsSecret) =>
                  JoinAllowed(k, t, g, JoinAct(g), knowsSecret)
=============================================================================
