------------------------ MODULE LocalCommandsProofs -------------------------
(***************************************************************************)
(* Theorems of LocalCommands for every value of the constants.             *)
(***************************************************************************)
EXTENDS LocalCommands, ChessFoldProofs, FiniteSetTheorems, WellFoundedInduction

\* A game in play has a last move: the join at the least.
LEMMA PlayingHasLastMove ==
    ASSUME IInv, NEW g \in Ids, Playing(g)
    PROVE  games[g].lastMove # 0
<1>1. games[g] \in Game /\ GameOrder(g, games[g], depth)
  BY DEF IInv, GameInv
<1>2. /\ games[g].join \in Nat /\ games[g].moves \in Nat /\ games[g].lastMove \in Nat
      /\ games[g].join # 0
      /\ games[g].join + games[g].moves <= games[g].lastMove
  BY <1>1, BoundsAssumption DEF Playing, Game, GameOrder, IdOrNone
<1> QED
  BY <1>2

\* A command builds an act whenever its player may make one, and the act it
\* builds has force (MoveAct, appendAtCurrentMove, AcceptDrawAct and JoinAct of
\* src/chess.go against the handlers of the fold).
THEOREM LocalActsHaveForceHolds == Spec => []LocalActsHaveForce
<1>1. IInv => LocalActsHaveForce
  <2> SUFFICES ASSUME IInv, NEW g \in {h \in Ids : GameByID(h)}, NEW k \in Keys,
                      NEW t \in Times, NEW rests \in Citable(g)
               PROVE  /\ \A result \in MoveResults :
                            MoveAllowed(k, t, g, rests, result)
                               => MoveAllowed(k, t, g, MoveAct(g), result)
                      /\ ResignAllowed(k, t, g, rests)
                            => ResignAllowed(k, t, g, MoveAct(g))
                      /\ OfferAllowed(k, t, g, rests)
                            => OfferAllowed(k, t, g, MoveAct(g))
                      /\ \A offer \in Citable(g) :
                            AcceptAllowed(k, t, g, rests, offer) =>
                               AcceptAllowed(k, t, g, AcceptDrawAct(g), AcceptDrawAct(g))
                      /\ \A knowsSecret \in BOOLEAN :
                            JoinAllowed(k, t, g, rests, knowsSecret) =>
                               JoinAllowed(k, t, g, JoinAct(g), knowsSecret)
    BY DEF LocalActsHaveForce
  <2>1. g \in Ids /\ GameByID(g)
    OBVIOUS
  <2>2. Playing(g) => MoveAct(g) = games[g].lastMove /\ RestsOn(MoveAct(g), games[g].lastMove)
    BY <2>1, PlayingHasLastMove DEF MoveAct, RestsOn
  <2>3. \A result \in MoveResults :
           MoveAllowed(k, t, g, rests, result) => MoveAllowed(k, t, g, MoveAct(g), result)
    BY <2>2 DEF MoveAllowed
  <2>4. ResignAllowed(k, t, g, rests) => ResignAllowed(k, t, g, MoveAct(g))
    BY <2>2 DEF ResignAllowed
  <2>5. OfferAllowed(k, t, g, rests) => OfferAllowed(k, t, g, MoveAct(g))
    BY <2>2 DEF OfferAllowed
  <2>6. \A offer \in Citable(g) :
           AcceptAllowed(k, t, g, rests, offer) =>
              AcceptAllowed(k, t, g, AcceptDrawAct(g), AcceptDrawAct(g))
    BY <2>1 DEF AcceptAllowed, AcceptDrawAct, RestsOn
  <2>7. \A knowsSecret \in BOOLEAN :
           JoinAllowed(k, t, g, rests, knowsSecret) =>
              JoinAllowed(k, t, g, JoinAct(g), knowsSecret)
    BY DEF JoinAllowed, JoinAct, RestsOn
  <2> QED
    BY <2>3, <2>4, <2>5, <2>6, <2>7
<1> QED
  BY <1>1, InvariantHolds, PTL

-----------------------------------------------------------------------------
(* Pages.  Nothing here depends on how the games came to be listed.        *)

LEMMA LeastOf ==
    ASSUME NEW T, T \subseteq Nat, T # {}
    PROVE  \E x \in T : \A y \in T : x <= y
<1> DEFINE R == {p \in Nat \X Nat : p[1] < p[2]}
<1>1. IsWellFoundedOn(R, Nat)
  BY NatLessThanWellFounded DEF OpToRel
<1>2. PICK x \in T : \A y \in T : ~ (<<y, x>> \in R)
  <2> HIDE DEF R
  <2> QED
    BY <1>1, WFMin
<1>3. ASSUME NEW y \in T
      PROVE  x <= y
  <2>1. <<y, x>> \notin R /\ x \in Nat /\ y \in Nat
    BY <1>2
  <2>2. ~ (y < x)
    BY <2>1
  <2> QED
    BY <2>1, <2>2
<1> QED
  BY <1>3

LEMMA ListedFinite ==
    /\ Listed \subseteq Ids /\ Listed \subseteq Nat \ {0}
    /\ IsFiniteSet(Listed) /\ Cardinality(Listed) \in Nat
<1>1. IsFiniteSet(Ids)
  BY FS_Interval, BoundsAssumption DEF Ids
<1>2. Listed \in SUBSET Ids
  BY DEF Listed
<1>3. IsFiniteSet(Listed)
  BY <1>1, <1>2, FS_Subset
<1>4. Ids \subseteq Nat \ {0}
  BY BoundsAssumption DEF Ids
<1> QED
  BY <1>2, <1>3, <1>4, FS_CardinalityType

\* A place is one of 1..n, and later games have later places.
LEMMA PlaceOrder ==
    /\ \A g \in Listed : Place(g) \in 1..Cardinality(Listed)
    /\ \A g, h \in Listed : g < h => Place(g) < Place(h)
<1> DEFINE Upto(g) == {h \in Listed : h <= g}
<1>1. ASSUME NEW g \in Listed
      PROVE  /\ IsFiniteSet(Upto(g)) /\ Cardinality(Upto(g)) \in Nat
             /\ Cardinality(Upto(g)) <= Cardinality(Listed)
             /\ Cardinality(Upto(g)) # 0
  <2>1. Upto(g) \in SUBSET Listed
    OBVIOUS
  <2>2. g \in Upto(g)
    BY ListedFinite
  <2>3. IsFiniteSet(Upto(g)) /\ Cardinality(Upto(g)) <= Cardinality(Listed)
    BY <2>1, ListedFinite, FS_Subset
  <2> HIDE DEF Upto
  <2> QED
    BY <2>2, <2>3, FS_CardinalityType, FS_EmptySet
<1>2. ASSUME NEW g \in Listed, NEW h \in Listed, g < h
      PROVE  Cardinality(Upto(g)) < Cardinality(Upto(h))
  <2>1. \A x \in Listed : x \in Nat
    BY ListedFinite
  <2>2. Upto(g) \in SUBSET Upto(h) /\ h \in Upto(h) /\ h \notin Upto(g)
    <3>1. \A x \in Listed : x <= g => x <= h
      BY <1>2, <2>1
    <3>2. h <= h /\ ~ (h <= g)
      BY <1>2, <2>1
    <3> QED
      BY <3>1, <3>2
  <2>3. Upto(g) # Upto(h)
    BY <2>2
  <2>4. IsFiniteSet(Upto(h)) /\ Cardinality(Upto(g)) \in Nat /\ Cardinality(Upto(h)) \in Nat
    BY <1>1
  <2> HIDE DEF Upto
  <2> QED
    BY <2>2, <2>3, <2>4, FS_Subset
<1>3. \A g : Place(g) = Cardinality(Upto(g))
  BY DEF Place
<1> HIDE DEF Upto
<1> QED
  BY <1>1, <1>2, <1>3, ListedFinite

\* Every place is some game's.
LEMMA EveryPlace ==
    \A i \in 1..Cardinality(Listed) : \E g \in Listed : Place(g) = i
<1> DEFINE n == Cardinality(Listed)
           f == [g \in Listed |-> Place(g)]
<1>1. f \in [Listed -> 1..n]
  BY PlaceOrder
<1>2. ASSUME NEW g \in Listed, NEW h \in Listed, f[g] = f[h]
      PROVE  g = h
  <2>1. g \in Nat /\ h \in Nat
    BY ListedFinite
  <2>2. Place(g) \in Nat /\ Place(h) \in Nat /\ Place(g) = Place(h)
    BY <1>2, PlaceOrder
  <2>3. ~ (g < h) /\ ~ (h < g)
    BY <2>2, PlaceOrder
  <2> QED
    BY <2>1, <2>3
<1>3. f \in Injection(Listed, 1..n)
  <2> HIDE DEF f
  <2> QED
    BY <1>1, <1>2 DEF Injection, IsInjective
<1>4. IsFiniteSet(1..n) /\ Cardinality(1..n) = n
  BY ListedFinite, FS_Interval
<1>5. f \in Surjection(Listed, 1..n)
  <2> HIDE DEF f, n
  <2>1. Cardinality(Listed) = Cardinality(1..n)
    BY <1>4 DEF n
  <2> QED
    BY <1>3, <1>4, <2>1, FS_Injection
<1>6. ASSUME NEW i \in 1..n
      PROVE  \E g \in Listed : f[g] = i
  <2> HIDE DEF f
  <2> QED
    BY <1>5 DEF Surjection
<1> QED
  BY <1>6

\* The projection lists every game once, in create order, at its place.
LEMMA CreateOrder ==
    /\ InCreateOrder \in Seq(Listed)
    /\ Len(InCreateOrder) = Cardinality(Listed)
    /\ \A i \in 1..Cardinality(Listed) : Place(InCreateOrder[i]) = i
    /\ \A i, j \in 1..Cardinality(Listed) : i < j => InCreateOrder[i] < InCreateOrder[j]
    /\ \A g \in Listed : InCreateOrder[Place(g)] = g
<1> DEFINE n == Cardinality(Listed)
<1>1. \A i \in 1..n : InCreateOrder[i] \in Listed /\ Place(InCreateOrder[i]) = i
  BY EveryPlace DEF InCreateOrder
<1>2. n \in Nat /\ InCreateOrder \in [1..n -> Listed]
  BY <1>1, ListedFinite DEF InCreateOrder
<1>3. InCreateOrder \in Seq(Listed) /\ Len(InCreateOrder) = n
  <2> HIDE DEF n
  <2> QED
    BY <1>2
<1>4. \A g, h \in Listed : Place(g) <= Place(h) => g <= h
  <2> SUFFICES ASSUME NEW g \in Listed, NEW h \in Listed, h < g
               PROVE  ~ (Place(g) <= Place(h))
    BY ListedFinite
  <2>1. Place(h) < Place(g) /\ Place(g) \in Nat /\ Place(h) \in Nat
    BY PlaceOrder
  <2> QED
    BY <2>1
<1>5. ASSUME NEW i \in 1..n, NEW j \in 1..n, i < j
      PROVE  InCreateOrder[i] < InCreateOrder[j]
  <2>1. /\ InCreateOrder[i] \in Listed /\ InCreateOrder[j] \in Listed
        /\ InCreateOrder[i] \in Nat /\ InCreateOrder[j] \in Nat
    BY <1>1, ListedFinite
  <2>2. InCreateOrder[i] <= InCreateOrder[j] /\ InCreateOrder[i] # InCreateOrder[j]
    BY <1>1, <1>4, <1>5, <2>1
  <2> QED
    BY <2>1, <2>2
<1>6. ASSUME NEW g \in Listed
      PROVE  InCreateOrder[Place(g)] = g
  <2>1. Place(g) \in 1..n
    BY PlaceOrder
  <2> DEFINE h == InCreateOrder[Place(g)]
  <2>2. h \in Listed /\ Place(h) = Place(g)
    BY <1>1, <2>1
  <2>3. \A x \in Listed : x \in Nat
    BY ListedFinite
  <2> HIDE DEF h
  <2>4. Place(g) \in Nat /\ g \in Nat /\ h \in Nat
    BY <2>3, <2>1, <2>2
  <2>5. g <= h /\ h <= g
    BY <1>4, <2>2, <2>4
  <2> QED
    BY <2>4, <2>5 DEF h
<1> QED
  BY <1>1, <1>3, <1>5, <1>6

\* The games before a page are the first ones, and a page is not empty before
\* the last.
LEMMA StartType ==
    ASSUME NEW after \in Listed \cup {0}
    PROVE  /\ Start(after) \in 0..Cardinality(Listed)
           /\ after # 0 => Start(after) = Place(after)
<1>1. 0 \in 0..Cardinality(Listed)
  BY ListedFinite
<1> QED
  BY <1>1, PlaceOrder, ListedFinite DEF Start

\* What is left to read after a game.
Rest(after) == SubSeq(InCreateOrder, Start(after) + 1, Cardinality(Listed))

\* A page is all that is left, or its cursor is further on and leads to what
\* the page leaves.
LEMMA PageAdvances ==
    ASSUME NEW after \in Listed \cup {0}, NEW limit \in Nat
    PROVE  LET read == GamesPage(after, limit)
           IN  \/ read.next = 0 /\ read.page = Rest(after)
               \/ /\ read.next \in Listed /\ read.next # 0
                  /\ Start(read.next) > Start(after)
                  /\ read.page \o Rest(read.next) = Rest(after)
<1> DEFINE all  == InCreateOrder
           n    == Cardinality(Listed)
           s    == Start(after)
           e    == Least(s + Clamped(limit), n)
           page == SubSeq(all, s + 1, e)
           next == IF e < n /\ page # <<>> THEN page[Len(page)] ELSE 0
<1>1. s \in 0..n /\ n \in Nat /\ s \in Nat
  BY StartType, ListedFinite
<1>2. Clamped(limit) \in Nat /\ Clamped(limit) >= 1
  BY PageAssumption DEF Clamped
<1>3. e \in s..n /\ (e = n \/ e = s + Clamped(limit))
  <2> HIDE DEF s, n
  <2> QED
    BY <1>1, <1>2 DEF Least
<1>4. GamesPage(after, limit) = [page |-> page, next |-> next]
  <2>1. Len(all) = n
    BY CreateOrder
  <2>2. ~ (after # 0 /\ ~ GameByID(after))
    BY DEF GameByID, Listed
  <2> QED
    BY <2>1, <2>2 DEF GamesPage
<1>5. all \in Seq(Listed) /\ Len(all) = n
  BY CreateOrder
<1> HIDE DEF all, n, s, e
<1>6. /\ page \in Seq(Listed) /\ Len(page) = e - s
      /\ \A i \in 1..(e - s) : page[i] = all[s + i]
  <2>1. s + 1 \in Int /\ e \in Int /\ \A i \in (s + 1)..e : all[i] \in Listed
    BY <1>1, <1>3, <1>5
  <2>2. /\ page \in Seq(Listed)
        /\ Len(page) = IF s + 1 <= e THEN e - (s + 1) + 1 ELSE 0
        /\ \A i \in 1..(e - (s + 1) + 1) : page[i] = all[(s + 1) + i - 1]
    BY <2>1, SubSeqProperties
  <2> QED
    BY <1>1, <1>3, <2>2
<1>7. GamesPage(after, limit).page = page /\ GamesPage(after, limit).next = next
  <2> HIDE DEF page, next
  <2> QED
    BY <1>4
<1>8. /\ ~ (e < n) => next = 0
      /\ e < n /\ page # <<>> => next = page[Len(page)]
  <2> HIDE DEF page
  <2> QED
    OBVIOUS
<1> HIDE DEF page, next
<1>9. e \in Nat /\ e - s \in Nat
  BY <1>1, <1>3
<1>10. CASE e = n
  <2>1. next = 0
    <3>1. ~ (e < n)
      BY <1>1, <1>10
    <3> QED
      BY <1>8, <3>1
  <2>2. page = Rest(after)
    BY <1>10 DEF Rest, page, all, n, s
  <2> QED
    BY <1>7, <2>1, <2>2
<1>11. CASE e # n
  <2>1. e < n /\ s < e /\ e \in 1..n /\ e - s \in 1..(e - s)
    BY <1>1, <1>2, <1>3, <1>11
  <2>2. page # <<>> /\ page[Len(page)] = all[e]
    <3>1. Len(page) = e - s /\ e - s # 0 /\ s + (e - s) = e
      BY <1>1, <1>6, <1>9, <2>1
    <3>2. page[e - s] = all[s + (e - s)]
      BY <1>6, <2>1
    <3>3. page # <<>>
      BY <3>1, EmptySeq
    <3> QED
      BY <3>1, <3>2, <3>3
  <2>3. next = all[e] /\ all[e] \in Listed
    BY <1>5, <1>8, <2>1, <2>2, ElementOfSeq
  <2>4. next # 0
    BY <2>3, ListedFinite
  <2>5. Start(next) = e
    <3>1. Place(all[e]) = e
      BY <2>1, CreateOrder DEF all, n
    <3>2. Start(next) = Place(next)
      BY <2>3, <2>4, StartType
    <3> QED
      BY <2>3, <3>1, <3>2
  <2>6. page \o SubSeq(all, e + 1, n) = SubSeq(all, s + 1, n)
    <3>1. s + 1 \in 1..(Len(all) + 1) /\ e \in ((s + 1) - 1)..Len(all) /\ n \in e..Len(all)
      BY <1>1, <1>3, <1>5, <2>1
    <3> QED
      BY <1>5, <3>1, ConcatAdjacentSubSeq DEF page
  <2>7. page \o Rest(next) = Rest(after)
    BY <2>5, <2>6 DEF Rest, all, n, s
  <2> QED
    BY <1>1, <1>7, <2>1, <2>3, <2>4, <2>5, <2>7 DEF s
<1> QED
  BY <1>10, <1>11

\* What is read in n + 1 pages at most, as f has it for n of them.
Reading(limit, f, n) ==
    [after \in Listed \cup {0} |->
        LET read == GamesPage(after, limit)
        IN  IF n = 0 \/ read.next = 0 THEN read.page
            ELSE read.page \o f[n - 1][read.next]]

\* A function is the walk of at most k + 1 pages.
Walks(f, limit, k) == f = [n \in 0..k |-> Reading(limit, f, n)]

LEMMA WalksExists ==
    ASSUME NEW limit, NEW k \in Nat
    PROVE  \E f : Walks(f, limit, k)
<1> DEFINE T == {n \in Nat : ~ \E f : Walks(f, limit, n)}
<1> SUFFICES ASSUME T # {} PROVE FALSE
  OBVIOUS
<1>1. PICK n \in T : \A m \in T : n <= m
  <2>1. T \subseteq Nat
    OBVIOUS
  <2> HIDE DEF T
  <2> QED
    BY <2>1, LeastOf
<1>2. n \in Nat
  OBVIOUS
<1>3. \E f : \A m \in 0..(n - 1) : f[m] = Reading(limit, f, m)
  <2>1. CASE n = 0
    BY <2>1
  <2>2. CASE n # 0
    <3>1. n - 1 \in Nat /\ ~ (n <= n - 1)
      BY <1>2, <2>2
    <3>2. n - 1 \notin T
      BY <1>1, <3>1
    <3>3. PICK f : Walks(f, limit, n - 1)
      BY <3>1, <3>2
    <3> QED
      BY <3>3 DEF Walks
  <2> QED
    BY <2>1, <2>2
<1>4. PICK f : \A m \in 0..(n - 1) : f[m] = Reading(limit, f, m)
  BY <1>3
<1> DEFINE g == [m \in 0..n |-> Reading(limit, f, m)]
<1>5. ASSUME NEW m \in 0..n
      PROVE  Reading(limit, f, m) = Reading(limit, g, m)
  <2>1. m # 0 => m - 1 \in 0..(n - 1) /\ m - 1 \in 0..n
    BY <1>2
  <2>2. m # 0 => f[m - 1] = g[m - 1]
    BY <1>4, <2>1
  <2> HIDE DEF g
  <2> QED
    BY <2>2 DEF Reading
<1>6. Walks(g, limit, n)
  BY <1>5 DEF Walks
<1> QED
  BY <1>6

\* Enough pages read all that is left.
LEMMA WalkReadsTheRest ==
    ASSUME NEW limit \in Nat, NEW f, Walks(f, limit, Cardinality(Listed)),
           NEW n \in 0..Cardinality(Listed), NEW after \in Listed \cup {0},
           Cardinality(Listed) - Start(after) <= n
    PROVE  f[n][after] = Rest(after)
<1> DEFINE c == Cardinality(Listed)
           T == {m \in 0..c : \E a \in Listed \cup {0} :
                                 c - Start(a) <= m /\ f[m][a] # Rest(a)}
<1> SUFFICES ASSUME T # {} PROVE FALSE
  OBVIOUS
<1>1. PICK m \in T : \A l \in T : m <= l
  <2>1. T \subseteq Nat
    OBVIOUS
  <2> HIDE DEF T
  <2> QED
    BY <2>1, LeastOf
<1>2. c \in Nat /\ m \in 0..c
  BY ListedFinite
<1>3. PICK a \in Listed \cup {0} : c - Start(a) <= m /\ f[m][a] # Rest(a)
  OBVIOUS
<1> DEFINE read == GamesPage(a, limit)
<1>4. f[m][a] = IF m = 0 \/ read.next = 0 THEN read.page
                ELSE read.page \o f[m - 1][read.next]
  <2>1. f[m] = Reading(limit, f, m)
    <3>1. f = [k \in 0..c |-> Reading(limit, f, k)]
      BY DEF Walks
    <3>2. \A k \in 0..c : f[k] = Reading(limit, f, k)
      BY <3>1
    <3> QED
      BY <1>2, <3>2
  <2>2. Reading(limit, f, m)[a] = IF m = 0 \/ read.next = 0 THEN read.page
                                  ELSE read.page \o f[m - 1][read.next]
    BY DEF Reading
  <2> QED
    BY <2>1, <2>2
<1>5. \/ read.next = 0 /\ read.page = Rest(a)
      \/ /\ read.next \in Listed /\ read.next # 0
         /\ Start(read.next) > Start(a)
         /\ read.page \o Rest(read.next) = Rest(a)
  BY PageAdvances
<1>6. Start(a) \in 0..c /\ (read.next \in Listed => Start(read.next) \in 0..c)
  BY StartType
<1>7. read.next # 0
  BY <1>3, <1>4, <1>5
<1> DEFINE here  == Start(a)
           there == Start(read.next)
<1>8. here < there /\ here \in 0..c /\ there \in 0..c /\ c - here <= m
  <2> HIDE DEF read
  <2> QED
    BY <1>3, <1>5, <1>6, <1>7
<1>9. m # 0 /\ m - 1 \in 0..c /\ ~ (m <= m - 1) /\ c - there <= m - 1
  <2> HIDE DEF c, here, there
  <2> QED
    BY <1>2, <1>8
<1>10. m - 1 \notin T
  <2> HIDE DEF T
  <2> QED
    BY <1>1, <1>9
<1>11. f[m - 1][read.next] = Rest(read.next)
  BY <1>5, <1>7, <1>9, <1>10
<1> QED
  BY <1>3, <1>4, <1>5, <1>7, <1>9, <1>11

LEMMA WalkReadsAll ==
    ASSUME NEW limit \in Nat
    PROVE  Walk(limit) = InCreateOrder
<1> DEFINE c == Cardinality(Listed)
           f == CHOOSE g : Walks(g, limit, c)
<1>1. Walk(limit) = f[c][0]
  BY DEF Walk, Walks, Reading
<1>2. c \in Nat
  BY ListedFinite
<1>3. Walks(f, limit, c)
  BY <1>2, WalksExists
<1>4. Start(0) = 0
  BY DEF Start
<1>5. f[c][0] = Rest(0)
  <2>1. c \in 0..c /\ c - Start(0) <= c
    BY <1>2, <1>4
  <2> HIDE DEF f
  <2> QED
    BY <1>3, <2>1, WalkReadsTheRest
<1>6. Rest(0) = InCreateOrder
  <2>1. InCreateOrder \in Seq(Listed) /\ Len(InCreateOrder) = c
    BY CreateOrder
  <2>2. Rest(0) = SubSeq(InCreateOrder, 1, Len(InCreateOrder))
    BY <1>4, <2>1 DEF Rest
  <2> QED
    BY <2>1, <2>2, SubSeqFull
<1> QED
  BY <1>1, <1>5, <1>6

\* Following the next cursors shows every game once, in create order, and
\* ends (Projection.GamesPage of src/chess.go).
THEOREM PagesCoverGamesHolds == Spec => []PagesCoverGames
<1>1. PagesCoverGames
  <2> SUFFICES ASSUME NEW limit \in 0..(MaxPage + 1)
               PROVE  /\ \A i, j \in DOMAIN Walk(limit) :
                            i < j => Walk(limit)[i] < Walk(limit)[j]
                      /\ {Walk(limit)[i] : i \in DOMAIN Walk(limit)} = Listed
    BY DEF PagesCoverGames
  <2>1. Walk(limit) = InCreateOrder
    BY PageAssumption, WalkReadsAll
  <2>2. DOMAIN InCreateOrder = 1..Cardinality(Listed)
    BY DEF InCreateOrder
  <2>3. \A i \in DOMAIN InCreateOrder : InCreateOrder[i] \in Listed
    BY CreateOrder, <2>2, ElementOfSeq
  <2>4. \A g \in Listed : \E i \in DOMAIN InCreateOrder : InCreateOrder[i] = g
    BY <2>2, CreateOrder, PlaceOrder
  <2> QED
    BY <2>1, <2>2, <2>3, <2>4, CreateOrder
<1> QED
  BY <1>1, PTL
=============================================================================
