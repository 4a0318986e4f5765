----------------------- MODULE ForgeRepositoryProofs ------------------------
(***************************************************************************)
(* Theorems of ForgeRepository for every value of its constants.           *)
(***************************************************************************)
EXTENDS ForgeRepository, SequenceTheorems, TLAPS

-----------------------------------------------------------------------------
(* Histories.                                                              *)

LEMMA AncestorReflexive ==
    ASSUME NEW s \in History
    PROVE  Ancestor(s, s)
BY DEF Ancestor, History

LEMMA AncestorTransitive ==
    ASSUME NEW s \in History, NEW t \in History, NEW u \in History,
           Ancestor(s, t), Ancestor(t, u)
    PROVE  Ancestor(s, u)
BY DEF Ancestor, History

LEMMA AncestorAntisymmetric ==
    ASSUME NEW s \in History, NEW t \in History, Ancestor(s, t), Ancestor(t, s)
    PROVE  s = t
<1>1. Len(s) = Len(t) /\ \A i \in 1..Len(s) : s[i] = t[i]
  BY DEF Ancestor, History
<1> QED
  BY <1>1, SeqEqual DEF History

LEMMA EmptyIsAncestor ==
    ASSUME NEW s \in History
    PROVE  Ancestor(<<>>, s)
BY DEF Ancestor, History

LEMMA AncestorOfAppend ==
    ASSUME NEW s \in History, NEW e \in Entries
    PROVE  Append(s, e) \in History /\ Ancestor(s, Append(s, e))
BY DEF Ancestor, History

LEMMA HeldByDescendants ==
    ASSUME NEW s \in History, NEW t \in History, NEW e, Ancestor(s, t), Holds(s, e)
    PROVE  Holds(t, e)
BY DEF Ancestor, Holds, History

LEMMA HeldByAppend ==
    ASSUME NEW s \in History, NEW e \in Entries, NEW f
    PROVE  Holds(Append(s, e), f) <=> Holds(s, f) \/ f = e
<1> DEFINE t == Append(s, e)
<1>1. /\ Len(t) = Len(s) + 1 /\ Len(s) \in Nat
      /\ \A i \in 1..Len(s) : t[i] = s[i]
      /\ t[Len(s) + 1] = e
  BY DEF History
<1> HIDE DEF t
<1>2. Holds(t, f) <=> Holds(s, f) \/ f = e
  BY <1>1 DEF Holds
<1> QED
  BY <1>2 DEF t

\* What a history holds is held by an ancestor or pending beyond it.
LEMMA HeldOrPending ==
    ASSUME NEW s \in History, NEW t \in History, NEW e,
           Ancestor(t, s), Holds(s, e), ~Pending(s, t, e)
    PROVE  Holds(t, e)
BY DEF Ancestor, Holds, Pending, History

-----------------------------------------------------------------------------
(* The inductive invariant: where the refs stand at every step.            *)

RefOrder ==
    /\ Ancestor(retained, local)
    /\ Ancestor(reader, retained)
    /\ \A a \in acked : Holds(retained, a)
    /\ pc \in Starting => Ancestor(retained, seen)
    /\ pc = "adopting" => Ancestor(local, seen)
    /\ pc \in {"attaching", "retainingSeen"} => Ancestor(seen, local)
    /\ pc = "retainingSeen" => confirmed = seen
    /\ pc \in Serving => Ancestor(confirmed, retained)
    /\ pc \in {"retaining", "announcing"} => seen = local
    /\ pc = "announcing" => retained = local
    /\ pc \in Delivering /\ request \in Acts => Holds(local, request)

Attached == pc \in Serving \cup {"retainingSeen"}

Verified ==
    /\ Attached => ~Holds(local, Unverifiable)
    /\ ~Holds(retained, Unverifiable)

Unbound ==
    /\ Attached => ~Holds(local, Binding)
    /\ \A s \in {remote, late, seen} : ~Holds(s, Binding)

\* As long as nobody rolls the forge back.
ForgeHolds ==
    /\ Ancestor(retained, remote)
    /\ pc \in Starting \cup {"retaining"} => Ancestor(seen, remote)

\* How far the local sequence may be ahead of what is published.
Ahead ==
    /\ pc \in Serving => Len(local) <= Len(confirmed) + 1
    /\ pc \in {"attaching", "retainingSeen"} =>
          local = seen \/ Len(local) <= Len(retained) + 1 \/ Holds(local, Binding)
    /\ pc \in {"down", "stopped", "adopting"} =>
          Ancestor(local, remote) \/ Len(local) <= Len(retained) + 1 \/ Holds(local, Binding)

IInv == TypeOK /\ RefOrder /\ Verified
Contained == IInv /\ Unbound /\ ForgeHolds /\ Ahead

\* The facts about histories the steps below use.
LEMMA HistoryFacts ==
    /\ \A s \in History : Ancestor(s, s) /\ Ancestor(<<>>, s)
    /\ \A s, t, u \in History : Ancestor(s, t) /\ Ancestor(t, u) => Ancestor(s, u)
    /\ \A s, t \in History : Ancestor(s, t) /\ Ancestor(t, s) => s = t
    /\ \A s \in History, e \in Entries :
          Append(s, e) \in History /\ Ancestor(s, Append(s, e))
    /\ \A s, t \in History, e \in Entries :
          Ancestor(s, t) /\ Holds(s, e) => Holds(t, e)
    /\ \A s \in History, e, f \in Entries :
          Holds(Append(s, e), f) <=> Holds(s, f) \/ f = e
    /\ <<>> \in History
<1>1. \A s \in History : Ancestor(s, s) /\ Ancestor(<<>>, s)
  BY AncestorReflexive, EmptyIsAncestor
<1>2. \A s, t, u \in History : Ancestor(s, t) /\ Ancestor(t, u) => Ancestor(s, u)
  BY AncestorTransitive
<1>3. \A s, t \in History : Ancestor(s, t) /\ Ancestor(t, s) => s = t
  BY AncestorAntisymmetric
<1>4. \A s \in History, e \in Entries :
          Append(s, e) \in History /\ Ancestor(s, Append(s, e))
  BY AncestorOfAppend
<1>5. \A s, t \in History, e \in Entries : Ancestor(s, t) /\ Holds(s, e) => Holds(t, e)
  BY HeldByDescendants
<1>6. \A s \in History, e, f \in Entries :
          Holds(Append(s, e), f) <=> Holds(s, f) \/ f = e
  BY HeldByAppend
<1>7. <<>> \in History
  BY DEF History
<1> QED
  BY <1>1, <1>2, <1>3, <1>4, <1>5, <1>6, <1>7

LEMMA EntryFacts ==
    /\ Acts \subseteq Entries /\ ForeignActs \subseteq Entries
    /\ Binding \in Entries /\ Unverifiable \in Entries /\ Binding # Unverifiable
    /\ Binding \notin Acts \cup ForeignActs /\ Unverifiable \notin Acts \cup ForeignActs
    /\ None \notin Acts /\ Opening \notin Acts /\ None # Opening
BY EntriesAssumption DEF Entries, Binding, Unverifiable, Opening

-----------------------------------------------------------------------------
(* Type correctness.                                                       *)

LEMMA InitType == Init => TypeOK
BY BoundsAssumption DEF Init, TypeOK, History

LEMMA OpeningType == TypeOK /\ (Open \/ Adopt \/ Attach \/ RetainSeen) => TypeOK'
<1> USE DEF TypeOK, Starting, Serving, Delivering
<1>1. ASSUME TypeOK, Open PROVE TypeOK'
  BY <1>1 DEF Open, refs
<1>2. ASSUME TypeOK, Adopt PROVE TypeOK'
  BY <1>2 DEF Adopt
<1>3. ASSUME TypeOK, Attach PROVE TypeOK'
  BY <1>3, HistoryFacts DEF Attach, Down, refs
<1>4. ASSUME TypeOK, RetainSeen PROVE TypeOK'
  BY <1>4, HistoryFacts, BoundsAssumption DEF RetainSeen, Down, Fault, NoFault
<1> QED
  BY <1>1, <1>2, <1>3, <1>4

LEMMA DeliveringType ==
    /\ TypeOK
    /\ \/ Observe \/ ObserveFails \/ Push \/ Verify \/ VerifyFails
       \/ DeadlinePasses \/ Retain \/ Announce
    => TypeOK'
<1> USE BoundsAssumption DEF TypeOK, Starting, Serving, Delivering, refs, Fault, NoFault
<1>1. ASSUME TypeOK, Observe PROVE TypeOK'
  BY <1>1, HistoryFacts DEF Observe, Stop, Down
<1>2. ASSUME TypeOK, ObserveFails PROVE TypeOK'
  BY <1>2 DEF ObserveFails, AttemptOver, GivenUp
<1>3. ASSUME TypeOK, Push PROVE TypeOK'
  BY <1>3 DEF Push
<1>4. ASSUME TypeOK, Verify PROVE TypeOK'
  BY <1>4 DEF Verify, AttemptOver, GivenUp
<1>5. ASSUME TypeOK, VerifyFails PROVE TypeOK'
  BY <1>5 DEF VerifyFails, AttemptOver, GivenUp
<1>6. ASSUME TypeOK, DeadlinePasses PROVE TypeOK'
  BY <1>6 DEF DeadlinePasses, GivenUp
<1>7. ASSUME TypeOK, Retain PROVE TypeOK'
  BY <1>7 DEF Retain, GivenUp
<1>8. ASSUME TypeOK, Announce PROVE TypeOK'
  BY <1>8 DEF Announce, GivenUp
<1> QED
  BY <1>1, <1>2, <1>3, <1>4, <1>5, <1>6, <1>7, <1>8

LEMMA OtherType ==
    TypeOK /\ (Request \/ ReadConfirmed \/ Crash \/ Outside \/ UNCHANGED vars) => TypeOK'
<1> USE DEF TypeOK, Starting, Serving, Delivering, refs
<1>1. ASSUME TypeOK, NEW a \in Acts, Submit(a) PROVE TypeOK'
  <2>1. Append(local, a) \in History
    BY <1>1, AncestorOfAppend, EntryFacts
  <2>2. local' \in History
    BY <1>1, <2>1 DEF Submit
  <2> QED
    BY <1>1, <2>2 DEF Submit, Deliver
<1>2. ASSUME TypeOK, SubmitRefused PROVE TypeOK'
  BY <1>2 DEF SubmitRefused, Deliver
<1>3. ASSUME TypeOK, ReadConfirmed PROVE TypeOK'
  BY <1>3 DEF ReadConfirmed
<1>4. ASSUME TypeOK, Crash PROVE TypeOK'
  BY <1>4, HistoryFacts, BoundsAssumption DEF Crash, Down, Fault
<1>5. ASSUME TypeOK, LatePush PROVE TypeOK'
  BY <1>5, HistoryFacts DEF LatePush
<1>6. ASSUME TypeOK, OutsidePush PROVE TypeOK'
  <2>1. \A e \in ForeignActs \cup {Unverifiable} : Append(remote, e) \in History
    BY <1>6, AncestorOfAppend, EntryFacts
  <2>2. remote' \in History
    BY <1>6, <2>1 DEF OutsidePush
  <2> QED
    BY <1>6, <2>2 DEF OutsidePush
<1>7. ASSUME TypeOK, Rollback PROVE TypeOK'
  <2>1. PICK n \in 1..Len(remote) : remote' = SubSeq(remote, 1, n - 1)
    BY <1>7 DEF Rollback
  <2>2. SubSeq(remote, 1, n - 1) \in History
    BY <1>7, <2>1 DEF History
  <2> QED
    BY <1>7, <2>1, <2>2 DEF Rollback
<1>8. ASSUME TypeOK, OperatorRebind PROVE TypeOK'
  BY <1>8, HistoryFacts, EntryFacts DEF OperatorRebind
<1>9. ASSUME TypeOK, UNCHANGED vars PROVE TypeOK'
  BY <1>9 DEF vars
<1> QED
  BY <1>1, <1>2, <1>3, <1>4, <1>5, <1>6, <1>7, <1>8, <1>9 DEF Request, Outside

LEMMA NextType == TypeOK /\ [Next]_vars => TypeOK'
BY OpeningType, DeliveringType, OtherType DEF Next, Proceed

\* Every variable of the repository keeps its type, and no delivery makes a
\* fourth attempt (the loop of confirm).
THEOREM TypeCorrect == Spec => []TypeOK
<1> QED
  BY InitType, NextType, PTL DEF Spec
-----------------------------------------------------------------------------
(* The refs keep their order, and only verified histories are published.   *)

LEMMA InitOrder == Init => RefOrder /\ Verified
BY HistoryFacts, EntryFacts
   DEF Init, RefOrder, Verified, Attached, Starting, Serving, Delivering, Holds

\* Publishing more of the local sequence takes nothing back.
LEMMA PublishingOrder ==
    ASSUME IInv, NEW more \in History, Ancestor(retained, more), Ancestor(more, local),
           ~Holds(local, Unverifiable), retained' \in {retained, more}
    PROVE  /\ Ancestor(retained, retained')
           /\ Ancestor(retained', local)
           /\ Ancestor(reader, retained')
           /\ Ancestor(retained', more)
           /\ \A a \in acked : Holds(retained', a)
           /\ ~Holds(retained', Unverifiable)
<1>1. retained \in History /\ local \in History /\ reader \in History /\ acked \subseteq Entries
  BY EntryFacts DEF IInv, TypeOK
<1>2. Ancestor(retained, local) /\ Ancestor(reader, retained) /\ \A a \in acked : Holds(retained, a)
  BY DEF IInv, RefOrder
<1>3. CASE retained' = retained
  BY <1>1, <1>2, <1>3, HistoryFacts, EntryFacts
<1>4. CASE retained' = more
  BY <1>1, <1>2, <1>4, HistoryFacts, EntryFacts
<1> QED
  BY <1>3, <1>4

LEMMA OpeningOrder ==
    IInv /\ (Open \/ Adopt \/ Attach \/ RetainSeen) => RefOrder' /\ Verified'
<1> USE DEF TypeOK, RefOrder, Verified, Attached, Starting, Serving, Delivering, refs
<1>1. ASSUME IInv, Open PROVE RefOrder' /\ Verified'
  BY <1>1, HistoryFacts DEF Open, OpenAllowed, IInv
<1>2. ASSUME IInv, Adopt PROVE RefOrder' /\ Verified'
  <2>1. /\ Ancestor(retained, seen) /\ seen \in History
        /\ local' = seen /\ pc' = "attaching"
        /\ UNCHANGED <<retained, reader, acked, seen>>
        /\ Ancestor(reader, retained) /\ \A a \in acked : Holds(retained, a)
        /\ ~Holds(retained, Unverifiable)
    BY <1>2 DEF Adopt, IInv
  <2>2. Ancestor(seen, seen)
    BY <2>1, HistoryFacts
  <2> QED
    BY <2>1, <2>2
<1>3. ASSUME IInv, Attach PROVE RefOrder' /\ Verified'
  <2>1. /\ Ancestor(retained, seen) /\ Ancestor(seen, local)
        /\ UNCHANGED <<local, retained, reader, acked>>
        /\ \/ pc' = "down"
           \/ /\ pc' = "retainingSeen" /\ confirmed' = seen /\ seen' = seen
              /\ ~Holds(local, Unverifiable)
    BY <1>3 DEF Attach, AttachAllowed, Down, IInv
  <2> QED
    BY <1>3, <2>1 DEF IInv
<1>4. ASSUME IInv, RetainSeen PROVE RefOrder' /\ Verified'
  <2>1. /\ seen \in History /\ Ancestor(retained, seen) /\ Ancestor(seen, local)
        /\ confirmed = seen /\ ~Holds(local, Unverifiable)
        /\ retained' \in {retained, seen}
        /\ UNCHANGED <<local, reader, acked>>
    BY <1>4 DEF RetainSeen, IInv
  <2>2. /\ Ancestor(retained', local) /\ Ancestor(reader, retained')
        /\ \A a \in acked : Holds(retained', a)
        /\ ~Holds(retained', Unverifiable)
    BY <1>4, <2>1, PublishingOrder
  <2>3. CASE pc' = "down"
    BY <2>1, <2>2, <2>3
  <2>4. CASE pc' # "down"
    <3>1. /\ retained' = seen /\ confirmed' = seen
          /\ pc' = "idle" \/ (pc' = "fetching" /\ request' = Opening)
      BY <1>4, <2>1, <2>4 DEF RetainSeen, Down
    <3> QED
      BY <2>1, <2>2, <3>1, HistoryFacts, EntryFacts
  <2> QED
    BY <2>3, <2>4
<1> QED
  BY <1>1, <1>2, <1>3, <1>4

LEMMA DeliveringOrder ==
    /\ IInv
    /\ \/ Observe \/ ObserveFails \/ Push \/ Verify \/ VerifyFails
       \/ DeadlinePasses \/ Retain \/ Announce
    => RefOrder' /\ Verified'
<1> USE DEF TypeOK, RefOrder, Verified, Attached, Starting, Serving, Delivering, refs
<1>1. ASSUME IInv, Observe PROVE RefOrder' /\ Verified'
  <2>1. UNCHANGED <<local, retained, reader, acked>> /\ pc \in Delivering
    BY <1>1 DEF Observe
  <2>2. CASE pc' \in {"down", "stopped"}
    BY <1>1, <2>1, <2>2 DEF IInv
  <2>3. CASE pc' \notin {"down", "stopped"}
    <3>1. /\ pc' \in {"retaining", "pushing"}
          /\ pc' = "retaining" => seen' = local
          /\ UNCHANGED <<confirmed, request>>
      BY <1>1, <2>3 DEF Observe, Stop, Down
    <3> QED
      BY <1>1, <2>1, <3>1 DEF IInv
  <2> QED
    BY <2>2, <2>3
<1>2. ASSUME IInv, ObserveFails PROVE RefOrder' /\ Verified'
  BY <1>2 DEF ObserveFails, AttemptOver, GivenUp, IInv
<1>3. ASSUME IInv, Push PROVE RefOrder' /\ Verified'
  BY <1>3 DEF Push, IInv
<1>4. ASSUME IInv, Verify PROVE RefOrder' /\ Verified'
  <2>1. /\ UNCHANGED <<local, retained, reader, acked, confirmed>> /\ pc \in Delivering
        /\ \/ pc' = "retaining" /\ seen' = local /\ request' = request
           \/ pc' = "fetching" /\ request' = request
           \/ pc' = "idle"
    BY <1>4 DEF Verify, AttemptOver, GivenUp
  <2> QED
    BY <1>4, <2>1 DEF IInv
<1>5. ASSUME IInv, VerifyFails PROVE RefOrder' /\ Verified'
  BY <1>5 DEF VerifyFails, AttemptOver, GivenUp, IInv
<1>6. ASSUME IInv, DeadlinePasses PROVE RefOrder' /\ Verified'
  BY <1>6 DEF DeadlinePasses, GivenUp, IInv
<1>7. ASSUME IInv, Retain PROVE RefOrder' /\ Verified'
  <2>1. /\ seen = local /\ Ancestor(retained, local) /\ ~Holds(local, Unverifiable)
        /\ Ancestor(confirmed, retained)
        /\ request \in Acts => Holds(local, request)
        /\ local \in History /\ retained \in History /\ confirmed \in History
        /\ Ancestor(local, local)
    BY <1>7, HistoryFacts DEF Retain, IInv
  <2>2. /\ retained' \in {retained, seen}
        /\ UNCHANGED <<local, reader, acked, confirmed, seen>>
        /\ \/ pc' = "announcing" /\ retained' = local /\ request' = request
           \/ pc' = "idle"
    BY <1>7, <2>1 DEF Retain, GivenUp
  <2>3. /\ Ancestor(retained, retained')
        /\ Ancestor(retained', local) /\ Ancestor(reader, retained')
        /\ \A a \in acked : Holds(retained', a)
        /\ ~Holds(retained', Unverifiable)
    BY <1>7, <2>1, <2>2, PublishingOrder
  <2>4. Ancestor(confirmed, retained')
    <3>1. CASE retained' = retained
      BY <2>1, <3>1
    <3>2. CASE retained' = local
      BY <2>1, <3>2, HistoryFacts
    <3> QED
      BY <2>1, <2>2, <3>1, <3>2
  <2> QED
    BY <2>1, <2>2, <2>3, <2>4
<1>8. ASSUME IInv, Announce PROVE RefOrder' /\ Verified'
  BY <1>8, HistoryFacts, EntryFacts DEF Announce, GivenUp, IInv
<1> QED
  BY <1>1, <1>2, <1>3, <1>4, <1>5, <1>6, <1>7, <1>8

\* What the local sequence becomes when an act is submitted.
LEMMA Submitted ==
    ASSUME TypeOK, NEW a \in Acts, Submit(a)
    PROVE  /\ local' \in History
           /\ Ancestor(local, local')
           /\ local = confirmed => Holds(local', a)
           /\ local' # local => local = confirmed /\ Len(local') = Len(local) + 1
           /\ \A e \in Entries : Holds(local', e) => Holds(local, e) \/ e = a
<1>1. local \in History /\ a \in Entries
  BY EntryFacts DEF TypeOK
<1>2. Len(Append(local, a)) = Len(local) + 1
  BY <1>1 DEF History
<1>3. CASE local' = local
  <2>1. local = confirmed => Holds(local, a)
    <3> SUFFICES ASSUME local = confirmed, ~Holds(local, a) PROVE FALSE
      OBVIOUS
    <3>1. local' = Append(local, a)
      BY DEF Submit
    <3> QED
      BY <1>1, <1>2, <1>3, <3>1 DEF History
  <2> QED
    BY <1>1, <1>3, <2>1, AncestorReflexive
<1>4. CASE local' # local
  <2>1. local = confirmed /\ local' = Append(local, a)
    BY <1>4 DEF Submit
  <2> QED
    BY <1>1, <1>2, <2>1, AncestorOfAppend, HeldByAppend
<1> QED
  BY <1>3, <1>4

LEMMA OtherOrder ==
    IInv /\ (Request \/ ReadConfirmed \/ Crash \/ Outside \/ UNCHANGED vars)
    => RefOrder' /\ Verified'
<1> USE HistoryFacts, EntryFacts
    DEF TypeOK, RefOrder, Verified, Attached, Starting, Serving, Delivering, refs
<1>1. ASSUME IInv, NEW a \in Acts, Submit(a) PROVE RefOrder' /\ Verified'
  <2>1. /\ local' \in History
        /\ Ancestor(local, local')
        /\ local = confirmed => Holds(local', a)
        /\ \A e \in Entries : Holds(local', e) => Holds(local, e) \/ e = a
    BY <1>1, Submitted DEF IInv
  <2>2. /\ pc = "idle" /\ pc' = "fetching"
        /\ (request' = a /\ local = confirmed) \/ request' = None
        /\ UNCHANGED <<remote, retained, late, seen, confirmed, acked, reader>>
    BY <1>1 DEF Submit, Deliver
  <2>3. /\ Ancestor(retained, local) /\ ~Holds(local, Unverifiable)
        /\ local \in History /\ retained \in History /\ a \in Entries /\ a # Unverifiable
        /\ None \notin Acts
    BY <1>1, <2>2 DEF IInv
  <2>4. /\ Ancestor(retained', local')
        /\ ~Holds(local', Unverifiable)
        /\ request' \in Acts => Holds(local', request')
    BY <2>1, <2>2, <2>3
  <2> QED
    BY <1>1, <2>2, <2>4 DEF IInv
<1>2. ASSUME IInv, SubmitRefused PROVE RefOrder' /\ Verified'
  BY <1>2 DEF SubmitRefused, Deliver, IInv
<1>3. ASSUME IInv, ReadConfirmed PROVE RefOrder' /\ Verified'
  BY <1>3 DEF ReadConfirmed, IInv
<1>4. ASSUME IInv, Crash PROVE RefOrder' /\ Verified'
  BY <1>4 DEF Crash, Down, IInv
<1>5. ASSUME IInv, LatePush PROVE RefOrder' /\ Verified'
  BY <1>5 DEF LatePush, IInv
<1>6. ASSUME IInv, OutsidePush PROVE RefOrder' /\ Verified'
  BY <1>6 DEF OutsidePush, IInv
<1>7. ASSUME IInv, Rollback PROVE RefOrder' /\ Verified'
  BY <1>7 DEF Rollback, IInv
<1>8. ASSUME IInv, OperatorRebind PROVE RefOrder' /\ Verified'
  <2>1. local' \in History /\ Ancestor(local, local')
    BY <1>8, AncestorOfAppend DEF OperatorRebind, IInv
  <2> QED
    BY <1>8, <2>1 DEF OperatorRebind, IInv
<1>9. ASSUME IInv, UNCHANGED vars PROVE RefOrder' /\ Verified'
  BY <1>9 DEF vars, IInv
<1> QED
  BY <1>1, <1>2, <1>3, <1>4, <1>5, <1>6, <1>7, <1>8, <1>9 DEF Request, Outside

LEMMA NextInv == IInv /\ [Next]_vars => IInv'
<1> SUFFICES ASSUME IInv, [Next]_vars PROVE IInv'
  OBVIOUS
<1>1. TypeOK'
  BY NextType DEF IInv
<1>2. RefOrder' /\ Verified'
  BY OpeningOrder, DeliveringOrder, OtherOrder DEF Next, Proceed
<1> QED
  BY <1>1, <1>2 DEF IInv

LEMMA InvariantHolds == Spec => []IInv
<1>1. Init => IInv
  BY InitType, InitOrder DEF IInv
<1> QED
  BY <1>1, NextInv, PTL DEF Spec

\* A read-only command always finds the published head it looked up in the
\* local sequence it reads afterwards (verifiedPrefix in readConfirmed).
THEOREM ReadersFindTheirPrefixHolds == Spec => []ReadersFindTheirPrefix
<1>1. IInv => ReadersFindTheirPrefix
  BY HistoryFacts DEF IInv, TypeOK, RefOrder, ReadersFindTheirPrefix
<1> QED
  BY <1>1, InvariantHolds, PTL

\* What a running service shows survives a crash: it is on disk as published.
THEOREM ServedIsRetainedHolds == Spec => []ServedIsRetained
<1>1. IInv => ServedIsRetained
  BY DEF IInv, RefOrder, ServedIsRetained
<1> QED
  BY <1>1, InvariantHolds, PTL

\* Only records the host verified are ever published.
THEOREM PublishedVerifiesHolds == Spec => []PublishedVerifies
<1>1. IInv => PublishedVerifies
  BY DEF IInv, Verified, PublishedVerifies
<1> QED
  BY <1>1, InvariantHolds, PTL
-----------------------------------------------------------------------------
(* What of a ref is an act is in the local sequence, at its own place.     *)

OwnIn(s, l) ==
    \A i \in 1..Len(s) : s[i] \in Acts => i \in 1..Len(l) /\ l[i] = s[i]

OwnActs == OwnIn(remote, local) /\ OwnIn(late, local) /\ OwnIn(seen, local)

LEMMA OwnFacts ==
    /\ \A s, l, m \in History : OwnIn(s, l) /\ Ancestor(l, m) => OwnIn(s, m)
    /\ \A s, l \in History : Ancestor(s, l) => OwnIn(s, l)
    /\ \A l : OwnIn(<<>>, l)
    /\ \A l \in History : OwnIn(l, l)
<1>1. \A s, l \in History : Ancestor(s, l) => OwnIn(s, l)
  BY DEF OwnIn, Ancestor, History
<1>2. ASSUME NEW s \in History, NEW l \in History, NEW m \in History,
             OwnIn(s, l), Ancestor(l, m)
      PROVE  OwnIn(s, m)
  BY <1>2 DEF OwnIn, Ancestor, History
<1>3. \A l : OwnIn(<<>>, l)
  BY DEF OwnIn
<1>4. \A l \in History : OwnIn(l, l)
  BY DEF OwnIn, History
<1> QED
  BY <1>1, <1>2, <1>3, <1>4

LEMMA OwnInAppend ==
    ASSUME NEW s \in History, NEW l \in History, NEW e \in Entries \ Acts, OwnIn(s, l)
    PROVE  OwnIn(Append(s, e), l)
<1> DEFINE t == Append(s, e)
<1>1. /\ Len(t) = Len(s) + 1 /\ Len(s) \in Nat
      /\ \A i \in 1..Len(s) : t[i] = s[i]
      /\ t[Len(s) + 1] = e
  BY DEF History
<1> HIDE DEF t
<1>2. OwnIn(t, l)
  BY <1>1 DEF OwnIn
<1> QED
  BY <1>2 DEF t

LEMMA OwnInSubSeq ==
    ASSUME NEW s \in History, NEW l \in History, NEW n \in 1..Len(s), OwnIn(s, l)
    PROVE  OwnIn(SubSeq(s, 1, n - 1), l)
<1> DEFINE t == SubSeq(s, 1, n - 1)
<1>1. Len(s) \in Nat /\ n - 1 \in Int /\ \A i \in 1..(n - 1) : s[i] \in Entries
  BY DEF History
<1>2. /\ Len(t) = IF 1 <= n - 1 THEN n - 1 - 1 + 1 ELSE 0
      /\ \A i \in 1..(n - 1 - 1 + 1) : t[i] = s[1 + i - 1]
  BY <1>1, SubSeqProperties
<1>3. Len(t) = n - 1 /\ \A i \in 1..(n - 1) : t[i] = s[i]
  BY <1>1, <1>2
<1> HIDE DEF t
<1>4. OwnIn(t, l)
  BY <1>1, <1>3 DEF OwnIn
<1> QED
  BY <1>4 DEF t

\* The local sequence only grows, and what it takes from the forge is no act.
LEMMA LocalGrows ==
    ASSUME IInv, OwnActs, [Next]_vars
    PROVE  /\ Ancestor(local, local')
           /\ ~ (\E a \in Acts : Submit(a))
                 => \A i \in (Len(local) + 1)..Len(local') : local'[i] \notin Acts
<1>1. local \in History /\ seen \in History /\ Ancestor(local, local)
  BY AncestorReflexive DEF IInv, TypeOK
<1>2. CASE UNCHANGED local
  <2>1. \A i \in (Len(local) + 1)..Len(local) : FALSE
    BY <1>1 DEF History
  <2> QED
    BY <1>1, <1>2, <2>1
<1>3. CASE Adopt
  <2>1. local' = seen /\ Ancestor(local, seen) /\ OwnIn(seen, local)
    BY <1>3 DEF Adopt, IInv, RefOrder, OwnActs
  <2>2. \A i \in (Len(local) + 1)..Len(seen) : seen[i] \notin Acts
    BY <1>1, <2>1 DEF OwnIn, History
  <2> QED
    BY <2>1, <2>2
<1>4. CASE \E a \in Acts : Submit(a)
  BY <1>4, Submitted DEF IInv
<1>5. CASE OperatorRebind
  <2>1. local' = Append(local, Binding)
    BY <1>5 DEF OperatorRebind
  <2>2. /\ Len(local') = Len(local) + 1 /\ Len(local) \in Nat
        /\ local'[Len(local) + 1] = Binding
    BY <1>1, <2>1 DEF History
  <2>3. \A i \in (Len(local) + 1)..Len(local') : local'[i] \notin Acts
    BY <2>2, EntriesAssumption
  <2> QED
    BY <1>1, <2>1, <2>3, AncestorOfAppend, EntryFacts
<1>6. CASE Open \/ Attach \/ RetainSeen \/ SubmitRefused \/ ReadConfirmed \/ Crash
  BY <1>2, <1>6 DEF Open, Attach, RetainSeen, SubmitRefused, ReadConfirmed, Crash, refs
<1>7. CASE \/ Observe \/ ObserveFails \/ Push \/ Verify \/ VerifyFails
           \/ DeadlinePasses \/ Retain \/ Announce
  BY <1>2, <1>7
     DEF Observe, ObserveFails, Push, Verify, VerifyFails, DeadlinePasses, Retain,
         Announce, refs
<1>8. CASE LatePush \/ OutsidePush \/ Rollback \/ UNCHANGED vars
  BY <1>2, <1>8 DEF LatePush, OutsidePush, Rollback, vars, refs
<1> QED
  BY <1>3, <1>4, <1>5, <1>6, <1>7, <1>8 DEF Next, Proceed, Request, Outside

\* Whoever else writes to the forge, and whatever is rolled back, an act that
\* is found there was taken in here before.
LEMMA OwnActsStep ==
    ASSUME IInv, OwnActs, [Next]_vars
    PROVE  OwnActs'
<1>1. /\ remote \in History /\ late \in History /\ seen \in History /\ local \in History
      /\ local' \in History /\ remote' \in History
  BY NextType DEF IInv, TypeOK
<1>2. Ancestor(local, local')
  BY LocalGrows
<1>3. /\ OwnIn(remote, local') /\ OwnIn(late, local') /\ OwnIn(seen, local')
      /\ OwnIn(local, local') /\ OwnIn(<<>>, local')
  BY <1>1, <1>2, OwnFacts DEF OwnActs
<1>4. CASE UNCHANGED <<remote, late, seen>>
  BY <1>3, <1>4 DEF OwnActs
<1>5. CASE Open \/ Observe \/ Verify
  <2>1. UNCHANGED <<remote, late>> /\ seen' \in {seen, remote, <<>>}
    BY <1>5 DEF Open, Observe, Stop, Down, Verify, AttemptOver, GivenUp
  <2> QED
    BY <1>3, <2>1 DEF OwnActs
<1>6. CASE Adopt \/ Attach \/ RetainSeen
  <2>1. UNCHANGED <<remote, late>> /\ seen' \in {seen, <<>>}
    BY <1>6 DEF Adopt, Attach, RetainSeen, Down
  <2> QED
    BY <1>3, <2>1 DEF OwnActs
<1>7. CASE Push \/ LatePush
  <2>1. /\ UNCHANGED seen /\ remote' \in {remote, local, late}
        /\ late' \in {late, local, <<>>}
    BY <1>7 DEF Push, LatePush
  <2> QED
    BY <1>3, <2>1 DEF OwnActs
<1>8. CASE Crash
  <2>1. UNCHANGED remote /\ seen' = <<>> /\ late' \in {late, local}
    BY <1>8 DEF Crash, Down
  <2> QED
    BY <1>3, <2>1 DEF OwnActs
<1>9. CASE OutsidePush
  <2>1. PICK e \in ForeignActs \cup {Unverifiable} : remote' = Append(remote, e)
    BY <1>9 DEF OutsidePush
  <2>2. e \in Entries \ Acts
    BY EntryFacts, EntriesAssumption
  <2>3. OwnIn(remote', local')
    BY <1>1, <1>3, <2>1, <2>2, OwnInAppend
  <2> QED
    BY <1>3, <1>9, <2>3 DEF OutsidePush, OwnActs
<1>10. CASE Rollback
  <2>1. PICK n \in 1..Len(remote) : remote' = SubSeq(remote, 1, n - 1)
    BY <1>10 DEF Rollback
  <2>2. OwnIn(remote', local')
    BY <1>1, <1>3, <2>1, OwnInSubSeq
  <2> QED
    BY <1>3, <1>10, <2>2 DEF Rollback, OwnActs
<1>11. CASE ObserveFails \/ VerifyFails \/ DeadlinePasses \/ Retain \/ Announce
  BY <1>4, <1>11 DEF ObserveFails, VerifyFails, DeadlinePasses, Retain, Announce
<1>12. CASE Request \/ ReadConfirmed \/ OperatorRebind \/ UNCHANGED vars
  BY <1>4, <1>12
     DEF Request, Submit, SubmitRefused, ReadConfirmed, OperatorRebind, vars
<1> QED
  BY <1>5, <1>6, <1>7, <1>8, <1>9, <1>10, <1>11, <1>12 DEF Next, Proceed, Outside

LEMMA OwnActsHold == Spec => [](IInv /\ OwnActs)
<1>1. Init => IInv /\ OwnActs
  BY InitType, InitOrder, OwnFacts DEF IInv, Init, OwnActs
<1>2. (IInv /\ OwnActs) /\ [Next]_vars => (IInv /\ OwnActs)'
  BY NextInv, OwnActsStep
<1> QED
  BY <1>1, <1>2, PTL DEF Spec

LEMMA StepRecordsOnce ==
    ASSUME IInv, OwnActs, ActsRecordedOnce, [Next]_vars
    PROVE  ActsRecordedOnce'
<1>1. /\ local \in History /\ local' \in History /\ Ancestor(local, local')
      /\ Len(local) \in Nat /\ Len(local') \in Nat
  <2>1. local \in History /\ local' \in History
    BY NextType DEF IInv, TypeOK
  <2>2. \A s \in History : Len(s) \in Nat
    BY DEF History
  <2> QED
    BY <2>1, <2>2, LocalGrows
<1>2. \A i \in 1..Len(local) : i \in 1..Len(local') /\ local'[i] = local[i]
  BY <1>1 DEF Ancestor
<1>3. CASE \A i \in (Len(local) + 1)..Len(local') : local'[i] \notin Acts
  <2> SUFFICES ASSUME NEW i \in 1..Len(local'), NEW j \in 1..Len(local'),
                      local'[i] \in Acts, local'[i] = local'[j]
               PROVE  i = j
    BY DEF ActsRecordedOnce
  <2>1. i \in 1..Len(local) /\ j \in 1..Len(local)
    BY <1>1, <1>3
  <2> QED
    BY <1>2, <2>1 DEF ActsRecordedOnce
<1>4. ASSUME NEW a \in Acts, Submit(a)
      PROVE  ActsRecordedOnce'
  <2>1. CASE local' = local
    BY <2>1 DEF ActsRecordedOnce
  <2>2. CASE local' # local
    <3>1. ~Holds(local, a) /\ local' = Append(local, a)
      BY <1>4, <2>2 DEF Submit
    <3>2. Len(local') = Len(local) + 1 /\ local'[Len(local) + 1] = a
      BY <1>1, <3>1 DEF History
    <3> SUFFICES ASSUME NEW i \in 1..Len(local'), NEW j \in 1..Len(local'),
                        local'[i] \in Acts, local'[i] = local'[j]
                 PROVE  i = j
      BY DEF ActsRecordedOnce
    <3>3. \A k \in 1..Len(local) : local'[k] # a
      BY <1>2, <3>1 DEF Holds
    <3>4. CASE i \in 1..Len(local) /\ j \in 1..Len(local)
      BY <1>2, <3>4 DEF ActsRecordedOnce
    <3>5. CASE i = Len(local) + 1 \/ j = Len(local) + 1
      BY <1>1, <3>2, <3>3, <3>5
    <3> QED
      BY <1>1, <3>2, <3>4, <3>5
  <2> QED
    BY <2>1, <2>2
<1> QED
  BY <1>3, <1>4, LocalGrows

\* An act is recorded once, whoever sends it again and whatever becomes of the
\* forge (appendSigned, and the local sequence that follows the forge in
\* openChessRepository).
THEOREM ActsRecordedOnceHolds == Spec => []ActsRecordedOnce
<1>1. Init => IInv /\ OwnActs /\ ActsRecordedOnce
  BY InitType, InitOrder, OwnFacts DEF IInv, Init, OwnActs, ActsRecordedOnce
<1>2. (IInv /\ OwnActs /\ ActsRecordedOnce) /\ [Next]_vars
         => (IInv /\ OwnActs /\ ActsRecordedOnce)'
  BY NextInv, OwnActsStep, StepRecordsOnce
<1> QED
  BY <1>1, <1>2, PTL DEF Spec
-----------------------------------------------------------------------------
(* The repository implements the confirmed log.                            *)

\* The published ref moves in two steps, only forward, and along the local
\* sequence.
LEMMA RetainedMoves ==
    ASSUME IInv, RetainSeen \/ Retain
    PROVE  /\ retained' \in History
           /\ Ancestor(retained, retained') /\ Ancestor(retained', local)
           /\ UNCHANGED <<local, acked>>
<1>1. /\ seen \in History /\ local \in History /\ retained \in History
      /\ Ancestor(retained, local) /\ Ancestor(local, local) /\ Ancestor(retained, retained)
  BY HistoryFacts DEF IInv, TypeOK, RefOrder
<1>2. CASE RetainSeen
  <2>1. Ancestor(retained, seen) /\ Ancestor(seen, local)
    BY <1>2 DEF RetainSeen, IInv, RefOrder, Starting
  <2> QED
    BY <1>1, <1>2, <2>1 DEF RetainSeen
<1>3. CASE Retain
  <2>1. seen = local
    BY <1>3 DEF Retain, IInv, RefOrder
  <2> QED
    BY <1>1, <1>3, <2>1 DEF Retain
<1> QED
  BY <1>2, <1>3

\* The acknowledged act is in the published log.
LEMMA AnnounceAcknowledges ==
    ASSUME IInv, Announce
    PROVE  /\ UNCHANGED <<local, retained>>
           /\ \/ UNCHANGED acked
              \/ \E a \in Acts : Holds(retained, a) /\ acked' = acked \cup {a}
BY DEF IInv, RefOrder, Announce, refs, Delivering

LEMMA PromiseAncestor ==
    /\ \A s, t : Promise!Ancestor(s, t) <=> Ancestor(s, t)
    /\ \A s, e : Promise!Holds(s, e) <=> Holds(s, e)
BY DEF Promise!Ancestor, Ancestor, Promise!Holds, Holds

\* An idle service that has nothing pending has published its local sequence.
LEMMA SubmitTakes ==
    ASSUME IInv, NEW a \in Acts, Submit(a), local' # local
    PROVE  Promise!Take(a)
<1>1. pc = "idle" /\ local = confirmed /\ local' = Append(local, a)
      /\ UNCHANGED <<retained, acked>>
  BY DEF Submit
<1>2. /\ local \in History /\ retained \in History
      /\ Ancestor(confirmed, retained) /\ Ancestor(retained, local)
  BY <1>1 DEF IInv, TypeOK, RefOrder, Serving
<1>3. retained = local
  BY <1>1, <1>2, AncestorAntisymmetric
<1> QED
  BY <1>1, <1>3 DEF Promise!Take

LEMMA StepKeepsPromise ==
    ASSUME IInv, OwnActs, [Next]_vars
    PROVE  [Promise!Next]_<<local, retained, acked>>
<1>1. CASE RetainSeen \/ Retain
  <2>1. Promise!Publish
    BY <1>1, RetainedMoves, PromiseAncestor DEF Promise!Publish, History
  <2> QED
    BY <2>1 DEF Promise!Next
<1>2. CASE Announce
  <2>1. CASE UNCHANGED acked
    BY <1>2, <2>1, AnnounceAcknowledges
  <2>2. CASE ~UNCHANGED acked
    <3>1. PICK a \in Acts : Holds(retained, a) /\ acked' = acked \cup {a}
      BY <1>2, <2>2, AnnounceAcknowledges
    <3>2. Promise!Acknowledge(a)
      BY <1>2, <3>1, AnnounceAcknowledges, PromiseAncestor DEF Promise!Acknowledge
    <3> QED
      BY <3>2 DEF Promise!Next
  <2> QED
    BY <2>1, <2>2
<1>3. ASSUME NEW a \in Acts, Submit(a)
      PROVE  [Promise!Next]_<<local, retained, acked>>
  <2>1. CASE local' = local
    BY <1>3, <2>1 DEF Submit
  <2>2. CASE local' # local
    BY <1>3, <2>2, SubmitTakes DEF Promise!Next
  <2> QED
    BY <2>1, <2>2
<1>4. CASE Adopt \/ OperatorRebind
  <2>1. ~ (\E a \in Acts : Submit(a))
    BY <1>4 DEF Adopt, OperatorRebind, Submit
  <2>2. /\ Ancestor(local, local') /\ local' \in History
        /\ \A i \in (Len(local) + 1)..Len(local') : local'[i] \notin Acts
    BY <2>1, LocalGrows, NextType DEF IInv, TypeOK
  <2>3. UNCHANGED <<retained, acked>>
    BY <1>4 DEF Adopt, OperatorRebind
  <2>4. Promise!Follow
    BY <2>2, <2>3, PromiseAncestor DEF Promise!Follow, History
  <2> QED
    BY <2>4 DEF Promise!Next
<1>5. CASE Open \/ Attach
  BY <1>5 DEF Open, Attach, refs
<1>6. CASE Observe \/ ObserveFails \/ Push \/ Verify \/ VerifyFails \/ DeadlinePasses
  BY <1>6 DEF Observe, ObserveFails, Push, Verify, VerifyFails, DeadlinePasses, refs
<1>7. CASE SubmitRefused \/ ReadConfirmed \/ Crash
  BY <1>7 DEF SubmitRefused, ReadConfirmed, Crash, refs
<1>8. CASE LatePush \/ OutsidePush \/ Rollback \/ UNCHANGED vars
  BY <1>8 DEF LatePush, OutsidePush, Rollback, vars, refs
<1> QED
  BY <1>1, <1>2, <1>3, <1>4, <1>5, <1>6, <1>7, <1>8 DEF Next, Proceed, Request, Outside

\* The repository implements the log it promises, whatever fails and whoever
\* else writes to the forge: appendSigned takes acts in one at a time, what
\* openChessRepository and confirm have published only grows, and appendSigned
\* acknowledges nothing else.
THEOREM KeepsPromiseHolds == Spec => KeepsPromise
<1>1. Init => Promise!Init
  BY DEF Init, Promise!Init
<1>2. (IInv /\ OwnActs) /\ [Next]_vars => [Promise!Next]_Promise!vars
  BY StepKeepsPromise DEF Promise!vars
<1> QED
  BY <1>1, <1>2, OwnActsHold, PTL DEF Spec, KeepsPromise, Promise!Spec

\* The types of the promised log, and what follows from it at every step.
PromiseInv ==
    /\ local \in Seq(Entries) /\ retained \in Seq(Entries)
    /\ Promise!Consistent

LEMMA PromiseStep ==
    ASSUME PromiseInv, [Promise!Next]_Promise!vars
    PROVE  PromiseInv'
<1> USE PromiseAncestor
<1>1. /\ local \in History /\ retained \in History
      /\ Len(local) \in Nat /\ Len(retained) \in Nat
      /\ Ancestor(retained, local)
      /\ \A a \in acked : Holds(retained, a)
      /\ \A i \in (Len(retained) + 2)..Len(local) : local[i] \notin Acts
  BY DEF PromiseInv, Promise!Consistent, History
<1>2. ASSUME NEW a \in Acts, Promise!Take(a) PROVE PromiseInv'
  <2>1. /\ retained = local /\ local' = Append(local, a) /\ acked' = acked
        /\ retained' = local \/ retained' = local'
    BY <1>2 DEF Promise!Take
  <2>2. /\ local' \in History /\ Ancestor(local, local') /\ Ancestor(local', local')
        /\ Len(local') = Len(local) + 1
    <3>1. a \in Entries
      BY EntryFacts
    <3>2. Append(local, a) \in History /\ Ancestor(local, Append(local, a))
      BY <1>1, <3>1, AncestorOfAppend
    <3>3. Len(Append(local, a)) = Len(local) + 1
      BY <1>1, <3>1 DEF History
    <3> QED
      BY <2>1, <3>2, <3>3, AncestorReflexive
  <2>3. /\ retained' \in History /\ Ancestor(local, retained') /\ Ancestor(retained', local')
        /\ Len(retained') \in Nat /\ Len(retained') >= Len(local)
    <3>1. Ancestor(local, local)
      BY <1>1, AncestorReflexive
    <3>2. CASE retained' = local
      BY <1>1, <2>2, <3>1, <3>2
    <3>3. CASE retained' = local'
      BY <1>1, <2>2, <3>3
    <3> QED
      BY <2>1, <3>2, <3>3
  <2>4. \A b \in acked : Holds(retained', b)
    BY <1>1, <2>1, <2>3, HeldByDescendants
  <2>5. \A i \in (Len(retained') + 2)..Len(local') : FALSE
    BY <1>1, <2>2, <2>3
  <2> QED
    BY <2>1, <2>2, <2>3, <2>4, <2>5 DEF PromiseInv, Promise!Consistent, History
<1>3. CASE Promise!Follow
  <2>1. /\ local' \in History /\ Ancestor(local, local')
        /\ retained' = retained /\ acked' = acked
        /\ \A i \in (Len(local) + 1)..Len(local') : local'[i] \notin Acts
    BY <1>3 DEF Promise!Follow, History
  <2>2. Ancestor(retained, local')
    BY <1>1, <2>1, AncestorTransitive
  <2>3. ASSUME NEW i \in (Len(retained) + 2)..Len(local')
        PROVE  local'[i] \notin Acts
    <3>1. CASE i <= Len(local)
      <4>1. i \in 1..Len(local) /\ i \in (Len(retained) + 2)..Len(local)
        BY <1>1, <3>1
      <4> QED
        BY <1>1, <2>1, <4>1 DEF Ancestor
    <3>2. CASE ~ (i <= Len(local))
      BY <1>1, <2>1, <3>2 DEF History
    <3> QED
      BY <3>1, <3>2
  <2> QED
    BY <1>1, <2>1, <2>2, <2>3 DEF PromiseInv, Promise!Consistent, History
<1>4. CASE Promise!Publish
  <2>1. /\ retained' \in History /\ Ancestor(retained, retained') /\ Ancestor(retained', local)
        /\ local' = local /\ acked' = acked
    BY <1>4 DEF Promise!Publish, History
  <2>2. \A b \in acked : Holds(retained', b)
    BY <1>1, <2>1, HeldByDescendants
  <2>3. \A i \in (Len(retained') + 2)..Len(local) : local[i] \notin Acts
    <3>1. Len(retained) <= Len(retained') /\ Len(retained') \in Nat
      BY <2>1 DEF Ancestor, History
    <3> QED
      BY <1>1, <3>1
  <2> QED
    BY <1>1, <2>1, <2>2, <2>3 DEF PromiseInv, Promise!Consistent, History
<1>5. ASSUME NEW a \in Acts, Promise!Acknowledge(a) PROVE PromiseInv'
  BY <1>1, <1>5 DEF Promise!Acknowledge, PromiseInv, Promise!Consistent, History
<1>6. CASE UNCHANGED Promise!vars
  BY <1>1, <1>6 DEF Promise!vars, PromiseInv, Promise!Consistent, History
<1> QED
  BY <1>2, <1>3, <1>4, <1>5, <1>6 DEF Promise!Next

\* Of what the local sequence holds beyond the published ref, only the first
\* record can be an act, even when an outsider's records, an operator's binding
\* or a rollback of the forge come in between (the intake freeze of
\* appendSigned).
THEOREM PromiseIsConsistent == Spec => []Promise!Consistent
<1>1. Promise!Init => PromiseInv
  BY DEF Promise!Init, PromiseInv, Promise!Consistent, Promise!Ancestor
<1>2. PromiseInv => Promise!Consistent
  BY DEF PromiseInv
<1> QED
  BY <1>1, <1>2, PromiseStep, KeepsPromiseHolds, PTL DEF KeepsPromise, Promise!Spec
-----------------------------------------------------------------------------
(* A binding replaced locally stays off the forge.                         *)

LEMMA HeldBySubSeq ==
    ASSUME NEW s \in History, NEW n \in 1..Len(s), NEW e, Holds(SubSeq(s, 1, n - 1), e)
    PROVE  Holds(s, e)
<1> DEFINE t == SubSeq(s, 1, n - 1)
<1>1. /\ Len(s) \in Nat /\ Len(t) = n - 1
      /\ \A i \in 1..(n - 1) : t[i] = s[i]
  BY DEF History
<1>2. Holds(t, e)
  OBVIOUS
<1> HIDE DEF t
<1> QED
  BY <1>1, <1>2 DEF Holds

LEMMA InitUnbound == Init => Unbound
BY DEF Init, Unbound, Attached, Serving, Delivering, Holds

LEMMA OpeningUnbound ==
    IInv /\ Unbound /\ (Open \/ Adopt \/ Attach \/ RetainSeen) => Unbound'
<1> USE DEF Unbound, Attached, Serving, Delivering, Starting, refs
<1> SUFFICES ASSUME IInv, Unbound, Open \/ Adopt \/ Attach \/ RetainSeen PROVE Unbound'
  OBVIOUS
<1>0. ~Holds(<<>>, Binding)
  BY DEF Holds
<1>1. CASE Open
  BY <1>1 DEF Open
<1>2. CASE Adopt
  BY <1>2 DEF Adopt
<1>3. CASE Attach
  <2>1. CASE AttachAllowed
    <3>1. /\ seen \in History /\ local \in History /\ Ancestor(seen, local)
          /\ ~Pending(local, seen, Binding)
      BY <1>3, <2>1 DEF Attach, AttachAllowed, IInv, TypeOK, RefOrder
    <3>2. ~Holds(local, Binding)
      BY <3>1, HeldOrPending
    <3> QED
      BY <1>0, <1>3, <2>1, <3>2 DEF Attach, Down
  <2>2. CASE ~AttachAllowed
    BY <1>0, <1>3, <2>2 DEF Attach, Down
  <2> QED
    BY <2>1, <2>2
<1>4. CASE RetainSeen
  BY <1>0, <1>4 DEF RetainSeen, Down
<1> QED
  BY <1>1, <1>2, <1>3, <1>4

LEMMA DeliveringUnbound ==
    /\ Unbound
    /\ \/ Observe \/ ObserveFails \/ Push \/ Verify \/ VerifyFails
       \/ DeadlinePasses \/ Retain \/ Announce
    => Unbound'
<1> USE DEF Unbound, Attached, Serving, Delivering, refs, AttemptOver, GivenUp
<1> SUFFICES ASSUME Unbound,
                    \/ Observe \/ ObserveFails \/ Push \/ Verify \/ VerifyFails
                    \/ DeadlinePasses \/ Retain \/ Announce
             PROVE  Unbound'
  OBVIOUS
<1>0. ~Holds(<<>>, Binding)
  BY DEF Holds
<1>1. CASE Observe
  BY <1>0, <1>1 DEF Observe, Stop, Down
<1>2. CASE ObserveFails
  BY <1>2 DEF ObserveFails
<1>3. CASE Push
  BY <1>3 DEF Push
<1>4. CASE Verify
  BY <1>4 DEF Verify
<1>5. CASE VerifyFails
  BY <1>5 DEF VerifyFails
<1>6. CASE DeadlinePasses
  BY <1>6 DEF DeadlinePasses
<1>7. CASE Retain
  BY <1>7 DEF Retain
<1>8. CASE Announce
  BY <1>8 DEF Announce
<1> QED
  BY <1>1, <1>2, <1>3, <1>4, <1>5, <1>6, <1>7, <1>8

LEMMA OtherUnbound ==
    IInv /\ Unbound /\ (Request \/ ReadConfirmed \/ Crash \/ Outside \/ UNCHANGED vars)
    => Unbound'
<1> USE DEF Unbound, Attached, Serving, Delivering, refs
<1> SUFFICES ASSUME IInv, Unbound,
                    Request \/ ReadConfirmed \/ Crash \/ Outside \/ UNCHANGED vars
             PROVE  Unbound'
  OBVIOUS
<1>0. ~Holds(<<>>, Binding) /\ TypeOK /\ remote \in History
  BY DEF Holds, IInv, TypeOK
<1>1. CASE \E a \in Acts : Submit(a)
  <2>1. PICK a \in Acts : Submit(a)
    BY <1>1
  <2>2. Holds(local', Binding) => Holds(local, Binding)
    BY <1>0, <2>1, Submitted, EntryFacts
  <2> QED
    BY <2>1, <2>2 DEF Submit, Deliver
<1>2. CASE SubmitRefused
  BY <1>2 DEF SubmitRefused, Deliver
<1>3. CASE ReadConfirmed
  BY <1>3 DEF ReadConfirmed
<1>4. CASE Crash
  BY <1>0, <1>4 DEF Crash, Down
<1>5. CASE LatePush
  BY <1>0, <1>5 DEF LatePush
<1>6. CASE OutsidePush
  <2>1. PICK e \in ForeignActs \cup {Unverifiable} : remote' = Append(remote, e)
    BY <1>6 DEF OutsidePush
  <2>2. ~Holds(remote', Binding)
    BY <1>0, <2>1, HeldByAppend, EntryFacts
  <2> QED
    BY <1>6, <2>2 DEF OutsidePush
<1>7. CASE Rollback
  <2>1. PICK n \in 1..Len(remote) : remote' = SubSeq(remote, 1, n - 1)
    BY <1>7 DEF Rollback
  <2>2. ~Holds(remote', Binding)
    BY <1>0, <2>1, HeldBySubSeq
  <2> QED
    BY <1>7, <2>2 DEF Rollback
<1>8. CASE OperatorRebind
  BY <1>8 DEF OperatorRebind
<1>9. CASE UNCHANGED vars
  BY <1>9 DEF vars
<1> QED
  BY <1>1, <1>2, <1>3, <1>4, <1>5, <1>6, <1>7, <1>8, <1>9 DEF Request, Outside

LEMMA UnboundHolds == Spec => [](IInv /\ Unbound)
<1>1. Init => IInv /\ Unbound
  BY InitType, InitOrder, InitUnbound DEF IInv
<1>2. (IInv /\ Unbound) /\ [Next]_vars => (IInv /\ Unbound)'
  <2> SUFFICES ASSUME IInv, Unbound, [Next]_vars PROVE IInv' /\ Unbound'
    OBVIOUS
  <2>1. Unbound'
    BY OpeningUnbound, DeliveringUnbound, OtherUnbound DEF Next, Proceed
  <2> QED
    BY <2>1, NextInv
<1> QED
  BY <1>1, <1>2, PTL DEF Spec

\* The service never delivers a binding the operator replaced locally (the
\* pending binding check of openChessRepository).
THEOREM BindingNotDeliveredHolds == Spec => []BindingNotDelivered
<1>1. IInv /\ Unbound => BindingNotDelivered
  BY DEF Unbound, BindingNotDelivered
<1> QED
  BY <1>1, UnboundHolds, PTL
-----------------------------------------------------------------------------
(* As long as nobody rolls the forge back.                                 *)

\* Pushes are fast-forward, late ones included, so the forge only grows.
LEMMA ForgeGrows ==
    ASSUME TypeOK, [Next]_vars
    PROVE  Ancestor(remote, remote') \/ Rollback
<1>0. remote \in History /\ Ancestor(remote, remote)
  BY AncestorReflexive DEF TypeOK
<1>1. CASE Push
  BY <1>0, <1>1 DEF Push
<1>2. CASE LatePush
  BY <1>0, <1>2 DEF LatePush
<1>3. CASE OutsidePush
  <2>1. PICK e \in ForeignActs \cup {Unverifiable} : remote' = Append(remote, e)
    BY <1>3 DEF OutsidePush
  <2> QED
    BY <1>0, <2>1, AncestorOfAppend, EntryFacts
<1>4. CASE Open \/ Adopt \/ Attach \/ RetainSeen
  BY <1>0, <1>4 DEF Open, Adopt, Attach, RetainSeen
<1>5. CASE \/ Observe \/ ObserveFails \/ Verify \/ VerifyFails
           \/ DeadlinePasses \/ Retain \/ Announce
  BY <1>0, <1>5
     DEF Observe, ObserveFails, Verify, VerifyFails, DeadlinePasses, Retain, Announce
<1>6. CASE Request \/ ReadConfirmed \/ Crash
  BY <1>0, <1>6 DEF Request, Submit, SubmitRefused, ReadConfirmed, Crash
<1>7. CASE OperatorRebind \/ UNCHANGED vars
  BY <1>0, <1>7 DEF OperatorRebind, vars
<1> QED
  BY <1>1, <1>2, <1>3, <1>4, <1>5, <1>6, <1>7 DEF Next, Proceed, Outside

LEMMA ForgeKept ==
    ASSUME "rollback" \notin Outsiders, TypeOK, [Next]_vars
    PROVE  Ancestor(remote, remote')
  BY ForgeGrows DEF Rollback

\* What is about to be published was found on the forge.
LEMMA ForgeStillHolds ==
    ASSUME "rollback" \notin Outsiders, IInv, ForgeHolds, [Next]_vars
    PROVE  ForgeHolds'
<1> USE DEF Starting
<1>0. /\ TypeOK /\ TypeOK' /\ Ancestor(remote, remote')
      /\ Ancestor(retained, remote)
      /\ \A s \in History : Ancestor(s, remote) => Ancestor(s, remote')
  BY ForgeKept, NextType, HistoryFacts DEF IInv, ForgeHolds, TypeOK
<1>1. /\ retained \in History /\ seen \in History /\ remote \in History
      /\ Ancestor(remote, remote)
  BY <1>0, HistoryFacts DEF TypeOK
<1>2. CASE Open
  BY <1>0, <1>1, <1>2 DEF Open, OpenAllowed, ForgeHolds, refs
<1>3. CASE Adopt \/ Attach
  BY <1>0, <1>1, <1>3 DEF Adopt, Attach, Down, ForgeHolds, refs
<1>4. CASE RetainSeen
  <2>1. Ancestor(seen, remote)
    BY <1>4 DEF RetainSeen, ForgeHolds
  <2> QED
    BY <1>0, <1>1, <1>4, <2>1 DEF RetainSeen, Down, ForgeHolds
<1>5. CASE Observe \/ Verify
  BY <1>0, <1>1, <1>5
     DEF Observe, Stop, Down, Verify, AttemptOver, GivenUp, ForgeHolds, refs
<1>6. CASE Retain
  <2>1. Ancestor(seen, remote)
    BY <1>6 DEF Retain, ForgeHolds
  <2> QED
    BY <1>0, <1>1, <1>6, <2>1 DEF Retain, GivenUp, ForgeHolds
<1>7. CASE ObserveFails \/ Push \/ VerifyFails \/ DeadlinePasses \/ Announce
  BY <1>0, <1>1, <1>7
     DEF ObserveFails, Push, VerifyFails, DeadlinePasses, Announce, AttemptOver,
         GivenUp, ForgeHolds, refs
<1>8. CASE Request \/ Crash
  BY <1>0, <1>1, <1>8
     DEF Request, Submit, SubmitRefused, Deliver, Crash, Down, ForgeHolds, refs
<1>9. CASE ReadConfirmed \/ Outside \/ UNCHANGED vars
  <2>1. UNCHANGED <<retained, seen, pc>>
    BY <1>9
       DEF ReadConfirmed, Outside, LatePush, OutsidePush, Rollback, OperatorRebind,
           vars, refs
  <2> QED
    BY <1>0, <1>1, <2>1 DEF ForgeHolds
<1> QED
  BY <1>2, <1>3, <1>4, <1>5, <1>6, <1>7, <1>8, <1>9 DEF Next, Proceed

LEMMA ForgeHoldsAlways ==
    ASSUME "rollback" \notin Outsiders
    PROVE  Spec => [](IInv /\ ForgeHolds)
<1>1. Init => IInv /\ ForgeHolds
  BY InitType, InitOrder, HistoryFacts DEF IInv, Init, ForgeHolds, Starting
<1>2. (IInv /\ ForgeHolds) /\ [Next]_vars => (IInv /\ ForgeHolds)'
  BY NextInv, ForgeStillHolds
<1> QED
  BY <1>1, <1>2, PTL DEF Spec

\* Everything published is on the forge: confirm publishes only a head it has
\* fetched from there.
THEOREM PublishedIsOnForgeHolds ==
    ASSUME "rollback" \notin Outsiders
    PROVE  Spec => []PublishedIsOnForge
<1>1. IInv /\ ForgeHolds => PublishedIsOnForge
  BY DEF ForgeHolds, PublishedIsOnForge
<1> QED
  BY <1>1, ForgeHoldsAlways, PTL

\* The service never rewrites the forge (the push of confirm is not forced).
THEOREM ForgeOnlyGrowsHolds ==
    Spec => ForgeOnlyGrows
<1>1. TypeOK /\ [Next]_vars => [Ancestor(remote, remote') \/ Rollback]_vars
  BY ForgeGrows
<1> QED
  BY <1>1, TypeCorrect, PTL DEF Spec, ForgeOnlyGrows
-----------------------------------------------------------------------------
(* Intake freezes while an act is pending.                                 *)

LEMMA LengthFacts ==
    /\ \A s \in History : Len(s) \in Nat
    /\ \A s, t \in History : Ancestor(s, t) => Len(s) <= Len(t)
    /\ Len(<<>>) = 0
BY DEF History, Ancestor

\* While the process runs without a pending binding, the published prefix
\* bounds the local sequence; crashing or stopping leaves it so bounded.
LEMMA AheadOfRetained ==
    ASSUME Contained, pc \in Serving \cup {"stopped"} \cup Starting
    PROVE  \/ Ancestor(local, remote)
           \/ Len(local) <= Len(retained) + 1
           \/ Holds(local, Binding)
<1>1. /\ retained \in History /\ confirmed \in History /\ local \in History
      /\ pc \in Serving => Ancestor(confirmed, retained)
  BY DEF Contained, IInv, TypeOK, RefOrder
<1>2. CASE pc \in Serving
  BY <1>1, <1>2, LengthFacts DEF Contained, Ahead
<1>3. CASE pc \in {"attaching", "retainingSeen"}
  BY <1>3 DEF Contained, Ahead, ForgeHolds, Starting
<1>4. CASE pc \in {"stopped", "adopting"}
  BY <1>4 DEF Contained, Ahead
<1> QED
  BY <1>2, <1>3, <1>4 DEF Starting

\* A step that leaves the process down or stopped with the same local sequence.
LEMMA AheadAtRest ==
    ASSUME "rollback" \notin Outsiders, Contained, [Next]_vars, pc # "down",
           pc' \in {"down", "stopped"}, local' = local, Ancestor(retained, retained')
    PROVE  Ahead'
<1>1. /\ local \in History /\ remote \in History /\ remote' \in History
      /\ retained \in History /\ retained' \in History
      /\ pc \in Serving \cup {"stopped"} \cup Starting
  BY NextType DEF Contained, IInv, TypeOK
<1>2. Len(retained) <= Len(retained') /\ Len(retained) \in Nat /\ Len(retained') \in Nat
      /\ Len(local) \in Nat
  BY <1>1, LengthFacts
<1>3. Ancestor(remote, remote')
  BY ForgeKept DEF Contained, IInv
<1>4. Ancestor(local, remote) => Ancestor(local, remote')
  BY <1>1, <1>3, AncestorTransitive
<1>5. pc' \notin Serving /\ pc' \notin {"attaching", "retainingSeen"}
  BY DEF Serving, Delivering
<1> QED
  BY <1>1, <1>2, <1>4, <1>5, AheadOfRetained DEF Ahead

\* A step of a serving process that keeps serving the same or a longer prefix.
LEMMA AheadServing ==
    ASSUME Contained, TypeOK', pc \in Serving, pc' \in Serving, local' = local,
           Ancestor(confirmed, confirmed')
    PROVE  Ahead'
<1>1. /\ Len(confirmed) <= Len(confirmed') /\ Len(confirmed) \in Nat
      /\ Len(confirmed') \in Nat /\ Len(local) \in Nat
  BY LengthFacts DEF Contained, IInv, TypeOK
<1>2. pc' \notin {"attaching", "retainingSeen"} /\ pc' \notin {"down", "stopped", "adopting"}
  BY DEF Serving, Delivering
<1> QED
  BY <1>1, <1>2 DEF Contained, Ahead

LEMMA OpeningAhead ==
    ASSUME "rollback" \notin Outsiders, Contained, [Next]_vars,
           Open \/ Adopt \/ Attach \/ RetainSeen
    PROVE  Ahead'
<1>0. /\ TypeOK /\ TypeOK' /\ IInv /\ Ahead
      /\ remote \in History /\ local \in History /\ seen \in History /\ retained \in History
      /\ Ancestor(retained, retained)
  BY NextType, HistoryFacts DEF Contained, IInv, TypeOK
<1>1. CASE Open
  <2>1. /\ pc = "down" /\ seen' = remote /\ UNCHANGED <<local, retained, remote>>
        /\ \/ pc' = "adopting" /\ Ancestor(local, remote)
           \/ pc' = "attaching" /\ ~Ancestor(local, remote)
    BY <1>1 DEF Open, refs
  <2>2. CASE pc' = "adopting"
    BY <2>1, <2>2 DEF Ahead, Serving, Delivering
  <2>3. CASE pc' = "attaching"
    BY <1>0, <2>1, <2>3 DEF Ahead, Serving, Delivering
  <2> QED
    BY <2>1, <2>2, <2>3
<1>2. CASE Adopt
  BY <1>2 DEF Adopt, Ahead, Serving, Delivering
<1>3. CASE Attach
  <2>1. CASE AttachAllowed
    BY <1>0, <1>3, <2>1 DEF Attach, Down, Ahead, Serving, Delivering, refs
  <2>2. CASE ~AttachAllowed
    BY <1>0, <1>3, <2>2, AheadAtRest DEF Attach, Down, refs
  <2> QED
    BY <2>1, <2>2
<1>4. CASE RetainSeen
  <2>1. /\ pc = "retainingSeen" /\ local' = local /\ Ancestor(retained, retained')
        /\ confirmed = seen /\ Ancestor(retained, seen) /\ ~Holds(local, Binding)
    BY <1>0, <1>4, RetainedMoves
       DEF RetainSeen, RefOrder, IInv, Starting, Contained, Unbound, Attached
  <2>2. CASE pc' = "down"
    BY <1>4, <2>1, <2>2, AheadAtRest
  <2>3. CASE pc' # "down"
    <3>1. pc' \in {"idle", "fetching"} /\ confirmed' = seen
      BY <1>4, <2>1, <2>3 DEF RetainSeen, Down
    <3>2. local = seen \/ Len(local) <= Len(retained) + 1
      BY <1>0, <2>1 DEF Ahead
    <3>3. Len(local) <= Len(seen) + 1
      BY <1>0, <2>1, <3>2, LengthFacts
    <3> QED
      BY <2>1, <3>1, <3>3 DEF Ahead
  <2> QED
    BY <2>2, <2>3
<1> QED
  BY <1>1, <1>2, <1>3, <1>4

LEMMA DeliveringAhead ==
    ASSUME "rollback" \notin Outsiders, Contained, [Next]_vars,
           \/ Observe \/ ObserveFails \/ Push \/ Verify \/ VerifyFails
           \/ DeadlinePasses \/ Retain \/ Announce
    PROVE  Ahead'
<1>0. /\ TypeOK' /\ IInv /\ TypeOK
      /\ Ancestor(confirmed, confirmed) /\ Ancestor(retained, retained)
  BY NextType, HistoryFacts DEF Contained, IInv, TypeOK
<1>1. pc \in Delivering /\ pc # "down" /\ pc \in Serving /\ local' = local
  BY DEF Observe, ObserveFails, Push, Verify, VerifyFails, DeadlinePasses, Retain,
         Announce, Delivering, Serving, refs
<1>2. CASE Observe
  <2>1. retained' = retained
    BY <1>2 DEF Observe, refs
  <2>2. CASE pc' \in {"down", "stopped"}
    BY <1>0, <1>1, <2>1, <2>2, AheadAtRest
  <2>3. CASE pc' \notin {"down", "stopped"}
    <3>1. pc' \in Serving /\ confirmed' = confirmed
      BY <1>2, <2>3 DEF Observe, Stop, Down, Serving, Delivering
    <3> QED
      BY <1>0, <1>1, <3>1, AheadServing
  <2> QED
    BY <2>2, <2>3
<1>3. CASE Announce
  <2>1. /\ confirmed' = seen /\ pc' \in Serving
        /\ Ancestor(confirmed, retained) /\ seen = local /\ retained = local
    BY <1>0, <1>3 DEF Announce, GivenUp, IInv, RefOrder, Serving, Delivering
  <2> QED
    BY <1>0, <1>1, <2>1, AheadServing
<1>4. CASE ObserveFails \/ Push \/ Verify \/ VerifyFails \/ DeadlinePasses \/ Retain
  <2>1. pc' \in Serving /\ confirmed' = confirmed
    BY <1>4
       DEF ObserveFails, Push, Verify, VerifyFails, DeadlinePasses, Retain,
           AttemptOver, GivenUp, Serving, Delivering
  <2> QED
    BY <1>0, <1>1, <2>1, AheadServing
<1> QED
  BY <1>2, <1>3, <1>4

LEMMA OtherAhead ==
    ASSUME "rollback" \notin Outsiders, Contained, [Next]_vars,
           Request \/ ReadConfirmed \/ Crash \/ Outside \/ UNCHANGED vars
    PROVE  Ahead'
<1>0. /\ TypeOK' /\ IInv /\ TypeOK /\ Ahead
      /\ local \in History /\ remote \in History /\ remote' \in History
      /\ Ancestor(confirmed, confirmed) /\ Ancestor(retained, retained)
      /\ Ancestor(remote, remote')
  BY NextType, HistoryFacts, ForgeKept DEF Contained, IInv, TypeOK
<1>1. CASE \E a \in Acts : Submit(a)
  <2>1. PICK a \in Acts : Submit(a)
    BY <1>1
  <2>2. pc \in Serving /\ pc' \in Serving /\ confirmed' = confirmed
    BY <2>1 DEF Submit, Deliver, Serving, Delivering
  <2>3. CASE local' = local
    BY <1>0, <2>2, <2>3, AheadServing
  <2>4. CASE local' # local
    <3>1. Len(local') <= Len(confirmed') + 1
      BY <1>0, <2>1, <2>2, <2>4, Submitted, LengthFacts
    <3>2. pc' = "fetching"
      BY <2>1 DEF Submit, Deliver
    <3> QED
      BY <3>1, <3>2 DEF Ahead
  <2> QED
    BY <2>3, <2>4
<1>2. CASE SubmitRefused
  <2>1. pc \in Serving /\ pc' \in Serving /\ local' = local /\ confirmed' = confirmed
    BY <1>2 DEF SubmitRefused, Deliver, Serving, Delivering, refs
  <2> QED
    BY <1>0, <2>1, AheadServing
<1>3. CASE Crash
  <2>1. pc # "down" /\ pc' = "down" /\ local' = local /\ retained' = retained
    BY <1>3 DEF Crash, Down, refs
  <2> QED
    BY <1>0, <2>1, AheadAtRest
<1>4. CASE OperatorRebind
  <2>1. pc' = "down" /\ local' = Append(local, Binding)
    BY <1>4 DEF OperatorRebind
  <2>2. Holds(local', Binding)
    BY <1>0, <2>1, HeldByAppend, EntryFacts
  <2> QED
    BY <2>1, <2>2 DEF Ahead, Serving, Delivering
<1>5. CASE ReadConfirmed \/ LatePush \/ OutsidePush \/ Rollback \/ UNCHANGED vars
  <2>1. UNCHANGED <<local, retained, seen, confirmed, pc>>
    BY <1>5 DEF ReadConfirmed, LatePush, OutsidePush, Rollback, vars, refs
  <2>2. Ancestor(local, remote) => Ancestor(local, remote')
    BY <1>0, AncestorTransitive
  <2> QED
    BY <1>0, <2>1, <2>2 DEF Ahead
<1> QED
  BY <1>1, <1>2, <1>3, <1>4, <1>5 DEF Request, Outside

\* Unless somebody rolls the forge back, the service never runs more than one
\* act ahead of what it serves: ready refuses intake while one is pending, and
\* opening resumes with at most that one.
THEOREM OneActPendingHolds ==
    ASSUME "rollback" \notin Outsiders
    PROVE  Spec => []OneActPending
<1>1. Init => Contained
  BY InitType, InitOrder, InitUnbound, HistoryFacts
     DEF IInv, Init, Contained, ForgeHolds, Ahead, Starting, Serving, Delivering
<1>2. Contained /\ [Next]_vars => Contained'
  <2> SUFFICES ASSUME Contained, [Next]_vars PROVE Contained'
    OBVIOUS
  <2>1. IInv' /\ ForgeHolds'
    BY NextInv, ForgeStillHolds DEF Contained
  <2>2. Unbound'
    BY OpeningUnbound, DeliveringUnbound, OtherUnbound DEF Contained, Next, Proceed
  <2>3. Ahead'
    BY OpeningAhead, DeliveringAhead, OtherAhead DEF Next, Proceed
  <2> QED
    BY <2>1, <2>2, <2>3 DEF Contained
<1>3. Contained => OneActPending
  BY DEF Contained, Ahead, OneActPending
<1> QED
  BY <1>1, <1>2, <1>3, PTL DEF Spec
-----------------------------------------------------------------------------
(* As long as nobody else writes to the forge or rebinds, every history is  *)
(* a prefix of the local sequence, so no check that fails closed fails.     *)

Alone ==
    /\ pc # "stopped"
    /\ Ancestor(remote, local) /\ Ancestor(late, local) /\ Ancestor(seen, local)
    /\ ~Holds(local, Binding) /\ ~Holds(local, Unverifiable)

\* The local sequence grows by acts of clients alone.
LEMMA AloneLocal ==
    ASSUME IInv, Alone, Outsiders = {}, [Next]_vars
    PROVE  /\ Ancestor(local, local')
           /\ ~Holds(local', Binding) /\ ~Holds(local', Unverifiable)
<1>1. local \in History /\ seen \in History /\ Ancestor(local, local)
  BY AncestorReflexive DEF IInv, TypeOK
<1>2. CASE UNCHANGED local
  BY <1>1, <1>2 DEF Alone
<1>3. CASE Adopt
  <2>1. local' = seen /\ Ancestor(local, seen) /\ Ancestor(seen, local)
    BY <1>3 DEF Adopt, IInv, RefOrder, Alone
  <2>2. local' = local
    BY <1>1, <2>1, AncestorAntisymmetric
  <2> QED
    BY <1>1, <2>2 DEF Alone
<1>4. ASSUME NEW a \in Acts, Submit(a)
      PROVE  /\ Ancestor(local, local')
             /\ ~Holds(local', Binding) /\ ~Holds(local', Unverifiable)
  <2>1. a # Binding /\ a # Unverifiable /\ Binding \in Entries /\ Unverifiable \in Entries
    BY EntriesAssumption, EntryFacts
  <2> QED
    BY <1>4, <2>1, Submitted DEF IInv, Alone
<1>5. CASE Open \/ Attach \/ RetainSeen \/ SubmitRefused \/ ReadConfirmed \/ Crash
  BY <1>2, <1>5 DEF Open, Attach, RetainSeen, SubmitRefused, ReadConfirmed, Crash, refs
<1>6. CASE \/ Observe \/ ObserveFails \/ Push \/ Verify \/ VerifyFails
           \/ DeadlinePasses \/ Retain \/ Announce
  BY <1>2, <1>6
     DEF Observe, ObserveFails, Push, Verify, VerifyFails, DeadlinePasses, Retain,
         Announce, refs
<1>7. CASE Outside \/ UNCHANGED vars
  BY <1>2, <1>7
     DEF Outside, LatePush, OutsidePush, Rollback, OperatorRebind, vars, refs
<1> QED
  BY <1>3, <1>4, <1>5, <1>6, <1>7 DEF Next, Proceed, Request

\* The forge, the push that may still land and the head fetched from it follow
\* the local sequence, and what was delivered is never taken for somebody
\* else's.
LEMMA AloneStep ==
    ASSUME IInv, ForgeHolds, Alone, Outsiders = {}, [Next]_vars
    PROVE  Alone'
<1>1. /\ remote \in History /\ late \in History /\ seen \in History /\ local \in History
      /\ confirmed \in History /\ retained \in History /\ local' \in History
  BY NextType DEF IInv, TypeOK
<1>2. /\ Ancestor(local, local')
      /\ ~Holds(local', Binding) /\ ~Holds(local', Unverifiable)
  BY AloneLocal
<1>3. /\ Ancestor(remote, local') /\ Ancestor(late, local') /\ Ancestor(seen, local')
      /\ Ancestor(<<>>, local')
  BY <1>1, <1>2, AncestorTransitive, EmptyIsAncestor DEF Alone
<1>4. CASE UNCHANGED <<remote, late, seen>> /\ pc' # "stopped"
  BY <1>2, <1>3, <1>4 DEF Alone
<1>5. CASE Open \/ Verify
  <2>1. UNCHANGED <<remote, late>> /\ seen' = remote /\ pc' # "stopped"
    BY <1>5 DEF Open, Verify, AttemptOver, GivenUp
  <2> QED
    BY <1>2, <1>3, <2>1 DEF Alone
<1>6. CASE Observe
  <2>1. Ancestor(confirmed, retained) /\ Ancestor(retained, remote)
    BY <1>6 DEF Observe, IInv, RefOrder, Serving, Delivering, ForgeHolds
  <2>2. Ancestor(confirmed, remote) /\ Ancestor(remote, local)
    BY <1>1, <2>1, AncestorTransitive DEF Alone
  <2>3. UNCHANGED <<remote, late>> /\ seen' = remote /\ pc' # "stopped"
    BY <1>6, <2>2 DEF Observe
  <2> QED
    BY <1>2, <1>3, <2>3 DEF Alone
<1>7. CASE Adopt \/ Attach \/ RetainSeen
  <2>1. UNCHANGED <<remote, late>> /\ seen' \in {seen, <<>>} /\ pc' # "stopped"
    BY <1>7 DEF Adopt, Attach, RetainSeen, Down
  <2> QED
    BY <1>2, <1>3, <2>1 DEF Alone
<1>8. CASE Push \/ LatePush
  <2>1. /\ UNCHANGED seen /\ remote' \in {remote, local, late}
        /\ late' \in {late, local, <<>>} /\ pc' # "stopped"
    BY <1>8 DEF Push, LatePush, Alone
  <2> QED
    BY <1>2, <1>3, <2>1 DEF Alone
<1>9. CASE Crash
  <2>1. UNCHANGED remote /\ seen' = <<>> /\ late' \in {late, local} /\ pc' # "stopped"
    BY <1>9 DEF Crash, Down
  <2> QED
    BY <1>2, <1>3, <2>1 DEF Alone
<1>10. CASE ObserveFails \/ VerifyFails \/ DeadlinePasses \/ Retain \/ Announce
  BY <1>4, <1>10
     DEF ObserveFails, VerifyFails, DeadlinePasses, Retain, Announce, AttemptOver, GivenUp
<1>11. CASE Request \/ ReadConfirmed
  BY <1>4, <1>11 DEF Request, Submit, SubmitRefused, Deliver, ReadConfirmed, Alone
<1>12. CASE OutsidePush \/ Rollback \/ OperatorRebind \/ UNCHANGED vars
  BY <1>4, <1>12 DEF OutsidePush, Rollback, OperatorRebind, vars, Alone
<1> QED
  BY <1>5, <1>6, <1>7, <1>8, <1>9, <1>10, <1>11, <1>12 DEF Next, Proceed, Outside

\* Whatever crashed, failed or landed late, the service does not stop by its own
\* doing, and once it is down openChessRepository can open it again: what it
\* published is on the forge, the forge holds nothing that the local sequence
\* lacks, and nothing in that sequence fails verification.
THEOREM NeverLockedOutHolds ==
    ASSUME Outsiders = {}
    PROVE  Spec => []NeverLockedOut
<1>1. Init => IInv /\ ForgeHolds /\ Alone
  BY InitType, InitOrder, HistoryFacts
     DEF IInv, Init, ForgeHolds, Starting, Alone, Holds
<1>2. (IInv /\ ForgeHolds /\ Alone) /\ [Next]_vars => (IInv /\ ForgeHolds /\ Alone)'
  BY NextInv, ForgeStillHolds, AloneStep
<1>3. IInv /\ ForgeHolds /\ Alone => NeverLockedOut
  <2> SUFFICES ASSUME IInv, ForgeHolds, Alone PROVE NeverLockedOut
    OBVIOUS
  <2>1. ~Pending(local, seen, Binding)
    <3>1. local \in History /\ seen \in History
      BY DEF IInv, TypeOK
    <3> QED
      BY <3>1 DEF Alone, Pending, Holds, History
  <2> QED
    BY <2>1 DEF NeverLockedOut, ForgeHolds, Alone, OpenAllowed, AttachAllowed
<1> QED
  BY <1>1, <1>2, <1>3, PTL DEF Spec
=============================================================================
