-------------------------- MODULE GameDraftsProofs --------------------------
(***************************************************************************)
(* Theorems of GameDrafts for any number of tabs, drafts, other writers    *)
(* and faults, and any table size.                                         *)
(***************************************************************************)
EXTENDS GameDrafts, FiniteSetTheorems, SequenceTheorems, WellFoundedInduction, TLAPS

-----------------------------------------------------------------------------
(* The inductive invariant.                                                *)

\* Drafts that have a record in s.
Recorded(s) == {d \in Ids : Records(s, d) # {}}

\* The log: a draft has one record, and all other records were counted.
LogPart ==
    /\ log \in Seq(Entry)
    /\ published \in 0..Len(log)
    /\ others \in 0..MaxOthers
    /\ OneRecordPerDraft
    /\ Len(log) <= Cardinality(Recorded(log)) + others

\* The table: it only holds drafts that were drawn and not refused, and knows
\* only published records.
TablePart ==
    /\ drafts \in [Ids -> Draft \cup {None}]
    /\ Cardinality(Table) <= MaxDrafts
    /\ drawn \in 0..MaxPrepared
    /\ refused \subseteq Ids
    /\ \A d \in Table : d <= drawn /\ drafts[d].record <= published
    /\ \A d \in refused : d <= drawn /\ drafts[d] = None

\* A tab past the answer to prepare has a draft.
TabOK(t) ==
    tab[t].phase \in {"unsigned", "signed", "submitting"} =>
        tab[t].draft \in Ids /\ tab[t].draft <= drawn

\* A tab waits for the submission of its own draft.
RequestOK(q) ==
    /\ q.draft <= drawn
    /\ q.from # None => At(q.from, "submitting") /\ tab[q.from].draft = q.draft

ClientPart ==
    /\ tab \in [Tabs -> Tab]
    /\ requests \subseteq Submission
    /\ \A t \in Tabs : TabOK(t)
    /\ \A q \in requests : RequestOK(q)

\* The mutex keeps what its holder has found: room, or a draft.
ServingPart ==
    /\ serving \in Prepare \cup Submission \cup {None}
    /\ serving # None /\ serving.kind = "prepare" =>
          /\ Cardinality(Table) < MaxDrafts
          /\ serving.from # None => At(serving.from, "preparing")
    /\ serving # None /\ serving.kind = "submit" =>
          /\ serving.draft \in Table /\ RequestOK(serving)
          /\ serving.from # None => serving \notin requests

RestPart ==
    /\ shown \subseteq Entry
    /\ now \in 0..MaxTime
    /\ faults \in 0..MaxFaults

IInv == LogPart /\ TablePart /\ ClientPart /\ ServingPart /\ RestPart

LEMMA InvType == IInv => TypeOK
BY DEF IInv, LogPart, TablePart, ClientPart, ServingPart, RestPart, TypeOK

-----------------------------------------------------------------------------
(* The last move of a log, and its prefixes.                               *)

LEMMA Least ==
    ASSUME NEW T, T \subseteq Nat, T # {}
    PROVE  \E x \in T : \A y \in T : x <= y
<1> DEFINE R == {p \in Nat \X Nat : p[1] < p[2]}
<1>1. IsWellFoundedOn(R, Nat)
  BY NatLessThanWellFounded DEF OpToRel
<1>2. PICK x \in T : \A y \in T : ~ (<<y, x>> \in R)
  <2> HIDE DEF R
  <2> QED
    BY <1>1, WFMin
<1>3. ASSUME NEW y \in T
      PROVE  x <= y
  <2>1. <<y, x>> \notin R /\ x \in Nat /\ y \in Nat
    BY <1>2
  <2>2. ~ (y < x)
    BY <2>1
  <2> QED
    BY <2>1, <2>2
<1> QED
  BY <1>3

LEMMA PrefixType ==
    ASSUME NEW s \in Seq(Entry), NEW n \in Nat, n <= Len(s)
    PROVE  /\ Prefix(s, n) \in Seq(Entry) /\ Len(Prefix(s, n)) = n
           /\ \A i \in 1..n : Prefix(s, n)[i] = s[i]
<1>1. \A i \in 1..n : s[i] \in Entry
  OBVIOUS
<1>2. /\ SubSeq(s, 1, n) \in Seq(Entry)
      /\ Len(SubSeq(s, 1, n)) = IF 1 <= n THEN n - 1 + 1 ELSE 0
      /\ \A i \in 1..(n - 1 + 1) : SubSeq(s, 1, n)[i] = s[1 + i - 1]
  BY <1>1, SubSeqProperties
<1>3. Len(SubSeq(s, 1, n)) = n /\ \A i \in 1..n : SubSeq(s, 1, n)[i] = s[i]
  BY <1>2
<1> QED
  BY <1>2, <1>3 DEF Prefix

\* What is the last move after record n, as f has it for the one before.
Later(s, f, n) ==
    IF n = 0 THEN 0 ELSE IF s[n].rests = f[n - 1] THEN n ELSE f[n - 1]

\* A function is the fold of the first k records of s.
Follows(f, s, k) == f = [n \in 0..k |-> Later(s, f, n)]

LEMMA FollowsExists ==
    ASSUME NEW s, NEW k \in Nat
    PROVE  \E f : Follows(f, s, k)
<1> DEFINE T == {n \in Nat : ~ \E f : Follows(f, s, n)}
<1> SUFFICES ASSUME T # {} PROVE FALSE
  OBVIOUS
<1>1. PICK n \in T : \A m \in T : n <= m
  <2>1. T \subseteq Nat
    OBVIOUS
  <2> HIDE DEF T
  <2> QED
    BY <2>1, Least
<1>2. n \in Nat
  OBVIOUS
<1>3. \E f : \A m \in 0..(n - 1) : f[m] = Later(s, f, m)
  <2>1. CASE n = 0
    BY <2>1
  <2>2. CASE n # 0
    <3>1. n - 1 \in Nat /\ ~ (n <= n - 1)
      BY <1>2, <2>2
    <3>2. n - 1 \notin T
      BY <1>1, <3>1
    <3>3. PICK f : Follows(f, s, n - 1)
      BY <3>1, <3>2
    <3> QED
      BY <3>3 DEF Follows
  <2> QED
    BY <2>1, <2>2
<1>4. PICK f : \A m \in 0..(n - 1) : f[m] = Later(s, f, m)
  BY <1>3
<1> DEFINE g == [m \in 0..n |-> Later(s, f, m)]
<1>5. ASSUME NEW m \in 0..n
      PROVE  Later(s, f, m) = Later(s, g, m)
  <2>1. m # 0 => m - 1 \in 0..(n - 1) /\ m - 1 \in 0..n
    BY <1>2
  <2>2. m # 0 => f[m - 1] = g[m - 1]
    BY <1>4, <2>1
  <2> HIDE DEF g
  <2> QED
    BY <2>2 DEF Later
<1>6. Follows(g, s, n)
  BY <1>5 DEF Follows
<1> QED
  BY <1>6

LEMMA LastMoveType ==
    ASSUME NEW s, Len(s) \in Nat
    PROVE  LastMove(s) \in 0..Len(s)
<1> DEFINE f == CHOOSE g : Follows(g, s, Len(s))
<1>1. LastMove(s) = f[Len(s)]
  BY DEF LastMove, Follows, Later
<1>2. Follows(f, s, Len(s))
  BY FollowsExists
<1> HIDE DEF f
<1> DEFINE T == {n \in 0..Len(s) : f[n] \notin 0..n}
<1>3. T = {}
  <2> SUFFICES ASSUME T # {} PROVE FALSE
    OBVIOUS
  <2>1. PICK n \in T : \A m \in T : n <= m
    <3>1. T \subseteq Nat
      OBVIOUS
    <3> HIDE DEF T
    <3> QED
      BY <3>1, Least
  <2>2. n \in Nat /\ f[n] = Later(s, f, n)
    BY <1>2 DEF Follows
  <2>3. n # 0 => n - 1 \in 0..Len(s) /\ n - 1 \in Nat /\ ~ (n <= n - 1)
    OBVIOUS
  <2>4. n # 0 => f[n - 1] \in 0..(n - 1)
    BY <2>1, <2>3
  <2> QED
    BY <2>2, <2>4 DEF Later
<1> QED
  BY <1>1, <1>3

-----------------------------------------------------------------------------
(* The log.                                                                *)

LEMMA IdsFinite ==
    /\ IsFiniteSet(Ids) /\ Cardinality(Ids) = MaxPrepared
    /\ \A S \in SUBSET Ids : /\ IsFiniteSet(S) /\ Cardinality(S) \in Nat
                             /\ Cardinality(S) <= MaxPrepared
<1>1. 1 \in Int /\ MaxPrepared \in Int /\ MaxPrepared \in Nat
  BY BoundsAssumption
<1>2. IsFiniteSet(Ids) /\ Cardinality(Ids) = IF 1 > MaxPrepared THEN 0 ELSE MaxPrepared - 1 + 1
  BY <1>1, FS_Interval DEF Ids
<1>3. Cardinality(Ids) = MaxPrepared
  BY <1>1, <1>2
<1> QED
  BY <1>2, <1>3, FS_Subset, FS_CardinalityType

\* The log never outgrows the drafts and the counted records of others.
LEMMA LogFits ==
    ASSUME LogPart
    PROVE  /\ Len(log) \in Nat /\ published \in Nat /\ published <= Len(log)
           /\ Len(log) <= MaxPrepared + MaxOthers
<1>1. Cardinality(Recorded(log)) \in Nat /\ Cardinality(Recorded(log)) <= MaxPrepared
  BY IdsFinite DEF Recorded
<1>2. Len(log) \in Nat
  BY DEF LogPart
<1> QED
  BY <1>1, <1>2, BoundsAssumption DEF LogPart

\* What is shown as the last move, and what another writer rests on.
LEMMA LastMoveFits ==
    ASSUME LogPart
    PROVE  LastMove(View) \in Positions /\ LastMove(log) \in Positions
<1>1. /\ Len(log) \in Nat /\ published \in Nat /\ published <= Len(log)
      /\ Len(log) <= MaxPrepared + MaxOthers
  BY LogFits
<1>2. Len(View) = published
  BY <1>1, PrefixType DEF LogPart, View
<1>3. LastMove(View) \in 0..published /\ LastMove(log) \in 0..Len(log)
  BY <1>1, <1>2, LastMoveType
<1> QED
  BY <1>1, <1>3, BoundsAssumption DEF Positions

\* The log stays, and more of it is published.
LEMMA LogStays ==
    ASSUME LogPart, UNCHANGED <<log, others>>, published' \in {published, Len(log)}
    PROVE  LogPart' /\ published <= published'
<1>1. /\ Len(log) \in Nat /\ published \in Nat /\ published <= Len(log)
  BY LogFits
<1> QED
  BY <1>1 DEF LogPart, OneRecordPerDraft, Recorded, Records

\* A draft without a record gets one.
LEMMA LogDrafted ==
    ASSUME LogPart, NEW e \in Entry, e.draft \in Ids, Records(log, e.draft) = {},
           log' = Append(log, e), others' = others, published' \in {published, Len(log')}
    PROVE  LogPart' /\ published <= published'
<1>1. /\ log \in Seq(Entry) /\ log' \in Seq(Entry) /\ Len(log) \in Nat /\ Len(log') = Len(log) + 1
      /\ log'[Len(log) + 1] = e /\ \A n \in 1..Len(log) : log'[n] = log[n]
      /\ published \in 0..Len(log)
  BY DEF LogPart
<1>2. \A n \in 1..Len(log') : n \in 1..Len(log) \/ n = Len(log) + 1
  BY <1>1
<1>3. \A n \in 1..Len(log) : n \in 1..Len(log') /\ log[n].draft # e.draft
  BY <1>1 DEF Records
<1>4. OneRecordPerDraft'
  BY <1>1, <1>2, <1>3 DEF LogPart, OneRecordPerDraft
<1>5. e.draft \notin Recorded(log) /\ Recorded(log) \subseteq Ids
  BY DEF Recorded
<1>6. Recorded(log) \cup {e.draft} \subseteq Recorded(log') /\ Recorded(log') \subseteq Ids
  <2>1. Len(log') \in 1..Len(log') /\ log'[Len(log')] = e
    BY <1>1
  <2>2. e.draft \in Recorded(log')
    BY <2>1 DEF Recorded, Records
  <2>3. \A d \in Recorded(log) : d \in Recorded(log')
    BY <1>1, <1>3 DEF Recorded, Records
  <2> QED
    BY <2>2, <2>3 DEF Recorded
<1>7. /\ Cardinality(Recorded(log) \cup {e.draft}) = Cardinality(Recorded(log)) + 1
      /\ Cardinality(Recorded(log)) \in Nat /\ IsFiniteSet(Recorded(log'))
      /\ Cardinality(Recorded(log')) \in Nat
  BY <1>5, <1>6, IdsFinite, FS_AddElement
<1>8. Cardinality(Recorded(log) \cup {e.draft}) <= Cardinality(Recorded(log'))
  BY <1>6, <1>7, FS_Subset
<1>9. others \in Nat /\ Len(log) <= Cardinality(Recorded(log)) + others
  BY BoundsAssumption DEF LogPart
<1>10. Len(log') <= Cardinality(Recorded(log')) + others'
  BY <1>1, <1>7, <1>8, <1>9
<1>11. published' \in 0..Len(log') /\ published <= published'
  BY <1>1
<1> QED
  BY <1>1, <1>4, <1>10, <1>11 DEF LogPart

\* Another client's record is counted.
LEMMA LogOther ==
    ASSUME LogPart, NEW e \in Entry, e.draft = None,
           log' = Append(log, e), others < MaxOthers, others' = others + 1,
           published' \in {published, Len(log')}
    PROVE  LogPart' /\ published <= published'
<1>1. /\ log \in Seq(Entry) /\ log' \in Seq(Entry) /\ Len(log) \in Nat /\ Len(log') = Len(log) + 1
      /\ log'[Len(log) + 1] = e /\ \A n \in 1..Len(log) : log'[n] = log[n]
      /\ published \in 0..Len(log)
  BY DEF LogPart
<1>2. \A n \in 1..Len(log') : n \in 1..Len(log) \/ n = Len(log) + 1
  BY <1>1
<1>3. OneRecordPerDraft'
  BY <1>1, <1>2 DEF LogPart, OneRecordPerDraft
<1>4. Recorded(log) \subseteq Recorded(log') /\ Recorded(log') \subseteq Ids
  <2>1. \A n \in 1..Len(log) : n \in 1..Len(log')
    BY <1>1
  <2> QED
    BY <1>1, <2>1 DEF Recorded, Records
<1>5. /\ Cardinality(Recorded(log)) \in Nat /\ Cardinality(Recorded(log')) \in Nat
      /\ Cardinality(Recorded(log)) <= Cardinality(Recorded(log'))
  BY <1>4, IdsFinite, FS_Subset
<1>6. others \in Nat /\ Len(log) <= Cardinality(Recorded(log)) + others
  BY BoundsAssumption DEF LogPart
<1>7. Len(log') <= Cardinality(Recorded(log')) + others'
  BY <1>1, <1>5, <1>6
<1>8. published' \in 0..Len(log') /\ published <= published' /\ others' \in 0..MaxOthers
  BY <1>1, <1>6, BoundsAssumption
<1> QED
  BY <1>1, <1>3, <1>7, <1>8 DEF LogPart

-----------------------------------------------------------------------------
(* The table.                                                              *)

LEMMA TableFinite ==
    ASSUME NEW S, S \subseteq Ids, NEW T, T \subseteq S
    PROVE  /\ Cardinality(S) \in Nat /\ Cardinality(T) \in Nat
           /\ Cardinality(T) <= Cardinality(S)
BY IdsFinite, FS_Subset

LEMMA PrunedFacts ==
    ASSUME TablePart
    PROVE  /\ Pruned \in [Ids -> Draft \cup {None}]
           /\ \A d \in Ids : Pruned[d] \in {drafts[d], None}
           /\ Kept \subseteq Ids
BY DEF TablePart, Pruned, Kept

\* Drafts go, some of them refused; more of the log is published.
LEMMA TableShrinks ==
    ASSUME IInv, \A d \in Ids : drafts'[d] \in {drafts[d], None},
           drafts' \in [Ids -> Draft \cup {None}],
           drawn' = drawn, published' \in Nat, published <= published',
           \A d \in refused' : d \in refused \/ (d \in Ids /\ d <= drawn /\ drafts'[d] = None)
    PROVE  TablePart'
<1>1. TablePart /\ Len(log) \in Nat /\ published \in Nat
  BY LogFits DEF IInv
<1>2. Table' \subseteq Table /\ Table \subseteq Ids
  BY DEF Table
<1>3. Cardinality(Table') <= MaxDrafts
  BY <1>1, <1>2, TableFinite, BoundsAssumption DEF TablePart
<1>4. ASSUME NEW d \in Table'
      PROVE  d <= drawn' /\ drafts'[d].record <= published'
  <2>1. d \in Table /\ drafts'[d] = drafts[d] /\ drafts[d] \in Draft
    BY <1>1, <1>2, <1>4 DEF Table, TablePart
  <2>2. drafts[d].record \in Nat /\ drafts[d].record <= published /\ d <= drawn
    BY <1>1, <2>1, BoundsAssumption DEF TablePart, Draft, Positions
  <2> QED
    BY <1>1, <2>1, <2>2
<1>5. \A d \in refused' : d \in Ids /\ d <= drawn' /\ drafts'[d] = None
  BY <1>1 DEF TablePart
<1> QED
  BY <1>1, <1>3, <1>4, <1>5 DEF TablePart

\* A draft learns its record.
LEMMA TableLearns ==
    ASSUME IInv, NEW d \in Table, NEW n \in Positions, n <= published',
           drafts' = [drafts EXCEPT ![d].record = n], drawn' = drawn, refused' = refused,
           published' \in Nat, published <= published'
    PROVE  TablePart' /\ Table' = Table
<1>1. TablePart /\ Len(log) \in Nat /\ published \in Nat /\ d \in Ids
  BY LogFits DEF IInv, Table
<1>2. drafts[d] \in Draft
  BY <1>1 DEF TablePart, Table
<1> DEFINE new == [drafts[d] EXCEPT !.record = n]
<1>3. new \in Draft /\ new.record = n
  BY <1>2 DEF Draft
<1>4. /\ drafts' \in [Ids -> Draft \cup {None}] /\ drafts'[d] = new
      /\ \A c \in Ids \ {d} : drafts'[c] = drafts[c]
  BY <1>1, <1>3 DEF TablePart
<1>5. new # None
  BY <1>3, NoneAssumption
<1> HIDE DEF new
<1>6. Table' = Table
  BY <1>1, <1>4, <1>5 DEF Table
<1>7. \A c \in Table' : c <= drawn' /\ drafts'[c].record <= published'
  <2> SUFFICES ASSUME NEW c \in Table PROVE c <= drawn /\ drafts'[c].record <= published'
    BY <1>6
  <2>1. drafts[c] \in Draft /\ c \in Ids
    BY <1>1 DEF TablePart, Table
  <2>2. drafts[c].record \in Nat /\ drafts[c].record <= published /\ c <= drawn
    BY <1>1, <2>1, BoundsAssumption DEF TablePart, Draft, Positions
  <2> QED
    BY <1>1, <1>3, <1>4, <2>1, <2>2
<1>8. \A c \in refused : c # d
  BY <1>1, <1>2, NoneAssumption DEF TablePart
<1> QED
  BY <1>1, <1>4, <1>6, <1>7, <1>8 DEF TablePart

\* A draft is stored where prepare found room.
LEMMA TableGrows ==
    ASSUME IInv, NEW new \in Draft, new.record = 0, Cardinality(Table) < MaxDrafts,
           drawn < MaxPrepared, drawn' = drawn + 1,
           drafts' = [drafts EXCEPT ![drawn + 1] = new],
           refused' = refused, published' = published
    PROVE  TablePart'
<1> DEFINE d == drawn + 1
<1>1. /\ TablePart /\ Len(log) \in Nat /\ published \in Nat /\ d \in Ids /\ drawn \in Nat
      /\ d <= drawn' /\ drawn' \in 0..MaxPrepared
  BY LogFits, BoundsAssumption DEF IInv, TablePart, Ids
<1>2. /\ drafts' \in [Ids -> Draft \cup {None}] /\ drafts'[d] = new
      /\ \A c \in Ids \ {d} : drafts'[c] = drafts[c]
  BY <1>1 DEF TablePart
<1>3. Table' \subseteq Table \cup {d} /\ Table \cup {d} \subseteq Ids /\ IsFiniteSet(Table)
  BY <1>1, <1>2, IdsFinite DEF Table
<1>4. Cardinality(Table') <= MaxDrafts
  <2>1. Cardinality(Table \cup {d}) \in {Cardinality(Table), Cardinality(Table) + 1}
    BY <1>3, FS_AddElement
  <2>2. Cardinality(Table) \in Nat /\ Cardinality(Table') \in Nat
        /\ Cardinality(Table') <= Cardinality(Table \cup {d})
    BY <1>3, TableFinite
  <2> QED
    BY <2>1, <2>2, BoundsAssumption
<1>5. ASSUME NEW c \in Table'
      PROVE  c <= drawn' /\ drafts'[c].record <= published'
  <2>1. CASE c = d
    BY <1>1, <1>2, <2>1
  <2>2. CASE c # d
    <3>1. c \in Table /\ c \in Ids /\ c \in Nat
      BY <1>2, <1>3, <2>2, <1>5, BoundsAssumption DEF Table, Ids
    <3>2. c <= drawn /\ drafts[c].record <= published
      BY <1>1, <3>1 DEF TablePart
    <3> QED
      BY <1>1, <1>2, <2>2, <3>1, <3>2
  <2> QED
    BY <2>1, <2>2
<1>6. \A c \in refused' : c \in Ids /\ c <= drawn' /\ drafts'[c] = None
  <2> SUFFICES ASSUME NEW c \in refused PROVE c \in Ids /\ c <= drawn' /\ drafts'[c] = None
    OBVIOUS
  <2>1. c \in Ids /\ c \in Nat /\ c <= drawn /\ drafts[c] = None
    BY <1>1, BoundsAssumption DEF TablePart, Ids
  <2>2. c # d /\ c <= drawn'
    BY <1>1, <2>1
  <2> QED
    BY <1>2, <2>1, <2>2
<1> QED
  BY <1>1, <1>2, <1>4, <1>5, <1>6 DEF TablePart

-----------------------------------------------------------------------------
(* The tabs and their requests.                                            *)

\* A step that the table and the log sleep through.
LEMMA TableStays ==
    ASSUME IInv, UNCHANGED <<drafts, drawn, published>>,
           \A d \in refused' : d \in refused
    PROVE  TablePart'
<1>1. /\ TablePart /\ published \in Nat
  BY LogFits DEF IInv
<1> QED
  BY <1>1, TableShrinks DEF TablePart

Same(t) == tab'[t].phase = tab[t].phase /\ tab'[t].draft = tab[t].draft

\* The tabs ts move, and nobody in the network speaks for them.
LEMMA ClientsMove ==
    ASSUME IInv, NEW ts, tab' \in [Tabs -> Tab], \A t \in Tabs \ ts : Same(t),
           \A t \in ts : TabOK(t)', drawn' \in Nat, drawn <= drawn',
           requests' \subseteq requests, \A q \in requests' : q.from \notin ts
    PROVE  ClientPart'
<1>1. ClientPart /\ drawn \in Nat
  BY BoundsAssumption DEF IInv, TablePart
<1>2. ASSUME NEW t \in Tabs
      PROVE  TabOK(t)'
  <2>1. CASE t \in ts
    BY <2>1
  <2>2. CASE t \notin ts
    BY <1>1, <2>2, BoundsAssumption DEF ClientPart, TabOK, Same, Ids
  <2> QED
    BY <2>1, <2>2
<1>3. ASSUME NEW q \in requests'
      PROVE  RequestOK(q)'
  <2>1. RequestOK(q) /\ q \in Submission /\ q.draft \in Nat /\ q.from \in Tabs \cup {None}
    BY <1>1, BoundsAssumption DEF ClientPart, Submission, Ids
  <2>2. q.from # None => Same(q.from)
    BY <1>3, <2>1
  <2> QED
    BY <1>1, <2>1, <2>2 DEF RequestOK, At, Same
<1> QED
  BY <1>1, <1>2, <1>3 DEF ClientPart

\* The request that is served goes on.
LEMMA ServingStays ==
    ASSUME IInv, serving' = serving, Table' = Table, drawn' = drawn,
           requests' \subseteq requests,
           serving # None /\ serving.from # None => Same(serving.from)
    PROVE  ServingPart'
BY DEF IInv, ServingPart, RequestOK, At, Same

LEMMA TabTypes ==
    ASSUME IInv, NEW t \in Tabs
    PROVE  /\ Watching(t) \in Tab /\ Watching(t).phase = "watching"
           /\ tab[t] \in Tab /\ TabOK(t) /\ now \in Nat
BY BoundsAssumption DEF IInv, ClientPart, Watching, Tab, Rests, RestPart

\* One tab moves by itself, and was not waiting for anything.
LEMMA OneTab ==
    ASSUME IInv, NEW t \in Tabs, tab[t].phase \notin {"preparing", "submitting"},
           NEW new \in Tab, tab' = [tab EXCEPT ![t] = new],
           new.phase \in {"unsigned", "signed", "submitting"} =>
               new.draft \in Ids /\ new.draft <= drawn,
           UNCHANGED <<drafts, drawn, requests, serving>>
    PROVE  ClientPart' /\ ServingPart'
<1>1. ClientPart /\ TablePart /\ ServingPart /\ drawn \in Nat
  BY BoundsAssumption DEF IInv, TablePart
<1>2. tab' \in [Tabs -> Tab] /\ tab'[t] = new /\ \A x \in Tabs \ {t} : Same(x)
  BY <1>1 DEF ClientPart, Same
<1>3. \A q \in requests' : q.from \notin {t}
  BY <1>1, NoneAssumption DEF ClientPart, RequestOK, At
<1>4. /\ \A x \in {t} : TabOK(x)'
      /\ drawn' \in Nat /\ drawn <= drawn' /\ requests' \subseteq requests
  BY <1>1, <1>2 DEF TabOK
<1>5. ClientPart'
  BY <1>1, <1>2, <1>3, <1>4, ClientsMove
<1>6. serving # None /\ serving.from # None => Same(serving.from)
  <2> SUFFICES ASSUME serving # None, serving.from # None PROVE Same(serving.from)
    OBVIOUS
  <2>1. serving \in Prepare \cup Submission /\ serving.from \in Tabs
    BY <1>1 DEF ServingPart, Prepare, Submission
  <2>2. serving.from # t
    BY <1>1, <2>1 DEF ServingPart, RequestOK, At, Prepare, Submission
  <2> QED
    BY <1>2, <2>1, <2>2
<1>7. ServingPart'
  BY <1>6, ServingStays DEF Table
<1> QED
  BY <1>5, <1>7

LEMMA RestKept ==
    ASSUME IInv, UNCHANGED shown, now' \in 0..MaxTime, Fault \/ UNCHANGED faults
    PROVE  RestPart'
BY BoundsAssumption DEF IInv, RestPart, Fault

\* Neither the repository nor the table takes part.
LEMMA Quiet ==
    ASSUME IInv, UNCHANGED <<drafts, drawn, repository, heard, others>>
    PROVE  LogPart' /\ TablePart'
BY LogStays, TableStays DEF IInv, repository, heard

LEMMA ChooseInv ==
    ASSUME IInv, NEW t \in Tabs, Choose(t)
    PROVE  IInv'
<1>1. PICK rests \in {None, tab[t].board} :
         tab' = [tab EXCEPT ![t] = [Watching(t) EXCEPT !.phase = "chosen", !.rests = rests]]
  BY DEF Choose
<1> DEFINE new == [Watching(t) EXCEPT !.phase = "chosen", !.rests = rests]
<1>2. new \in Tab /\ new.phase = "chosen"
  BY TabTypes DEF Watching, Tab, Rests
<1> HIDE DEF new
<1>3. tab' = [tab EXCEPT ![t] = new]
  BY <1>1 DEF new
<1>4. ClientPart' /\ ServingPart'
  BY <1>2, <1>3, OneTab DEF Choose
<1>5. LogPart' /\ TablePart'
  BY Quiet DEF Choose
<1>6. RestPart'
  BY RestKept DEF Choose, IInv, RestPart, heard
<1> QED
  BY <1>4, <1>5, <1>6 DEF IInv

LEMMA CancelInv ==
    ASSUME IInv, NEW t \in Tabs, Cancel(t)
    PROVE  IInv'
<1>1. ClientPart' /\ ServingPart'
  BY TabTypes, OneTab DEF Cancel
<1>2. LogPart' /\ TablePart'
  BY Quiet DEF Cancel
<1>3. RestPart'
  BY RestKept DEF Cancel, IInv, RestPart, heard
<1> QED
  BY <1>1, <1>2, <1>3 DEF IInv

LEMMA RefreshInv ==
    ASSUME IInv, NEW t \in Tabs, Refresh(t)
    PROVE  IInv'
<1> DEFINE last == LastMove(View)
           base == IF last # tab[t].board /\ At(t, "unsigned") THEN Watching(t) ELSE tab[t]
           new  == [base EXCEPT !.board = last]
<1>1. last \in Positions
  BY LastMoveFits DEF IInv
<1>2. base \in Tab
  BY TabTypes
<1>3. new \in Tab /\ new.phase = base.phase /\ new.draft = base.draft
  BY <1>1, <1>2 DEF Tab
<1>4. tab' = [tab EXCEPT ![t] = new]
  BY DEF Refresh
<1>5. base.phase \in {"unsigned", "signed", "submitting"} =>
         base.draft \in Ids /\ base.draft <= drawn
  BY TabTypes DEF TabOK
<1> HIDE DEF new
<1>6. ClientPart' /\ ServingPart'
  <2>1. CASE tab[t].phase \notin {"preparing", "submitting"}
    BY <1>3, <1>4, <1>5, <2>1, OneTab DEF Refresh
  <2>2. CASE tab[t].phase \in {"preparing", "submitting"}
    <3>1. base = tab[t]
      BY <2>2 DEF At
    <3>2. ClientPart /\ drawn \in Nat
      BY BoundsAssumption DEF IInv, TablePart
    <3>3. tab' \in [Tabs -> Tab] /\ \A x \in Tabs : Same(x)
      BY <1>3, <1>4, <3>1, <3>2 DEF ClientPart, Same
    <3>4. ClientPart'
      <4>1. PICK ts : ts = {}
        OBVIOUS
      <4>2. /\ drawn' \in Nat /\ drawn <= drawn' /\ requests' \subseteq requests
            /\ \A x \in Tabs \ ts : Same(x)
            /\ \A x \in ts : TabOK(x)'
            /\ \A q \in requests' : q.from \notin ts
        BY <3>2, <3>3, <4>1 DEF Refresh
      <4> QED
        BY <3>3, <4>2, ClientsMove
    <3>5. serving # None /\ serving.from # None => Same(serving.from)
      BY <3>3 DEF IInv, ServingPart, Prepare, Submission
    <3>6. ServingPart'
      BY <3>5, ServingStays DEF Refresh, Table
    <3> QED
      BY <3>4, <3>6
  <2> QED
    BY <2>1, <2>2
<1>7. LogPart' /\ TablePart'
  BY Quiet DEF Refresh
<1>8. RestPart'
  BY RestKept DEF Refresh, IInv, RestPart, heard
<1> QED
  BY <1>6, <1>7, <1>8 DEF IInv

LEMMA SubmitInv ==
    ASSUME IInv, NEW t \in Tabs, Submit(t)
    PROVE  IInv'
<1>1. LogPart' /\ TablePart'
  BY Quiet DEF Submit
<1>2. RestPart'
  BY RestKept DEF Submit, IInv, RestPart, heard
<1>3. CASE Expired(t)
  <2>1. ClientPart' /\ ServingPart'
    BY <1>3, TabTypes, OneTab DEF Submit
  <2> QED
    BY <1>1, <1>2, <2>1 DEF IInv
<1>4. CASE ~Expired(t)
  <2> DEFINE r == [kind |-> "submit", from |-> t, draft |-> tab[t].draft]
             new == [tab[t] EXCEPT !.phase = "submitting"]
  <2>1. /\ tab' = [tab EXCEPT ![t] = new] /\ requests' = requests \cup {r}
        /\ UNCHANGED <<drafts, drawn, serving>>
    BY <1>4 DEF Submit
  <2>2. /\ tab[t] \in Tab /\ tab[t].phase \in {"unsigned", "signed"}
        /\ tab[t].draft \in Ids /\ tab[t].draft <= drawn
    BY TabTypes DEF Submit, TabOK
  <2>3. new \in Tab /\ new.phase = "submitting" /\ new.draft = tab[t].draft
    BY <2>2 DEF Tab
  <2> HIDE DEF new
  <2>4. ClientPart /\ ServingPart
    BY DEF IInv
  <2>5. /\ tab' \in [Tabs -> Tab] /\ tab'[t] = new
        /\ \A x \in Tabs \ {t} : tab'[x] = tab[x]
    BY <2>1, <2>3, <2>4 DEF ClientPart
  <2>6. r \in Submission /\ r.from = t /\ r.draft = tab[t].draft
    BY <2>2 DEF Submission
  <2> HIDE DEF r
  <2>7. ASSUME NEW x \in Tabs
        PROVE  TabOK(x)'
    BY <2>1, <2>2, <2>3, <2>4, <2>5 DEF ClientPart, TabOK
  <2>8. ASSUME NEW q \in requests'
        PROVE  RequestOK(q)'
    <3>1. CASE q = r
      BY <2>1, <2>2, <2>3, <2>5, <2>6, <3>1 DEF RequestOK, At
    <3>2. CASE q \in requests
      <4>1. RequestOK(q) /\ q.from \in Tabs \cup {None} /\ q.from # t
        BY <2>2, <2>4, <3>2, NoneAssumption DEF ClientPart, RequestOK, At, Submission
      <4> QED
        BY <2>1, <2>5, <4>1 DEF RequestOK, At
    <3> QED
      BY <2>1, <2>8, <3>1, <3>2
  <2>9. ClientPart'
    BY <2>1, <2>4, <2>5, <2>6, <2>7, <2>8 DEF ClientPart
  <2>10. ServingPart'
    <3>1. CASE serving = None
      BY <2>1, <3>1 DEF ServingPart
    <3>2. CASE serving # None
      <4>1. serving \in Prepare \cup Submission /\ serving.from \in Tabs \cup {None} /\ serving.from # t
        BY <2>2, <2>4, <3>2, NoneAssumption DEF ServingPart, RequestOK, At, Prepare, Submission
      <4>2. serving # r
        BY <2>6, <4>1
      <4> QED
        BY <2>1, <2>4, <2>5, <4>1, <4>2 DEF ServingPart, RequestOK, At, Table
    <3> QED
      BY <3>1, <3>2
  <2> QED
    BY <1>1, <1>2, <2>9, <2>10 DEF IInv
<1> QED
  BY <1>3, <1>4

-----------------------------------------------------------------------------
(* Requests that are answered.                                             *)

LEMMA RequestTypes ==
    ASSUME IInv
    PROVE  /\ serving # None => serving \in Prepare \cup Submission
           /\ serving # None /\ serving.kind = "submit" => serving \in Submission
           /\ serving # None /\ serving.kind = "prepare" => serving \in Prepare
           /\ \A q \in Submission : q.kind = "submit" /\ q.draft \in Ids /\ q.from \in Tabs \cup {None}
           /\ \A q \in Prepare : q.kind = "prepare" /\ q.from \in Tabs \cup {None}
BY DEF IInv, ServingPart, Prepare, Submission

\* A tab waits for one request.
LEMMA OneRequest ==
    ASSUME IInv
    PROVE  /\ \A q \in requests : \A x \in requests \ {q} : x.from \notin Waiting(q)
           /\ serving # None => \A x \in requests : x.from \notin Waiting(serving)
<1>1. ClientPart /\ ServingPart /\ None \notin Submission
  BY NoneAssumption DEF IInv
<1>2. \A q, x \in Submission : q.from = x.from /\ q.draft = x.draft => q = x
  BY DEF Submission
<1>3. ASSUME NEW q \in requests, NEW x \in requests \ {q}
      PROVE  x.from \notin Waiting(q)
  BY <1>1, <1>2 DEF ClientPart, RequestOK, Waiting
<1>4. ASSUME serving # None, NEW x \in requests
      PROVE  x.from \notin Waiting(serving)
  <2>1. CASE serving.kind = "submit"
    BY <1>1, <1>2, <1>4, <2>1, RequestTypes DEF ClientPart, ServingPart, RequestOK, Waiting
  <2>2. CASE serving.kind = "prepare"
    BY <1>1, <1>4, <2>2 DEF ClientPart, ServingPart, RequestOK, Waiting, At
  <2> QED
    BY <1>4, <2>1, <2>2, RequestTypes
<1> QED
  BY <1>3, <1>4

\* The tabs that wait for q get back an action to submit again, or none.
LEMMA FailTabs ==
    ASSUME IInv, NEW q \in Submission, RequestOK(q), NEW status, FailSubmit(q, status),
           drawn' = drawn
    PROVE  /\ tab' \in [Tabs -> Tab] /\ \A t \in Tabs \ Waiting(q) : Same(t)
           /\ \A t \in Waiting(q) : TabOK(t)'
           /\ shown' = shown
           /\ status # 400 => refused' = refused
           /\ \A d \in refused' : d \in refused \/ d = q.draft
<1>1. Waiting(q) \subseteq Tabs /\ ClientPart
  BY RequestTypes DEF Waiting, IInv
<1>2. \A t \in Waiting(q) : At(t, "submitting") /\ tab[t].draft = q.draft
  BY DEF RequestOK, Waiting
<1>3. /\ tab' = [t \in Tabs |-> IF t \notin Waiting(q) THEN tab[t]
                                ELSE IF Refusal(status) \/ Expired(t) THEN Watching(t)
                                ELSE [tab[t] EXCEPT !.phase = "signed"]]
      /\ refused' = IF Refusal(status) THEN refused \cup {tab[t].draft : t \in Waiting(q)}
                    ELSE refused
      /\ shown' = shown
  BY DEF FailSubmit, Fail
<1>4. ASSUME NEW t \in Tabs
      PROVE  [tab[t] EXCEPT !.phase = "signed"] \in Tab /\ Watching(t) \in Tab /\ tab[t] \in Tab
  <2>1. tab[t] \in Tab /\ Watching(t) \in Tab
    BY TabTypes
  <2>2. [tab[t] EXCEPT !.phase = "signed"] \in Tab
    BY <2>1 DEF Tab
  <2> QED
    BY <2>1, <2>2
<1>5. tab' \in [Tabs -> Tab]
  BY <1>3, <1>4
<1>6. \A t \in Tabs \ Waiting(q) : Same(t)
  BY <1>3 DEF Same
<1>7. ASSUME NEW t \in Waiting(q)
      PROVE  TabOK(t)'
  <2>1. tab[t] \in Tab /\ tab[t].draft \in Ids /\ tab[t].draft <= drawn
        /\ Watching(t).phase = "watching"
    BY <1>1, <1>2, <1>7, TabTypes DEF TabOK, At
  <2>2. tab'[t] \in {Watching(t), [tab[t] EXCEPT !.phase = "signed"]}
    BY <1>1, <1>3, <1>7
  <2>3. [tab[t] EXCEPT !.phase = "signed"].draft = tab[t].draft
    BY <2>1 DEF Tab
  <2> QED
    BY <2>1, <2>2, <2>3 DEF TabOK
<1>8. status # 400 => refused' = refused
  BY <1>3 DEF Refusal
<1>9. \A d \in refused' : d \in refused \/ d = q.draft
  BY <1>2, <1>3
<1> QED
  BY <1>3, <1>5, <1>6, <1>7, <1>8, <1>9

\* A request is answered, its tabs move, and the mutex is free.
LEMMA Answered ==
    ASSUME IInv, NEW q \in Prepare \cup Submission,
           tab' \in [Tabs -> Tab], \A t \in Tabs \ Waiting(q) : Same(t),
           \A t \in Waiting(q) : TabOK(t)', drawn' \in Nat, drawn <= drawn',
           requests' \subseteq requests, \A x \in requests' : x.from \notin Waiting(q),
           serving' = None
    PROVE  ClientPart' /\ ServingPart'
BY ClientsMove DEF ServingPart

LEMMA AcceptSubmitInv ==
    ASSUME IInv, NEW q \in requests, AcceptSubmit(q)
    PROVE  IInv'
<1>1. /\ q \in Submission /\ RequestOK(q) /\ q \in Prepare \cup Submission /\ q.kind = "submit"
      /\ q.draft \in Ids /\ q.draft \in Nat
      /\ ClientPart /\ TablePart /\ drawn \in Nat /\ published \in Nat
  <2>1. ClientPart /\ TablePart /\ LogPart
    BY DEF IInv
  <2>2. q \in Submission /\ RequestOK(q)
    BY <2>1 DEF ClientPart
  <2>3. q.kind = "submit" /\ q.draft \in Ids
    BY <2>2, RequestTypes
  <2>4. q.draft \in Nat
    BY <2>3 DEF Ids
  <2>5. drawn \in Nat
    BY <2>1, BoundsAssumption DEF TablePart
  <2>6. published \in Nat
    BY <2>1, LogFits
  <2> QED
    BY <2>1, <2>2, <2>3, <2>4, <2>5, <2>6
<1>2. /\ serving = None /\ requests' = requests \ {q} /\ drafts' = Pruned /\ drawn' = drawn
      /\ UNCHANGED <<log, published, now, others>>
  BY DEF AcceptSubmit, repository
<1>3. LogPart'
  BY <1>2, LogStays DEF IInv
<1>4. RestPart' /\ shown' = shown
  <2>1. shown' = shown /\ (Fault \/ UNCHANGED faults)
    BY DEF AcceptSubmit, FailSubmit, Fail, heard, NoFault
  <2> QED
    BY <1>2, <2>1, RestKept DEF IInv, RestPart
<1>5. /\ drafts' \in [Ids -> Draft \cup {None}]
      /\ \A d \in Ids : drafts'[d] \in {drafts[d], None}
  BY <1>1, <1>2, PrunedFacts
<1>6. requests' \subseteq requests /\ drawn' \in Nat /\ drawn <= drawn'
      /\ \A x \in requests' : x.from \notin Waiting(q)
  BY <1>1, <1>2, OneRequest
<1>7. CASE \E status \in {400, 503} :
              /\ FailSubmit(q, status) /\ UNCHANGED serving
              /\ status = 400 => Pruned[q.draft] = None
  <2>1. PICK status \in {400, 503} :
              /\ FailSubmit(q, status) /\ serving' = serving
              /\ status = 400 => Pruned[q.draft] = None
    BY <1>7
  <2>2. /\ tab' \in [Tabs -> Tab] /\ \A t \in Tabs \ Waiting(q) : Same(t)
        /\ \A t \in Waiting(q) : TabOK(t)'
        /\ status # 400 => refused' = refused
        /\ \A d \in refused' : d \in refused \/ d = q.draft
    BY <1>1, <1>2, <2>1, FailTabs
  <2>3. ClientPart' /\ ServingPart'
    BY <1>1, <1>2, <1>6, <2>1, <2>2, Answered
  <2>4. \A d \in refused' : d \in refused \/ (d \in Ids /\ d <= drawn /\ drafts'[d] = None)
    BY <1>1, <1>2, <2>1, <2>2 DEF RequestOK
  <2>5. TablePart'
    BY <1>1, <1>2, <1>5, <2>4, TableShrinks
  <2> QED
    BY <1>3, <1>4, <2>3, <2>5 DEF IInv
<1>8. CASE Pruned[q.draft] # None /\ serving' = q /\ UNCHANGED <<tab, heard>>
  <2>1. tab' = tab /\ refused' = refused
    BY <1>8 DEF heard
  <2>2. TablePart'
    BY <1>1, <1>2, <1>5, <2>1, TableShrinks
  <2>3. \A x \in requests' : RequestOK(x)'
    BY <1>1, <1>2, <2>1 DEF ClientPart, RequestOK, At
  <2>4. ClientPart'
    BY <1>1, <1>2, <2>1, <2>3 DEF ClientPart, TabOK
  <2>5. RequestOK(q)'
    BY <1>1, <1>2, <2>1 DEF RequestOK, At
  <2>6. q.draft \in Table' /\ q \notin requests'
    BY <1>1, <1>2, <1>8 DEF Table
  <2>7. ServingPart'
    BY <1>1, <1>8, <2>5, <2>6 DEF ServingPart
  <2> QED
    BY <1>3, <1>4, <2>2, <2>4, <2>7 DEF IInv
<1> QED
  BY <1>7, <1>8 DEF AcceptSubmit

LEMMA PrepareActionInv ==
    ASSUME IInv, NEW t \in Tabs, PrepareAction(t)
    PROVE  IInv'
<1> DEFINE rests == IF tab[t].rests = None THEN None ELSE tab[t].board
           good  == HasRoom /\ rests \in {None, LastMove(View)}
           q     == [kind |-> "prepare", from |-> t, by |-> t, rests |-> rests]
           new   == [tab[t] EXCEPT !.phase = "preparing", !.rests = rests]
<1>1. /\ ClientPart /\ TablePart /\ drawn \in Nat /\ published \in Nat
      /\ tab[t] \in Tab /\ Watching(t) \in Tab /\ Watching(t).phase = "watching"
      /\ At(t, "chosen")
  BY LogFits, TabTypes, BoundsAssumption DEF IInv, TablePart, PrepareAction
<1>2. /\ serving = None /\ requests' = requests /\ drafts' = Pruned /\ drawn' = drawn
      /\ UNCHANGED <<log, published, shown, refused, now, others>> /\ (Fault \/ UNCHANGED faults)
      /\ \/ good /\ serving' = q
            /\ tab' = [tab EXCEPT ![t].phase = "preparing", ![t].rests = rests]
         \/ serving' = serving /\ tab' = [tab EXCEPT ![t] = Watching(t)]
  BY DEF PrepareAction, repository, heard, NoFault
<1>3. rests \in Rests
  BY <1>1 DEF Tab, Rests
<1> HIDE DEF rests
<1>4. q \in Prepare /\ q.from = t /\ q.kind = "prepare"
  BY <1>3 DEF Prepare
<1>5. new \in Tab /\ new.phase = "preparing"
  BY <1>1, <1>3 DEF Tab
<1>6. tab' = [tab EXCEPT ![t] = new] \/ tab' = [tab EXCEPT ![t] = Watching(t)]
  BY <1>1, <1>2 DEF ClientPart
<1> HIDE DEF q, new
<1>7. LogPart'
  BY <1>2, LogStays DEF IInv
<1>8. RestPart'
  BY <1>2, RestKept DEF IInv, RestPart
<1>9. TablePart'
  BY <1>1, <1>2, PrunedFacts, TableShrinks
<1>10. /\ tab' \in [Tabs -> Tab] /\ \A x \in Tabs \ {t} : Same(x)
       /\ tab'[t] \in {new, Watching(t)}
  BY <1>1, <1>5, <1>6 DEF ClientPart, Same
<1>11. ClientPart'
  <2>1. /\ \A x \in {t} : TabOK(x)'
        /\ drawn' \in Nat /\ drawn <= drawn' /\ requests' \subseteq requests
    BY <1>1, <1>2, <1>5, <1>10 DEF TabOK
  <2>2. \A x \in requests' : x.from \notin {t}
    BY <1>1, <1>2, NoneAssumption DEF ClientPart, RequestOK, At
  <2> QED
    BY <1>10, <2>1, <2>2, ClientsMove
<1>12. ServingPart'
  <2>1. CASE serving' = None
    BY <2>1 DEF ServingPart
  <2>2. CASE serving' # None
    <3>1. good /\ serving' = q /\ tab' = [tab EXCEPT ![t].phase = "preparing", ![t].rests = rests]
      BY <1>2, <2>2
    <3>2. tab'[t].phase = "preparing"
      BY <1>1, <3>1 DEF ClientPart, Tab
    <3>3. Table' = Kept
      BY <1>2 DEF Table, Kept
    <3>4. Cardinality(Table') < MaxDrafts
      BY <3>1, <3>3 DEF HasRoom
    <3> QED
      BY <1>4, <3>1, <3>2, <3>4 DEF ServingPart, At
  <2> QED
    BY <2>1, <2>2
<1> QED
  BY <1>7, <1>8, <1>9, <1>11, <1>12 DEF IInv

LEMMA StoreDraftInv ==
    ASSUME IInv, StoreDraft
    PROVE  IInv'
<1> DEFINE q == serving
           d == drawn + 1
           e == now + DraftTTL
           new == [tab |-> q.by, rests |-> q.rests, expires |-> e, record |-> 0]
           ready(t) == [tab[t] EXCEPT !.phase = "unsigned", !.draft = d, !.expires = e]
<1>1. /\ q \in Prepare /\ q \in Prepare \cup Submission /\ q.by \in Tabs /\ q.rests \in Rests
      /\ Waiting(q) \subseteq Tabs /\ Cardinality(Table) < MaxDrafts
  <2>1. serving # None /\ serving.kind = "prepare" /\ ServingPart
    BY DEF StoreDraft, IInv
  <2>2. q \in Prepare
    BY <2>1, RequestTypes
  <2> QED
    BY <2>1, <2>2 DEF ServingPart, Prepare, Waiting
<1>2. /\ ClientPart /\ TablePart /\ drawn \in Nat /\ published \in Nat /\ e \in Nat
      /\ 0 \in Positions
  <2>1. ClientPart /\ TablePart /\ LogPart /\ RestPart
    BY DEF IInv
  <2>2. drawn \in Nat
    BY <2>1, BoundsAssumption DEF TablePart
  <2>3. published \in Nat
    BY <2>1, LogFits
  <2>4. now \in Nat /\ DraftTTL \in Nat
    BY <2>1, BoundsAssumption DEF RestPart
  <2>5. 0 \in Positions
    BY BoundsAssumption DEF Positions
  <2> QED
    BY <2>1, <2>2, <2>3, <2>4, <2>5
<1>3. /\ serving' = None /\ requests' = requests
      /\ UNCHANGED <<log, published, shown, refused, now, others, faults>>
  BY DEF StoreDraft, Release, repository, heard
<1>4. LogPart'
  BY <1>3, LogStays DEF IInv
<1>5. RestPart'
  BY <1>3, RestKept DEF IInv, RestPart
<1>6. requests' \subseteq requests /\ \A x \in requests' : x.from \notin Waiting(q)
  BY <1>3, OneRequest DEF StoreDraft
<1>7. CASE FailPrepare(q) /\ UNCHANGED <<drafts, drawn>>
  <2>1. TablePart'
    BY <1>3, <1>7, TableStays
  <2>2. tab' \in [Tabs -> Tab] /\ \A t \in Tabs \ Waiting(q) : Same(t)
    BY <1>2, <1>7, TabTypes DEF FailPrepare, ClientPart, Same
  <2>3. \A t \in Waiting(q) : TabOK(t)'
    BY <1>1, <1>7, TabTypes DEF FailPrepare, TabOK
  <2>4. drawn' \in Nat /\ drawn <= drawn'
    BY <1>2, <1>7
  <2>5. ClientPart' /\ ServingPart'
    BY <1>1, <1>3, <1>6, <2>2, <2>3, <2>4, Answered
  <2> QED
    BY <1>4, <1>5, <2>1, <2>5 DEF IInv
<1>8. ASSUME drawn < MaxPrepared, drawn' = d, drafts' = [drafts EXCEPT ![d] = new],
             tab' = [t \in Tabs |-> IF t \notin Waiting(q) THEN tab[t] ELSE ready(t)]
      PROVE  IInv'
  <2>1. new \in Draft /\ new.record = 0
    BY <1>1, <1>2 DEF Draft
  <2>2. d \in Ids /\ drawn' \in Nat /\ drawn <= drawn' /\ d <= drawn'
    <3>1. MaxPrepared \in Nat
      BY BoundsAssumption
    <3>2. drawn < MaxPrepared /\ drawn' = d
      BY <1>8
    <3> QED
      BY <1>2, <3>1, <3>2 DEF Ids
  <2>3. TablePart'
    <3> HIDE DEF new
    <3> QED
      BY <1>1, <1>3, <1>8, <2>1, TableGrows
  <2>4. ASSUME NEW t \in Tabs
        PROVE  ready(t) \in Tab /\ ready(t).draft = d
    <3>1. tab[t] \in Tab
      BY <1>2 DEF ClientPart
    <3> HIDE DEF d, e
    <3> QED
      BY <1>2, <2>2, <3>1 DEF Tab
  <2> HIDE DEF ready, d
  <2>5. tab' \in [Tabs -> Tab] /\ \A t \in Tabs \ Waiting(q) : Same(t)
    BY <1>2, <1>8, <2>4 DEF ClientPart, Same
  <2>6. \A t \in Waiting(q) : TabOK(t)'
    BY <1>1, <1>8, <2>2, <2>4 DEF TabOK
  <2>7. ClientPart' /\ ServingPart'
    BY <1>1, <1>3, <1>6, <2>2, <2>5, <2>6, Answered
  <2> QED
    BY <1>4, <1>5, <2>3, <2>7 DEF IInv
<1> QED
  BY <1>7, <1>8 DEF StoreDraft

-----------------------------------------------------------------------------
(* A submission that holds the mutex.                                      *)

LEMMA Submitting ==
    ASSUME IInv, SubmitDraft
    PROVE  /\ serving # None /\ serving \in Submission /\ serving \in Prepare \cup Submission
           /\ RequestOK(serving) /\ serving.draft \in Table /\ serving.draft \in Ids
           /\ drafts[serving.draft] \in Draft /\ Waiting(serving) \subseteq Tabs
           /\ serving.draft \notin refused
           /\ UNCHANGED <<drawn, requests, now, others>>
<1>1. /\ serving # None /\ serving.kind = "submit" /\ UNCHANGED <<drawn, requests, now, others>>
      /\ ServingPart /\ TablePart
  BY DEF SubmitDraft, IInv
<1>2. /\ serving \in Submission /\ RequestOK(serving) /\ serving.draft \in Table
  BY <1>1, RequestTypes DEF ServingPart
<1>3. serving.draft \in Ids /\ drafts[serving.draft] \in Draft
  BY <1>1, <1>2 DEF Table, TablePart
<1>4. serving.draft \notin refused
  BY <1>1, <1>2 DEF Table, TablePart
<1>5. Waiting(serving) \subseteq Tabs
  BY <1>2 DEF Waiting, Submission
<1> QED
  BY <1>1, <1>2, <1>3, <1>4, <1>5

LEMMA SubmitFails ==
    ASSUME IInv, SubmitDraft, FailSubmit(serving, 503), Release
    PROVE  ClientPart' /\ ServingPart' /\ refused' = refused /\ shown' = shown
<1>1. /\ serving # None /\ serving \in Submission /\ serving \in Prepare \cup Submission
      /\ RequestOK(serving) /\ UNCHANGED <<drawn, requests>> /\ serving' = None
  BY Submitting DEF Release
<1>2. drawn \in Nat
  BY BoundsAssumption DEF IInv, TablePart
<1>3. /\ tab' \in [Tabs -> Tab] /\ \A t \in Tabs \ Waiting(serving) : Same(t)
      /\ \A t \in Waiting(serving) : TabOK(t)'
      /\ shown' = shown /\ refused' = refused
  BY <1>1, FailTabs
<1>4. requests' \subseteq requests /\ \A x \in requests' : x.from \notin Waiting(serving)
  BY <1>1, OneRequest
<1> QED
  BY <1>1, <1>2, <1>3, <1>4, Answered

LEMMA ReconcileInv ==
    ASSUME IInv, SubmitDraft, Reconcile(serving)
    PROVE  IInv'
<1>1. /\ UNCHANGED <<drafts, log, drawn, now, others>> /\ published' \in {published, Len(log)}
      /\ FailSubmit(serving, 503) /\ Release /\ (Fault \/ UNCHANGED faults)
  BY Submitting DEF Reconcile, NoFault
<1>2. ClientPart' /\ ServingPart' /\ refused' = refused /\ shown' = shown
  BY <1>1, SubmitFails
<1>3. LogPart' /\ published <= published'
  BY <1>1, LogStays DEF IInv
<1>4. published' \in Nat
  BY <1>1, LogFits DEF IInv
<1>5. TablePart'
  BY <1>1, <1>2, <1>3, <1>4, TableShrinks DEF IInv, TablePart
<1>6. RestPart'
  BY <1>1, <1>2, RestKept DEF IInv, RestPart
<1> QED
  BY <1>2, <1>3, <1>5, <1>6 DEF IInv

LEMMA AppendFailsInv ==
    ASSUME IInv, SubmitDraft, AppendFails(serving)
    PROVE  IInv'
<1>1. /\ UNCHANGED <<drafts, log, published, drawn, now, others>>
      /\ FailSubmit(serving, 503) /\ Release /\ Fault
  BY Submitting DEF AppendFails, repository
<1>2. ClientPart' /\ ServingPart' /\ refused' = refused /\ shown' = shown
  BY <1>1, SubmitFails
<1>3. LogPart'
  BY <1>1, LogStays DEF IInv
<1>4. TablePart'
  BY <1>1, <1>2, TableStays
<1>5. RestPart'
  BY <1>1, <1>2, RestKept DEF IInv, RestPart
<1> QED
  BY <1>2, <1>3, <1>4, <1>5 DEF IInv

\* The host appends what it does not hold; either way it has the draft's record.
LEMMA AppendOnce ==
    ASSUME IInv, SubmitDraft, AppendAndConfirm(serving)
    PROVE  /\ LogPart' /\ published <= published' /\ published' \in Nat /\ Len(log') \in Nat
           /\ published' \in {published, Len(log')} /\ ~Pending
           /\ log' = log \/ \E e \in Entry : e.draft = serving.draft /\ log' = Append(log, e)
           /\ \E n \in Positions :
                 /\ n <= Len(log')
                 /\ \/ /\ published' = Len(log') /\ UNCHANGED <<serving, tab, heard, faults>>
                       /\ drafts' = [drafts EXCEPT ![serving.draft].record = n]
                    \/ FailSubmit(serving, 503) /\ Release /\ Fault /\ UNCHANGED drafts
<1> DEFINE d == serving.draft
           e == [draft |-> d, rests |-> drafts[d].rests]
<1>1. /\ d \in Ids /\ drafts[d] \in Draft /\ others' = others /\ LogPart
  BY Submitting DEF IInv
<1>2. e \in Entry /\ e.draft = d
  BY <1>1 DEF Entry, Draft
<1>3. log' = IF Records(log, d) # {} THEN log ELSE Append(log, e)
  BY DEF AppendAndConfirm
<1>4. published' \in {published, Len(log')} /\ ~Pending
  BY DEF AppendAndConfirm
<1> HIDE DEF e
<1>5. LogPart' /\ published <= published'
  <2>1. CASE Records(log, d) # {}
    BY <1>1, <1>3, <1>4, <2>1, LogStays
  <2>2. CASE Records(log, d) = {}
    BY <1>1, <1>2, <1>3, <1>4, <2>2, LogDrafted
  <2> QED
    BY <2>1, <2>2
<1>6. Len(log') \in Nat /\ published' \in Nat /\ Len(log') <= MaxPrepared + MaxOthers
  <2>1. LogPart' => Len(log') \in Nat /\ published' \in Nat /\ Len(log') <= MaxPrepared + MaxOthers
    <3>1. /\ \A S \in SUBSET Ids : Cardinality(S) \in Nat /\ Cardinality(S) <= MaxPrepared
          /\ Recorded(log') \subseteq Ids /\ MaxPrepared \in Nat /\ MaxOthers \in Nat
      BY IdsFinite, BoundsAssumption DEF Recorded
    <3>2. Cardinality(Recorded(log')) \in Nat /\ Cardinality(Recorded(log')) <= MaxPrepared
      BY <3>1
    <3> QED
      BY <3>1, <3>2 DEF LogPart
  <2> QED
    BY <1>5, <2>1
<1> DEFINE n == IF Records(log, d) # {} THEN RecordOf(log, d) ELSE Len(log')
<1>7. n \in Nat /\ n <= Len(log')
  <2>1. CASE Records(log, d) # {}
    <3>1. RecordOf(log, d) \in Records(log, d)
      BY <2>1 DEF RecordOf
    <3>2. RecordOf(log, d) \in 1..Len(log) /\ log' = log
      BY <1>3, <2>1, <3>1 DEF Records
    <3> QED
      BY <1>6, <2>1, <3>2
  <2>2. CASE Records(log, d) = {}
    BY <1>6, <2>2
  <2> QED
    BY <2>1, <2>2
<1>8. \/ /\ published' = Len(log') /\ UNCHANGED <<serving, tab, heard, faults>>
         /\ drafts' = [drafts EXCEPT ![d].record = n]
      \/ FailSubmit(serving, 503) /\ Release /\ Fault /\ UNCHANGED drafts
  BY DEF AppendAndConfirm
<1> HIDE DEF n
<1>9. n \in Positions
  BY <1>6, <1>7, BoundsAssumption DEF Positions
<1>10. log' = log \/ \E x \in Entry : x.draft = d /\ log' = Append(log, x)
  BY <1>2, <1>3
<1> QED
  BY <1>4, <1>5, <1>6, <1>7, <1>8, <1>9, <1>10

LEMMA AppendAndConfirmInv ==
    ASSUME IInv, SubmitDraft, AppendAndConfirm(serving)
    PROVE  IInv'
<1>1. /\ LogPart' /\ published <= published' /\ published' \in Nat /\ Len(log') \in Nat
  BY AppendOnce
<1>2. PICK n \in Positions :
         /\ n <= Len(log')
         /\ \/ /\ published' = Len(log') /\ UNCHANGED <<serving, tab, heard, faults>>
               /\ drafts' = [drafts EXCEPT ![serving.draft].record = n]
            \/ FailSubmit(serving, 503) /\ Release /\ Fault /\ UNCHANGED drafts
  BY AppendOnce
<1>3. UNCHANGED <<drawn, requests, now, others>> /\ serving.draft \in Table
  BY Submitting
<1>4. CASE /\ published' = Len(log') /\ UNCHANGED <<serving, tab, heard, faults>>
           /\ drafts' = [drafts EXCEPT ![serving.draft].record = n]
  <2>1. refused' = refused /\ shown' = shown
    BY <1>4 DEF heard
  <2>2. TablePart' /\ Table' = Table
    BY <1>1, <1>2, <1>3, <1>4, <2>1, TableLearns
  <2>3. ClientPart'
    BY <1>3, <1>4 DEF IInv, ClientPart, TabOK, RequestOK, At
  <2>4. serving # None /\ serving.from # None => Same(serving.from)
    BY <1>4 DEF Same
  <2>5. ServingPart'
    BY <1>3, <1>4, <2>2, <2>4, ServingStays
  <2>6. RestPart'
    BY <1>3, <1>4, <2>1, RestKept DEF IInv, RestPart
  <2> QED
    BY <1>1, <2>2, <2>3, <2>5, <2>6 DEF IInv
<1>5. CASE FailSubmit(serving, 503) /\ Release /\ Fault /\ UNCHANGED drafts
  <2>1. ClientPart' /\ ServingPart' /\ refused' = refused /\ shown' = shown
    BY <1>5, SubmitFails
  <2>2. TablePart'
    BY <1>1, <1>3, <1>5, <2>1, TableShrinks DEF IInv, TablePart
  <2>3. RestPart'
    BY <1>3, <1>5, <2>1, RestKept DEF IInv, RestPart
  <2> QED
    BY <1>1, <2>1, <2>2, <2>3 DEF IInv
<1> QED
  BY <1>2, <1>4, <1>5

\* A recorded draft is answered with a published record.
LEMMA Telling ==
    ASSUME IInv, SubmitDraft, drafts[serving.draft].record # 0, AnswerRecorded(serving)
    PROVE  \/ FailSubmit(serving, 503) /\ Fault
           \/ /\ tab' = [t \in Tabs |-> IF t \in Waiting(serving) THEN Watching(t) ELSE tab[t]]
              /\ UNCHANGED <<refused, faults>>
              /\ shown' = shown \/ \E i \in 1..published : shown' = shown \cup {log[i]}
<1> DEFINE i == drafts[serving.draft].record
<1>1. i \in 1..published
  <2>1. i \in Nat
    BY Submitting, BoundsAssumption DEF Draft, Positions
  <2>2. i <= published /\ published \in Nat
    BY Submitting, LogFits DEF IInv, TablePart
  <2> QED
    BY <2>1, <2>2
<1>2. ASSUME shown' = shown \cup {log[drafts[serving.draft].record] : t \in Waiting(serving)}
      PROVE  shown' = shown \/ shown' = shown \cup {log[i]}
  <2>1. CASE Waiting(serving) = {}
    BY <1>2, <2>1
  <2>2. CASE Waiting(serving) # {}
    BY <1>2, <2>2
  <2> QED
    BY <2>1, <2>2
<1> HIDE DEF i
<1> QED
  BY <1>1, <1>2 DEF AnswerRecorded

LEMMA AnswerRecordedInv ==
    ASSUME IInv, SubmitDraft, drafts[serving.draft].record # 0, AnswerRecorded(serving)
    PROVE  IInv'
<1>1. /\ UNCHANGED <<drafts, log, published, drawn, requests, now, others>> /\ Release
  BY Submitting DEF AnswerRecorded, repository
<1>2. LogPart'
  BY <1>1, LogStays DEF IInv
<1>3. CASE FailSubmit(serving, 503) /\ Fault
  <2>1. ClientPart' /\ ServingPart' /\ refused' = refused /\ shown' = shown
    BY <1>1, <1>3, SubmitFails
  <2>2. TablePart'
    BY <1>1, <2>1, TableStays
  <2>3. RestPart'
    BY <1>1, <1>3, <2>1, RestKept DEF IInv, RestPart
  <2> QED
    BY <1>2, <2>1, <2>2, <2>3 DEF IInv
<1>4. ASSUME tab' = [t \in Tabs |-> IF t \in Waiting(serving) THEN Watching(t) ELSE tab[t]],
             UNCHANGED <<refused, faults>>,
             shown' = shown \/ \E i \in 1..published : shown' = shown \cup {log[i]}
      PROVE  IInv'
  <2>1. /\ serving # None /\ serving \in Prepare \cup Submission /\ Waiting(serving) \subseteq Tabs
        /\ ClientPart /\ drawn \in Nat
    BY Submitting, BoundsAssumption DEF IInv, TablePart
  <2>2. TablePart'
    BY <1>1, <1>4, TableStays
  <2>3. shown' \subseteq Entry
    <3>1. \A i \in 1..published : log[i] \in Entry
      BY LogFits DEF IInv, LogPart
    <3> QED
      BY <1>4, <3>1 DEF IInv, RestPart
  <2>4. RestPart'
    BY <1>1, <1>4, <2>3 DEF IInv, RestPart
  <2>5. tab' \in [Tabs -> Tab] /\ \A t \in Tabs \ Waiting(serving) : Same(t)
    BY <1>4, <2>1, TabTypes DEF ClientPart, Same
  <2>6. \A t \in Waiting(serving) : TabOK(t)'
    BY <1>4, <2>1, TabTypes DEF TabOK
  <2>7. /\ requests' \subseteq requests /\ \A x \in requests' : x.from \notin Waiting(serving)
        /\ drawn' \in Nat /\ drawn <= drawn' /\ serving' = None
    BY <1>1, <2>1, OneRequest DEF Release
  <2>8. ClientPart' /\ ServingPart'
    BY <2>1, <2>5, <2>6, <2>7, Answered
  <2> QED
    BY <1>2, <2>2, <2>4, <2>8 DEF IInv
<1> QED
  BY <1>3, <1>4, Telling

LEMMA SubmitDraftInv ==
    ASSUME IInv, SubmitDraft
    PROVE  IInv'
BY AnswerRecordedInv, ReconcileInv, AppendAndConfirmInv, AppendFailsInv DEF SubmitDraft

-----------------------------------------------------------------------------
(* The rest of the world.                                                  *)

\* A request loses the tab that waits for it, and is otherwise what it was.
LEMMA OrphanFacts ==
    ASSUME NEW q \in Prepare \cup Submission, NEW t \in Tabs
    PROVE  /\ q \in Submission => Orphan(q, t) \in Submission /\ Orphan(q, t).draft = q.draft
           /\ q \in Prepare => Orphan(q, t) \in Prepare
           /\ Orphan(q, t).kind = q.kind /\ Orphan(q, t).from # t
           /\ Orphan(q, t).from # None => Orphan(q, t) = q
<1>1. q # None /\ t # None
  BY NoneAssumption
<1>2. CASE q.from # t
  BY <1>1, <1>2 DEF Orphan
<1>3. CASE q.from = t
  <2> DEFINE r == [q EXCEPT !.from = None]
  <2>1. Orphan(q, t) = r
    BY <1>1, <1>3 DEF Orphan
  <2>2. r.from = None /\ r.kind = q.kind
    BY DEF Prepare, Submission
  <2>3. q \in Submission => r \in Submission /\ r.draft = q.draft
    BY DEF Submission
  <2>4. q \in Prepare => r \in Prepare
    BY DEF Prepare
  <2> HIDE DEF r
  <2> QED
    BY <1>1, <2>1, <2>2, <2>3, <2>4
<1> QED
  BY <1>2, <1>3

LEMMA LoseAnswerInv ==
    ASSUME IInv, NEW t \in Tabs, LoseAnswer(t)
    PROVE  IInv'
<1>1. /\ ClientPart /\ ServingPart /\ drawn \in Nat
      /\ requests' = {Orphan(q, t) : q \in requests} /\ serving' = Orphan(serving, t)
      /\ UNCHANGED <<drafts, drawn, log, published, now, others>> /\ Fault
      /\ tab[t] \in Tab /\ TabOK(t) /\ Watching(t) \in Tab /\ Watching(t).phase = "watching"
  BY TabTypes, BoundsAssumption DEF IInv, TablePart, LoseAnswer, repository
<1> DEFINE again == [tab[t] EXCEPT !.phase = "signed"]
<1>2. again \in Tab /\ again.phase = "signed" /\ again.draft = tab[t].draft
  BY <1>1 DEF Tab
<1>3. /\ shown' = shown /\ refused' = refused
      /\ tab' \in [Tabs -> Tab] /\ \A x \in Tabs \ {t} : tab'[x] = tab[x]
      /\ tab'[t] = Watching(t) \/ (At(t, "submitting") /\ tab'[t] = again)
  <2>1. CASE At(t, "submitting")
    <3>1. Fail({t}, 0)
      BY <2>1 DEF LoseAnswer
    <3>2. shown' = shown /\ refused' = refused
      BY <3>1 DEF Fail, Refusal
    <3>3. tab' = [x \in Tabs |-> IF x \notin {t} THEN tab[x]
                                 ELSE IF Refusal(0) \/ Expired(x) THEN Watching(x)
                                 ELSE [tab[x] EXCEPT !.phase = "signed"]]
      BY <3>1 DEF Fail
    <3>4. ASSUME NEW x \in Tabs
          PROVE  [tab[x] EXCEPT !.phase = "signed"] \in Tab /\ Watching(x) \in Tab /\ tab[x] \in Tab
      <4>1. tab[x] \in Tab /\ Watching(x) \in Tab
        BY TabTypes
      <4>2. [tab[x] EXCEPT !.phase = "signed"] \in Tab
        BY <4>1 DEF Tab
      <4> QED
        BY <4>1, <4>2
    <3>5. tab' \in [Tabs -> Tab]
      BY <3>3, <3>4
    <3>6. \A x \in Tabs \ {t} : tab'[x] = tab[x]
      BY <3>3
    <3>7. tab'[t] = Watching(t) \/ tab'[t] = again
      BY <3>3
    <3> QED
      BY <2>1, <3>2, <3>5, <3>6, <3>7
  <2>2. CASE ~At(t, "submitting")
    <3>1. tab' = [tab EXCEPT ![t] = Watching(t)] /\ shown' = shown /\ refused' = refused
      BY <2>2 DEF LoseAnswer, heard
    <3> QED
      BY <1>1, <3>1 DEF ClientPart
  <2> QED
    BY <2>1, <2>2
<1> HIDE DEF again
<1>4. LogPart' /\ TablePart'
  BY <1>1, <1>3, LogStays, TableStays DEF IInv
<1>5. RestPart'
  BY <1>1, <1>3, RestKept DEF IInv, RestPart
<1>6. /\ tab' \in [Tabs -> Tab] /\ \A x \in Tabs \ {t} : tab'[x] = tab[x]
      /\ TabOK(t)'
  BY <1>1, <1>2, <1>3 DEF ClientPart, TabOK, At
<1>7. ASSUME NEW q \in Submission, RequestOK(q)
      PROVE  RequestOK(Orphan(q, t))'
  <2>1. /\ Orphan(q, t).draft = q.draft /\ Orphan(q, t).from # t
        /\ Orphan(q, t).from # None => Orphan(q, t) = q
    BY OrphanFacts
  <2>2. q.from \in Tabs \cup {None}
    BY DEF Submission
  <2> QED
    BY <1>1, <1>6, <1>7, <2>1, <2>2 DEF RequestOK, At
<1>8. ClientPart'
  <2>1. \A q \in requests : Orphan(q, t) \in Submission /\ RequestOK(Orphan(q, t))'
    BY <1>1, <1>7, OrphanFacts DEF ClientPart
  <2>2. requests' \subseteq Submission /\ \A x \in requests' : RequestOK(x)'
    BY <1>1, <2>1
  <2>3. \A x \in Tabs : TabOK(x)'
    BY <1>1, <1>6 DEF ClientPart, TabOK
  <2> QED
    BY <1>6, <2>2, <2>3 DEF ClientPart
<1>9. ServingPart'
  <2>1. CASE serving = None
    BY <1>1, <2>1 DEF ServingPart, Orphan
  <2>2. CASE serving # None
    <3>1. PICK q, r : q = serving /\ r = Orphan(q, t)
      OBVIOUS
    <3>2. /\ q # None /\ q \in Prepare \cup Submission
          /\ q.kind = "submit" => q \in Submission /\ RequestOK(q) /\ q.draft \in Table
          /\ q.kind = "submit" /\ q.from # None => q \notin requests
          /\ q.kind = "prepare" => Cardinality(Table) < MaxDrafts
          /\ q.kind = "prepare" /\ q.from # None => At(q.from, "preparing")
      BY <1>1, <2>2, <3>1, RequestTypes DEF ServingPart
    <3>3. /\ r.kind = q.kind /\ r.from # t /\ (r.from # None => r = q)
          /\ q \in Submission => r \in Submission /\ r.draft = q.draft
          /\ q \in Prepare => r \in Prepare
      BY <3>1, <3>2, OrphanFacts
    <3>4. r \in Prepare \cup Submission /\ r.from \in Tabs \cup {None} /\ serving' = r
      BY <1>1, <3>1, <3>2, <3>3 DEF Prepare, Submission
    <3>5. ASSUME r.from # None
          PROVE  r = q /\ r.from \in Tabs \ {t} /\ tab'[r.from] = tab[r.from]
      BY <1>6, <3>3, <3>4, <3>5
    <3>6. ASSUME r.from # None, r \in requests'
          PROVE  q \in requests
      <4>1. PICK x \in requests : r = Orphan(x, t)
        BY <1>1, <3>6
      <4>2. Orphan(x, t).from # None /\ x \in Prepare \cup Submission
        BY <1>1, <3>6, <4>1 DEF ClientPart
      <4>3. Orphan(x, t) = x
        BY <4>2, OrphanFacts
      <4> QED
        BY <3>5, <3>6, <4>1, <4>3
    <3>7. q.kind = "submit" => RequestOK(r)' /\ r.draft = q.draft
      BY <1>7, <3>1, <3>2, <3>3
    <3>8. Table' = Table
      BY <1>1 DEF Table
    <3>9. r.kind = "prepare" =>
            Cardinality(Table') < MaxDrafts /\ (r.from # None => At(r.from, "preparing")')
      BY <3>2, <3>3, <3>5, <3>8 DEF At
    <3>10. r.kind = "submit" =>
            r.draft \in Table' /\ RequestOK(r)' /\ (r.from # None => r \notin requests')
      BY <3>2, <3>3, <3>5, <3>6, <3>7, <3>8
    <3> QED
      BY <3>4, <3>9, <3>10 DEF ServingPart, RequestOK, At
  <2> QED
    BY <2>1, <2>2
<1> QED
  BY <1>4, <1>5, <1>8, <1>9 DEF IInv

\* Tabs and requests see nothing of the step, nor does the table.
LEMMA Unseen ==
    ASSUME IInv, UNCHANGED <<drafts, drawn, serving, requests, tab, heard>>,
           published' \in Nat, published <= published'
    PROVE  ClientPart' /\ ServingPart' /\ TablePart' /\ UNCHANGED <<shown, refused>>
<1>1. ClientPart' /\ UNCHANGED <<shown, refused>>
  BY DEF IInv, ClientPart, TabOK, RequestOK, At, heard
<1>2. ServingPart'
  BY DEF IInv, ServingPart, RequestOK, At, Table
<1>3. TablePart'
  BY <1>1, TableShrinks DEF IInv, TablePart
<1> QED
  BY <1>1, <1>2, <1>3

\* Other writers append what is none of the drafts, or deliver what is pending.
LEMMA OtherWriterLog ==
    ASSUME IInv, OtherWriter
    PROVE  /\ LogPart' /\ published <= published' /\ published' \in Nat
           /\ published' \in {published, Len(log')}
           /\ \/ log' = log
              \/ ~Pending /\ \E e \in Entry : e.draft = None /\ log' = Append(log, e)
<1>1. /\ LogPart /\ Len(log) \in Nat /\ published \in Nat /\ LastMove(log) \in Positions
  BY LogFits, LastMoveFits DEF IInv
<1>2. CASE ~Pending /\ others < MaxOthers
           /\ log' = Append(log, [draft |-> None, rests |-> LastMove(log)])
           /\ others' = others + 1 /\ published' \in {published, Len(log')}
  <2> DEFINE e == [draft |-> None, rests |-> LastMove(log)]
  <2>1. e \in Entry /\ e.draft = None /\ log' = Append(log, e)
    BY <1>1, <1>2 DEF Entry, Rests
  <2> HIDE DEF e
  <2>2. LogPart' /\ published <= published'
    BY <1>1, <1>2, <2>1, LogOther
  <2>3. published' \in Nat
    BY <1>1, <1>2, <2>1 DEF LogPart
  <2> QED
    BY <1>2, <2>1, <2>2, <2>3
<1>3. CASE published' = Len(log) /\ UNCHANGED <<log, others>>
  BY <1>1, <1>3, LogStays
<1> QED
  BY <1>2, <1>3 DEF OtherWriter

LEMMA OtherWriterInv ==
    ASSUME IInv, OtherWriter
    PROVE  IInv'
<1>1. LogPart' /\ published <= published' /\ published' \in Nat
  BY OtherWriterLog
<1>2. /\ UNCHANGED <<drafts, drawn, serving, requests, tab, heard, now>>
      /\ (Fault \/ UNCHANGED faults)
  BY DEF OtherWriter, NoFault
<1>3. ClientPart' /\ ServingPart' /\ TablePart' /\ UNCHANGED <<shown, refused>>
  BY <1>1, <1>2, Unseen
<1>4. RestPart'
  BY <1>2, <1>3, RestKept DEF IInv, RestPart
<1> QED
  BY <1>1, <1>3, <1>4 DEF IInv

LEMMA TickInv ==
    ASSUME IInv, Tick
    PROVE  IInv'
<1>1. /\ UNCHANGED <<drafts, drawn, serving, requests, tab, log, published, heard, others, faults>>
      /\ now' \in 0..MaxTime /\ published \in Nat
  BY LogFits, BoundsAssumption DEF Tick, repository, IInv, RestPart
<1>2. ClientPart' /\ ServingPart' /\ TablePart' /\ UNCHANGED <<shown, refused>>
  BY <1>1, Unseen
<1>3. LogPart' /\ RestPart'
  BY <1>1, <1>2, LogStays, RestKept DEF IInv
<1> QED
  BY <1>2, <1>3 DEF IInv

LEMMA RestartInv ==
    ASSUME IInv, Restart
    PROVE  IInv'
<1>1. /\ UNCHANGED <<drawn, log, published, shown, refused, now, others>> /\ Fault
      /\ serving' = None /\ requests' = {} /\ drafts' = [d \in Ids |-> None]
      /\ ClientPart /\ drawn \in Nat /\ published \in Nat
  BY LogFits, BoundsAssumption DEF Restart, repository, heard, IInv, TablePart
<1>2. LogPart' /\ RestPart'
  BY <1>1, LogStays, RestKept DEF IInv, RestPart
<1>3. TablePart'
  BY <1>1, TableShrinks DEF IInv, TablePart
<1>4. ASSUME NEW t \in Tabs
      PROVE  tab'[t] \in Tab /\ TabOK(t)'
  <2> DEFINE again == [tab[t] EXCEPT !.phase = "signed"]
  <2>1. tab'[t] \in {Watching(t), tab[t]} \/ (At(t, "submitting") /\ tab'[t] = again)
    <3>1. tab'[t] = CASE At(t, "preparing")                -> Watching(t)
                      [] At(t, "submitting") /\ Expired(t)  -> Watching(t)
                      [] At(t, "submitting") /\ ~Expired(t) -> again
                      [] OTHER                              -> tab[t]
      BY DEF Restart
    <3> HIDE DEF again
    <3>2. CASE At(t, "submitting")
      <4>1. ~At(t, "preparing")
        BY <3>2 DEF At
      <4> QED
        BY <3>1, <3>2, <4>1
    <3>3. CASE ~At(t, "submitting")
      BY <3>1, <3>3
    <3> QED
      BY <3>2, <3>3
  <2>2. /\ tab[t] \in Tab /\ Watching(t) \in Tab /\ Watching(t).phase = "watching" /\ TabOK(t)
    BY TabTypes
  <2>3. again \in Tab /\ again.phase = "signed" /\ again.draft = tab[t].draft
    BY <2>2 DEF Tab
  <2> HIDE DEF again
  <2> QED
    BY <1>1, <2>1, <2>2, <2>3 DEF TabOK, At
<1>5. ClientPart'
  <2>1. tab' \in [Tabs -> Tab]
    <3>1. tab' = [t \in Tabs |-> tab'[t]]
      BY DEF Restart
    <3> QED
      BY <1>4, <3>1
  <2> QED
    BY <1>1, <1>4, <2>1 DEF ClientPart
<1>6. ServingPart'
  BY <1>1 DEF ServingPart
<1> QED
  BY <1>2, <1>3, <1>5, <1>6 DEF IInv

LEMMA InitInv == Init => IInv
<1> SUFFICES ASSUME Init PROVE IInv
  OBVIOUS
<1> DEFINE idle == [phase |-> "watching", board |-> 0, rests |-> None,
                    draft |-> None, expires |-> 0]
<1>1. /\ MaxPrepared \in Nat /\ MaxOthers \in Nat /\ MaxTime \in Nat /\ MaxFaults \in Nat
      /\ MaxDrafts \in Nat
  BY BoundsAssumption
<1>2. LogPart
  <2>1. log = <<>> /\ published = 0 /\ others = 0 /\ Len(log) = 0 /\ log \in Seq(Entry)
    BY DEF Init
  <2>2. Cardinality(Recorded(log)) \in Nat
    BY IdsFinite DEF Recorded
  <2> QED
    BY <1>1, <2>1, <2>2 DEF LogPart, OneRecordPerDraft
<1>3. TablePart
  <2>1. Table = {}
    BY DEF Init, Table
  <2>2. Cardinality(Table) = 0
    BY <2>1, FS_EmptySet
  <2> QED
    BY <1>1, <2>1, <2>2 DEF Init, TablePart
<1>4. idle \in Tab /\ idle.phase = "watching"
  BY <1>1 DEF Tab, Positions, Rests
<1> HIDE DEF idle
<1>5. tab = [t \in Tabs |-> idle] /\ requests = {}
  BY DEF Init, idle
<1>6. ClientPart
  BY <1>4, <1>5 DEF ClientPart, TabOK
<1>7. ServingPart /\ RestPart
  BY <1>1 DEF Init, ServingPart, RestPart
<1> QED
  BY <1>2, <1>3, <1>6, <1>7 DEF IInv

LEMMA StepInv == IInv /\ [Next]_vars => IInv'
<1> SUFFICES ASSUME IInv, [Next]_vars PROVE IInv'
  OBVIOUS
<1>1. ASSUME NEW t \in Tabs, TabStep(t)
      PROVE  IInv'
  BY <1>1, ChooseInv, PrepareActionInv, SubmitInv, RefreshInv, CancelInv, LoseAnswerInv
     DEF TabStep
<1>2. ASSUME NEW q \in requests, AcceptSubmit(q)
      PROVE  IInv'
  BY <1>2, AcceptSubmitInv
<1>3. CASE StoreDraft \/ SubmitDraft
  BY <1>3, StoreDraftInv, SubmitDraftInv
<1>4. CASE OtherWriter \/ Restart \/ Tick
  BY <1>4, OtherWriterInv, RestartInv, TickInv
<1>5. CASE UNCHANGED vars
  <2>1. /\ UNCHANGED <<drafts, drawn, serving, requests, tab, log, published, heard, now,
                       others, faults>>
        /\ published \in Nat
    BY <1>5, LogFits DEF vars, heard, IInv
  <2>2. ClientPart' /\ ServingPart' /\ TablePart' /\ UNCHANGED <<shown, refused>>
    BY <2>1, Unseen
  <2>3. LogPart' /\ RestPart'
    BY <2>1, <2>2, LogStays DEF IInv, RestPart
  <2> QED
    BY <2>2, <2>3 DEF IInv
<1> QED
  BY <1>1, <1>2, <1>3, <1>4, <1>5 DEF Next, Serve

LEMMA Invariance == Spec => []IInv
BY InitInv, StepInv, PTL DEF Spec

-----------------------------------------------------------------------------
(* The theorems.                                                           *)

\* Every variable keeps its type, and the table never holds more than
\* maxGameDrafts, whatever its size: prepare counts before it opens the
\* repository, and the mutex keeps the count true until the draft is stored.
THEOREM TypeCorrect == Spec => []TypeOK
BY InvType, Invariance, PTL

\* However often a draft is submitted, by whoever holds its name, it has one
\* record (the draft's identifier is its retry key).
THEOREM OneRecordPerDraftHolds == Spec => []OneRecordPerDraft
<1>1. IInv => OneRecordPerDraft
  BY DEF IInv, LogPart
<1> QED
  BY <1>1, Invariance, PTL

\* What a step does to the repository, and to what tabs were told of it.
LEMMA LogStep ==
    ASSUME IInv, [Next]_vars
    PROVE  \/ /\ published <= published' /\ published' \in {published, Len(log')}
              /\ shown' = shown
              /\ \/ log' = log
                 \/ ~Pending /\ \E e \in Entry : e.draft \notin refused /\ log' = Append(log, e)
           \/ /\ UNCHANGED <<log, published>>
              /\ \E i \in 1..published : shown' = shown \cup {log[i]}
<1> DEFINE Grown == /\ published <= published' /\ published' \in {published, Len(log')}
                    /\ shown' = shown
                    /\ \/ log' = log
                       \/ ~Pending /\ \E e \in Entry : e.draft \notin refused /\ log' = Append(log, e)
<1>1. published \in Nat /\ None \notin refused
  <2>1. refused \subseteq Nat
    BY BoundsAssumption DEF IInv, TablePart, Ids
  <2> QED
    BY <2>1, LogFits, NoneAssumption DEF IInv
<1>2. ASSUME UNCHANGED <<log, published, shown>>
      PROVE  Grown
  BY <1>1, <1>2
<1>3. ASSUME NEW t \in Tabs, TabStep(t)
      PROVE  Grown
  <2>1. UNCHANGED <<log, published, shown>>
    BY <1>3 DEF TabStep, Choose, PrepareAction, Submit, Refresh, Cancel, LoseAnswer, Fail,
                repository, heard
  <2> QED
    BY <1>2, <2>1
<1>4. ASSUME NEW q \in requests, AcceptSubmit(q)
      PROVE  Grown
  BY <1>2, <1>4 DEF AcceptSubmit, FailSubmit, Fail, repository, heard
<1>5. CASE StoreDraft \/ Restart \/ Tick
  BY <1>2, <1>5 DEF StoreDraft, Restart, Tick, repository, heard
<1>6. CASE OtherWriter
  <2>1. shown' = shown
    BY <1>6 DEF OtherWriter, heard
  <2> QED
    BY <1>1, <1>6, <2>1, OtherWriterLog
<1>7. CASE SubmitDraft /\ drafts[serving.draft].record # 0 /\ AnswerRecorded(serving)
  <2>1. UNCHANGED <<log, published>>
    BY <1>7 DEF AnswerRecorded, repository
  <2>2. FailSubmit(serving, 503) => shown' = shown
    BY DEF FailSubmit, Fail
  <2>3. shown' = shown \/ \E i \in 1..published : shown' = shown \cup {log[i]}
    BY <1>7, <2>2, Telling
  <2> QED
    BY <1>2, <2>1, <2>3
<1>8. CASE SubmitDraft /\ Reconcile(serving)
  <2>1. log' = log /\ published' \in {published, Len(log)} /\ shown' = shown
    BY <1>8 DEF Reconcile, FailSubmit, Fail
  <2>2. published <= Len(log) /\ Len(log) \in Nat
    BY LogFits DEF IInv
  <2> QED
    BY <1>1, <2>1, <2>2
<1>9. CASE SubmitDraft /\ AppendFails(serving)
  BY <1>2, <1>9 DEF AppendFails, FailSubmit, Fail, repository
<1>10. CASE SubmitDraft /\ AppendAndConfirm(serving)
  <2>1. shown' = shown
    BY <1>10 DEF AppendAndConfirm, FailSubmit, Fail, heard
  <2>2. serving.draft \notin refused
    BY <1>10, Submitting
  <2>3. /\ published <= published' /\ published' \in {published, Len(log')} /\ ~Pending
        /\ log' = log \/ \E e \in Entry : e.draft = serving.draft /\ log' = Append(log, e)
    BY <1>10, AppendOnce
  <2> QED
    BY <2>1, <2>2, <2>3
<1>11. CASE UNCHANGED vars
  BY <1>2, <1>11 DEF vars
<1> QED
  BY <1>3, <1>4, <1>5, <1>6, <1>7, <1>8, <1>9, <1>10, <1>11 DEF Next, Serve, SubmitDraft

\* A draft that a tab gave up as refused has its record already, or never gets
\* one, whatever submissions of it are still under way.
THEOREM RefusalIsFinalHolds == Spec => RefusalIsFinal
<1>1. IInv /\ [Next]_vars =>
         [\A d \in refused : {n \in 1..Len(log') : log'[n].draft = d}
                             = {n \in 1..Len(log) : log[n].draft = d}]_vars
  <2> SUFFICES ASSUME IInv, [Next]_vars, NEW d \in refused
               PROVE  {n \in 1..Len(log') : log'[n].draft = d}
                      = {n \in 1..Len(log) : log[n].draft = d}
    OBVIOUS
  <2>1. log' = log \/ \E e \in Entry : e.draft \notin refused /\ log' = Append(log, e)
    BY LogStep
  <2>2. ASSUME NEW e \in Entry, e.draft \notin refused, log' = Append(log, e)
        PROVE  {n \in 1..Len(log') : log'[n].draft = d}
               = {n \in 1..Len(log) : log[n].draft = d}
    <3>1. /\ Len(log) \in Nat /\ Len(log') = Len(log) + 1 /\ log'[Len(log) + 1] = e
          /\ \A n \in 1..Len(log) : log'[n] = log[n]
      BY <2>2 DEF IInv, LogPart
    <3>2. e.draft # d
      BY <2>2
    <3>3. \A n \in 1..Len(log') : n \in 1..Len(log) \/ n = Len(log) + 1
      BY <3>1
    <3>4. \A n \in 1..Len(log) : n \in 1..Len(log')
      BY <3>1
    <3> QED
      BY <3>1, <3>2, <3>3, <3>4
  <2> QED
    BY <2>1, <2>2
<1> QED
  BY <1>1, Invariance, PTL DEF Spec, RefusalIsFinal

\* What is published of a log that grew: all of it, or what was published before.
LEMMA ViewMoves ==
    ASSUME NEW s \in Seq(Entry), NEW t \in Seq(Entry), NEW m \in Nat, NEW n \in Nat,
           m <= Len(s), n \in {m, Len(t)}, n <= Len(t), Promise!Ancestor(s, t)
    PROVE  /\ Prefix(t, n) \in {Prefix(s, m), t}
           /\ Promise!Ancestor(Prefix(t, n), t)
           /\ m = Len(s) => Prefix(s, m) = s
           /\ m <= n => Promise!Ancestor(Prefix(s, m), Prefix(t, n))
<1>1. /\ Prefix(s, m) \in Seq(Entry) /\ Len(Prefix(s, m)) = m
      /\ \A i \in 1..m : Prefix(s, m)[i] = s[i]
  BY PrefixType
<1>2. /\ Prefix(t, n) \in Seq(Entry) /\ Len(Prefix(t, n)) = n
      /\ \A i \in 1..n : Prefix(t, n)[i] = t[i]
  BY PrefixType
<1>3. /\ Len(s) \in Nat /\ Len(t) \in Nat /\ Len(s) <= Len(t)
      /\ \A i \in 1..Len(s) : s[i] = t[i]
  BY DEF Promise!Ancestor
<1>4. m = Len(s) => Prefix(s, m) = s
  BY <1>1, SeqEqual
<1>5. n = Len(t) => Prefix(t, n) = t
  BY <1>2, SeqEqual
<1>6. n = m => Prefix(t, n) = Prefix(s, m)
  <2>1. ASSUME n = m
        PROVE  \A i \in 1..m : Prefix(t, n)[i] = Prefix(s, m)[i]
    <3>1. ASSUME NEW i \in 1..m
          PROVE  Prefix(t, n)[i] = Prefix(s, m)[i]
      <4>1. i \in 1..n /\ i \in 1..Len(s)
        BY <1>3, <2>1
      <4> QED
        BY <1>1, <1>2, <1>3, <4>1
    <3> QED
      BY <3>1
  <2> QED
    BY <1>1, <1>2, <2>1, SeqEqual
<1>7. Promise!Ancestor(Prefix(t, n), t)
  BY <1>2 DEF Promise!Ancestor
<1>8. m <= n => Promise!Ancestor(Prefix(s, m), Prefix(t, n))
  <2>1. ASSUME m <= n, NEW i \in 1..m
        PROVE  Prefix(s, m)[i] = Prefix(t, n)[i]
    <3>1. i \in 1..n /\ i \in 1..Len(s)
      BY <1>3, <2>1
    <3> QED
      BY <1>1, <1>2, <1>3, <3>1
  <2> QED
    BY <1>1, <1>2, <2>1 DEF Promise!Ancestor
<1> QED
  BY <1>4, <1>5, <1>6, <1>7, <1>8

\* The service keeps the promise of the confirmed log towards any number of
\* tabs: an act is taken in only behind published ones, what is published
\* stays, and what a tab was told is published.
THEOREM KeepsPromiseHolds == Spec => KeepsPromise
<1>1. Init => Promise!Init
  BY DEF Init, Promise!Init, View, Prefix
<1>2. IInv /\ [Next]_vars => [Promise!Next]_(Promise!vars)
  <2> SUFFICES ASSUME IInv, [Next]_vars
               PROVE  [Promise!Next]_(Promise!vars)
    OBVIOUS
  <2>1. /\ log \in Seq(Entry) /\ Len(log) \in Nat /\ published \in Nat /\ published <= Len(log)
    BY LogFits DEF IInv, LogPart
  <2>2. /\ \A n \in 1..published : Promise!Holds(View, log[n])
    <3>1. /\ Len(View) = published /\ \A i \in 1..published : View[i] = log[i]
      BY <2>1, PrefixType DEF View
    <3> HIDE DEF View
    <3> QED
      BY <3>1 DEF Promise!Holds
  <2>3. ASSUME log' \in Seq(Entry), Promise!Ancestor(log, log'),
               published <= published', published' \in {published, Len(log')}
        PROVE  /\ View' \in {View, log'} /\ View' \in Seq(Entry)
               /\ Promise!Ancestor(View', log') /\ Promise!Ancestor(View, View')
               /\ published = Len(log) => View = log
    <3>1. PICK l \in Seq(Entry), n \in Nat : l = log' /\ n = published' /\ n <= Len(l)
      BY <2>1, <2>3 DEF Promise!Ancestor
    <3>2. /\ View' = Prefix(l, n) /\ View = Prefix(log, published)
          /\ n \in {published, Len(l)} /\ Promise!Ancestor(log, l) /\ published <= n
      BY <2>3, <3>1 DEF View, Prefix
    <3>3. /\ Prefix(l, n) \in {Prefix(log, published), l} /\ Promise!Ancestor(Prefix(l, n), l)
          /\ published = Len(log) => Prefix(log, published) = log
          /\ Promise!Ancestor(Prefix(log, published), Prefix(l, n))
      BY <2>1, <3>1, <3>2, ViewMoves
    <3>4. Prefix(l, n) \in Seq(Entry)
      BY <3>1, PrefixType
    <3> QED
      BY <3>1, <3>2, <3>3, <3>4
  <2>4. ASSUME NEW e \in Entry, log' = Append(log, e), ~Pending, shown' = shown,
               published <= published', published' \in {published, Len(log')}
        PROVE  [Promise!Next]_(Promise!vars)
    <3>1. log' \in Seq(Entry) /\ Promise!Ancestor(log, log')
      BY <2>1, <2>4 DEF Promise!Ancestor
    <3>2. published = Len(log)
      BY <2>1, <2>4 DEF Pending
    <3>3. View = log /\ View' \in {log, log'}
      BY <2>3, <2>4, <3>1, <3>2
    <3>4. Promise!Take(e)
      BY <2>4, <3>3 DEF Promise!Take
    <3> QED
      BY <3>4 DEF Promise!Next
  <2>5. ASSUME log' = log, shown' = shown,
               published <= published', published' \in {published, Len(log')}
        PROVE  [Promise!Next]_(Promise!vars)
    <3>1. log' \in Seq(Entry) /\ Promise!Ancestor(log, log')
      BY <2>1, <2>5 DEF Promise!Ancestor
    <3>2. /\ View' \in Seq(Entry)
          /\ Promise!Ancestor(View', log') /\ Promise!Ancestor(View, View')
      BY <2>3, <2>5, <3>1
    <3>3. Promise!Publish
      BY <2>5, <3>2 DEF Promise!Publish
    <3> QED
      BY <3>3 DEF Promise!Next
  <2>6. ASSUME UNCHANGED <<log, published>>,
               NEW i \in 1..published, shown' = shown \cup {log[i]}
        PROVE  [Promise!Next]_(Promise!vars)
    <3>1. log[i] \in Entry
      BY <2>1
    <3>2. View' = View
      BY <2>6 DEF View, Prefix
    <3>3. Promise!Acknowledge(log[i])
      BY <2>2, <2>6, <3>2 DEF Promise!Acknowledge
    <3> QED
      BY <3>1, <3>3 DEF Promise!Next
  <2> QED
    BY <2>4, <2>5, <2>6, LogStep
<1> QED
  BY <1>1, <1>2, Invariance, PTL DEF Spec, KeepsPromise, Promise!Spec
=============================================================================
