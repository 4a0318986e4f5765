------------------------ MODULE IdentityServiceProofs ------------------------
(***************************************************************************)
(* Theorems of IdentityService for any number of actors, witnesses, tokens *)
(* and records, and any lifetime and size of the token tables.             *)
(***************************************************************************)
EXTENDS IdentityService, FiniteSetTheorems, SequenceTheorems, WellFoundedInduction, TLAPS

-----------------------------------------------------------------------------
(* The inductive invariant.                                                *)

\* The tokens of one table.
Slots(tokens, kind) == {t \in Tokens : tokens[t] # None /\ tokens[t].kind \in Kinds(kind)}

\* A handler past the signing holds a signer's key, read when so much was
\* published, and past the check knows when that signer was the witness.
Checked(t) ==
    /\ call[t].act.kind # "proof"
    /\ call[t].pc \in {"checking", "appending"} =>
          call[t].key \in Actors \cup Witnesses /\ call[t].since <= published
    /\ call[t].pc = "appending" /\ Github(t) =>
          \E m \in call[t].since..published : WitnessAt(log, m) = call[t].key

\* No origin is in circulation before its token was drawn.
Issued ==
    /\ \A t \in Tokens : table[t] # None => t <= drawn /\ table[t].origin <= drawn
    /\ \A t \in Tokens : call[t] # None => call[t].act.origin <= drawn
    /\ \A n \in 1..Len(log) : log[n].origin # None => log[n].origin <= drawn

\* An origin is in one place: a table, a handler or the log, but that a handler
\* which reports on a record still knows the record's.
Separate ==
    /\ \A s, t \in Tokens : table[s] # None /\ table[t] # None /\ table[s].origin = table[t].origin
          => s = t
    /\ \A s, t \in Tokens : call[s] # None /\ call[t] # None
                            /\ call[s].act.origin = call[t].act.origin => s = t
    /\ \A s, t \in Tokens : table[s] # None /\ call[t] # None
          => table[s].origin # call[t].act.origin
    /\ \A t \in Tokens, n \in 1..Len(log) : table[t] # None => table[t].origin # log[n].origin
    /\ \A t \in Tokens, n \in 1..Len(log) : call[t] # None /\ call[t].pc # "reporting"
          => call[t].act.origin # log[n].origin

\* Types and checks.
Core ==
    /\ TypeOK
    /\ Len(log) <= MaxRecords
    /\ \A t \in Tokens : call[t] # None => Checked(t)

Origins == Issued /\ Separate /\ OneAnchorPerProof

IInv == Core /\ Origins /\ WitnessRechecked /\ CreatedHasForce

-----------------------------------------------------------------------------
(* The token tables.                                                       *)

\* Every table after a step is the one before it, less some tokens.
Less(tokens) == \A t \in Tokens : tokens[t] \in {table[t], None}

LEMMA TokensFinite ==
    ASSUME NEW tokens, NEW kind
    PROVE  IsFiniteSet(Slots(tokens, kind))
<1>1. IsFiniteSet(Tokens)
  BY FS_Interval, BoundsAssumption DEF Tokens
<1> QED
  BY <1>1, FS_Subset DEF Slots

\* Pruning and taking only remove tokens.
LEMMA KeptLess ==
    ASSUME TypeOK
    PROVE  /\ Kept \in [Tokens -> Pending \cup {None}] /\ Less(Kept)
           /\ \A t \in Tokens : Kept[t] # None => Kept[t] = table[t]
           /\ \A t \in Tokens : /\ Take(t) \in [Tokens -> Pending \cup {None}] /\ Less(Take(t))
                                /\ Take(t)[t] = None
BY DEF TypeOK, Kept, Less, Take

\* Removing tokens frees room.
LEMMA LessRoom ==
    ASSUME NEW tokens, Less(tokens), NEW kind
    PROVE  /\ Slots(tokens, kind) \subseteq Slots(table, kind)
           /\ Cardinality(Slots(tokens, kind)) \in Nat
           /\ Cardinality(Slots(tokens, kind)) <= Cardinality(Slots(table, kind))
<1>1. Slots(tokens, kind) \subseteq Slots(table, kind)
  BY DEF Slots, Less
<1> QED
  BY <1>1, TokensFinite, FS_Subset, FS_CardinalityType

\* The bound of the three tables, as TypeOK has it.
Bounded(tokens) ==
    \A kind \in {"proof", "state", "nostr"} : Cardinality(Slots(tokens, kind)) <= MaxPending

LEMMA LessBounded ==
    ASSUME NEW tokens, Less(tokens), Bounded(table)
    PROVE  Bounded(tokens)
<1> SUFFICES ASSUME NEW kind \in {"proof", "state", "nostr"}
             PROVE  Cardinality(Slots(tokens, kind)) <= MaxPending
  BY DEF Bounded
<1>1. Less(table)
  BY DEF Less
<1> QED
  BY <1>1, LessRoom, BoundsAssumption DEF Bounded

\* A new token goes where there is room.
LEMMA StoreBounded ==
    ASSUME TypeOK, NEW base \in [Tokens -> Pending \cup {None}], Less(base),
           NEW kind \in {"proof", "state", "nostr", "agent"}, Room(kind),
           \A t \in Tokens : base[t] # None => base[t] = Kept[t],
           NEW by, NEW subject, NEW origin, Store(base, kind, by, subject, origin)
    PROVE  Bounded(table')
<1>1. drawn' \in Tokens
  BY BoundsAssumption DEF Store, TypeOK, Tokens
<1>2. ASSUME NEW k \in {"proof", "state", "nostr"}
      PROVE  Cardinality(Slots(table', k)) <= MaxPending
  <2>1. Bounded(base)
    BY LessBounded DEF TypeOK, Bounded, Slots
  <2>2. CASE kind \notin Kinds(k)
    <3>1. Slots(table', k) \subseteq Slots(base, k)
      BY <1>1, <2>2 DEF Slots, Store
    <3>2. Cardinality(Slots(table', k)) <= Cardinality(Slots(base, k))
          /\ Cardinality(Slots(table', k)) \in Nat /\ Cardinality(Slots(base, k)) \in Nat
      BY <3>1, TokensFinite, FS_Subset, FS_CardinalityType
    <3> QED
      BY <2>1, <3>2, BoundsAssumption DEF Bounded
  <2>3. CASE kind \in Kinds(k)
    <3>1. Kinds(k) = Kinds(kind)
      BY <2>3 DEF Kinds
    <3>2. Slots(table', k) \subseteq Slots(Kept, kind) \cup {drawn'}
      BY <1>1, <3>1 DEF Slots, Store
    <3>3. IsFiniteSet(Slots(Kept, kind))
      BY TokensFinite
    <3>4. /\ IsFiniteSet(Slots(Kept, kind) \cup {drawn'})
          /\ Cardinality(Slots(Kept, kind) \cup {drawn'}) <= Cardinality(Slots(Kept, kind)) + 1
          /\ Cardinality(Slots(Kept, kind)) \in Nat
      <4>1. Cardinality(Slots(Kept, kind)) \in Nat
        BY <3>3, FS_CardinalityType
      <4>2. /\ IsFiniteSet(Slots(Kept, kind) \cup {drawn'})
            /\ Cardinality(Slots(Kept, kind) \cup {drawn'})
               \in {Cardinality(Slots(Kept, kind)), Cardinality(Slots(Kept, kind)) + 1}
        BY <3>3, FS_AddElement
      <4> QED
        BY <4>1, <4>2
    <3>5. Cardinality(Slots(Kept, kind)) < MaxPending
      BY DEF Room, Slots
    <3>6. /\ Cardinality(Slots(table', k)) <= Cardinality(Slots(Kept, kind) \cup {drawn'})
          /\ Cardinality(Slots(table', k)) \in Nat
          /\ Cardinality(Slots(Kept, kind) \cup {drawn'}) \in Nat
      BY <3>2, <3>4, TokensFinite, FS_Subset, FS_CardinalityType
    <3> QED
      BY <3>4, <3>5, <3>6, BoundsAssumption
  <2> QED
    BY <2>2, <2>3
<1> QED
  BY <1>2 DEF Bounded

-----------------------------------------------------------------------------
(* Numbers, and the host's fold.                                           *)

LEMMA Least ==
    ASSUME NEW T, T \subseteq Nat, T # {}
    PROVE  \E x \in T : \A y \in T : x <= y
<1> DEFINE R == {p \in Nat \X Nat : p[1] < p[2]}
<1>1. IsWellFoundedOn(R, Nat)
  BY NatLessThanWellFounded DEF OpToRel
<1>2. PICK x \in T : \A y \in T : ~ (<<y, x>> \in R)
  <2> HIDE DEF R
  <2> QED
    BY <1>1, WFMin
<1>3. ASSUME NEW y \in T
      PROVE  x <= y
  <2>1. <<y, x>> \notin R
    BY <1>2
  <2>2. x \in Nat /\ y \in Nat
    OBVIOUS
  <2>3. ~ (y < x)
    BY <2>1, <2>2
  <2> QED
    BY <2>2, <2>3
<1> QED
  BY <1>3

LEMMA Greatest ==
    ASSUME NEW m \in Nat, NEW T, T \subseteq 0..m, T # {}
    PROVE  \E x \in T : \A y \in T : y <= x
<1> DEFINE U == {k \in 0..m : m - k \in T}
<1>1. U \subseteq Nat /\ U # {}
  <2>1. PICK t \in T : TRUE
    OBVIOUS
  <2>2. m - t \in 0..m /\ m - (m - t) = t
    BY <2>1
  <2> QED
    BY <2>1, <2>2
<1>2. PICK x \in U : \A y \in U : x <= y
  <2> HIDE DEF U
  <2> QED
    BY <1>1, Least
<1>3. ASSUME NEW j \in T
      PROVE  j <= m - x
  <2>1. j \in 0..m /\ m - j \in 0..m /\ m - (m - j) = j
    OBVIOUS
  <2>2. m - j \in U
    BY <2>1
  <2>3. x <= m - j
    BY <1>2, <2>2
  <2> QED
    BY <2>1, <2>3
<1> QED
  BY <1>3

\* Two logs that agree on their first n records.
Agree(r, s, n) == n <= Len(r) /\ n <= Len(s) /\ \A i \in 1..n : r[i] = s[i]

\* The declarations among the first n records, and the last of them.
Declared(s, n) == {i \in 1..n : s[i].kind = "witness"}
Latest(D) == CHOOSE i \in D : \A j \in D : j <= i

\* The witness depends on the records so far.
LEMMA WitnessStable ==
    ASSUME NEW r, NEW s, NEW n \in Nat, Agree(r, s, n)
    PROVE  WitnessAt(r, n) = WitnessAt(s, n)
<1> DEFINE D == Declared(s, n)
<1>1. Declared(r, n) = D
  BY DEF Agree, Declared
<1>2. /\ WitnessAt(r, n) = IF D = {} THEN None ELSE r[Latest(D)].by
      /\ WitnessAt(s, n) = IF D = {} THEN None ELSE s[Latest(D)].by
  <2>1. /\ WitnessAt(r, n) = IF Declared(r, n) = {} THEN None ELSE r[Latest(Declared(r, n))].by
        /\ WitnessAt(s, n) = IF Declared(s, n) = {} THEN None ELSE s[Latest(Declared(s, n))].by
    BY DEF WitnessAt, Declared, Latest
  <2> QED
    BY <1>1, <2>1
<1>3. CASE D = {}
  BY <1>2, <1>3
<1>4. CASE D # {}
  <2>1. D \subseteq 0..n
    BY DEF Declared
  <2>2. Latest(D) \in D
    <3> HIDE DEF D
    <3>1. \E i \in D : \A j \in D : j <= i
      BY <1>4, <2>1, Greatest
    <3> QED
      BY <3>1 DEF Latest
  <2>3. r[Latest(D)] = s[Latest(D)]
    BY <2>2 DEF Agree, Declared
  <2> QED
    BY <1>2, <2>3
<1> QED
  BY <1>3, <1>4

\* Whether a record has force depends on it and the ones before it.
LEMMA HasForceStable ==
    ASSUME NEW r, NEW s, NEW n \in Nat, Agree(r, s, n), NEW f, NEW g,
           \A m \in 1..(n - 1) : f[m] = g[m]
    PROVE  HasForce(r, n, f) <=> HasForce(s, n, g)
<1>1. CASE n = 0
  BY <1>1 DEF HasForce
<1>2. CASE n # 0
  <2>1. n - 1 \in Nat /\ Agree(r, s, n - 1)
    BY <1>2 DEF Agree
  <2>2. WitnessAt(r, n - 1) = WitnessAt(s, n - 1)
    BY <2>1, WitnessStable
  <2>3. r[n] = s[n]
    BY <1>2 DEF Agree
  <2>4. AnchoredBy(r, n - 1, f, s[n].by) <=> AnchoredBy(s, n - 1, g, s[n].by)
    <3>1. \A m \in 1..(n - 1) : f[m] = g[m] /\ r[m] = s[m]
      BY <2>1 DEF Agree
    <3> QED
      BY <2>1, <3>1 DEF AnchoredBy
  <2> QED
    BY <2>2, <2>3, <2>4 DEF HasForce
<1> QED
  BY <1>1, <1>2

\* A function is the fold of the first k records of s.
Folds(f, s, k) == f = [n \in 0..k |-> HasForce(s, n, f)]

LEMMA FoldsExists ==
    ASSUME NEW s \in Seq(Entry), NEW k \in 0..Len(s)
    PROVE  \E f : Folds(f, s, k)
<1> DEFINE T == {n \in 0..Len(s) : ~ \E f : Folds(f, s, n)}
<1> SUFFICES ASSUME T # {} PROVE FALSE
  OBVIOUS
<1>1. PICK n \in T : \A m \in T : n <= m
  <2>1. T \subseteq Nat
    OBVIOUS
  <2> HIDE DEF T
  <2> QED
    BY <2>1, Least
<1>2. n \in Nat /\ n <= Len(s)
  OBVIOUS
<1>3. \E f : \A m \in 0..(n - 1) : f[m] = HasForce(s, m, f)
  <2>1. CASE n = 0
    BY <2>1
  <2>2. CASE n # 0
    <3>1. n - 1 \in 0..Len(s) /\ ~ (n <= n - 1)
      BY <1>2, <2>2
    <3>2. n - 1 \notin T
      BY <1>1, <3>1
    <3>3. PICK f : Folds(f, s, n - 1)
      BY <3>1, <3>2
    <3> QED
      BY <3>3 DEF Folds
  <2> QED
    BY <2>1, <2>2
<1>4. PICK f : \A m \in 0..(n - 1) : f[m] = HasForce(s, m, f)
  BY <1>3
<1> DEFINE g == [m \in 0..n |-> HasForce(s, m, f)]
<1>5. ASSUME NEW m \in 0..n
      PROVE  HasForce(s, m, f) = HasForce(s, m, g)
  <2>1. \A i \in 1..(m - 1) : f[i] = g[i]
    BY <1>2, <1>4
  <2>2. m \in Nat /\ Agree(s, s, m)
    BY <1>2 DEF Agree
  <2>3. HasForce(s, m, f) <=> HasForce(s, m, g)
    <3> HIDE DEF g
    <3> QED
      BY <2>1, <2>2, HasForceStable
  <2>4. HasForce(s, m, f) \in BOOLEAN /\ HasForce(s, m, g) \in BOOLEAN
    BY DEF HasForce
  <2> QED
    BY <2>3, <2>4
<1>6. Folds(g, s, n)
  BY <1>5 DEF Folds
<1> QED
  BY <1>6

LEMMA ForceIsFold ==
    ASSUME NEW s \in Seq(Entry)
    PROVE  ForceOf(s) = [n \in 0..Len(s) |-> HasForce(s, n, ForceOf(s))]
<1>1. ForceOf(s) = CHOOSE f : Folds(f, s, Len(s))
  BY DEF Force, Folds
<1>2. \E f : Folds(f, s, Len(s))
  BY FoldsExists
<1> QED
  BY <1>1, <1>2 DEF Folds

\* What had force keeps it, whatever is appended.
LEMMA ForceStable ==
    ASSUME NEW r \in Seq(Entry), NEW s \in Seq(Entry), NEW k \in Nat, Agree(r, s, k),
           NEW n \in 0..k
    PROVE  ForceOf(r)[n] = ForceOf(s)[n]
<1> DEFINE T == {m \in 0..k : ForceOf(r)[m] # ForceOf(s)[m]}
<1> SUFFICES ASSUME T # {} PROVE FALSE
  OBVIOUS
<1>1. PICK m \in T : \A i \in T : m <= i
  <2>1. T \subseteq Nat
    OBVIOUS
  <2> HIDE DEF T
  <2> QED
    BY <2>1, Least
<1>2. m \in 0..k
  OBVIOUS
<1>3. \A i \in 1..(m - 1) : ForceOf(r)[i] = ForceOf(s)[i]
  BY <1>1, <1>2
<1>4. Agree(r, s, m)
  BY <1>2 DEF Agree
<1>5. HasForce(r, m, ForceOf(r)) <=> HasForce(s, m, ForceOf(s))
  BY <1>2, <1>3, <1>4, HasForceStable
<1>6. m \in 0..Len(r) /\ m \in 0..Len(s)
  BY <1>2 DEF Agree
<1>7. ForceOf(r)[m] = HasForce(r, m, ForceOf(r)) /\ ForceOf(s)[m] = HasForce(s, m, ForceOf(s))
  BY <1>6, ForceIsFold
<1>8. HasForce(r, m, ForceOf(r)) \in BOOLEAN /\ HasForce(s, m, ForceOf(s)) \in BOOLEAN
  BY DEF HasForce
<1> QED
  BY <1>5, <1>7, <1>8

-----------------------------------------------------------------------------
(* How steps handle origins.                                               *)

\* A handler is ended, or is still at the same act.
Held(t) ==
    call'[t] = None
    \/ /\ call[t] # None
       /\ call'[t].act = call[t].act
       /\ call[t].pc = "reporting" => call'[t].pc = "reporting"

\* Tokens and handlers go, none comes.
Dropping ==
    Less(table') /\ drawn' = drawn /\ (\A t \in Tokens : Held(t)) /\ log' = log

\* A token is drawn, with an origin of its own or that of a token spent for it.
Issuing ==
    /\ drawn' = drawn + 1
    /\ drawn' \in Tokens
    /\ \A s \in Tokens \ {drawn'} : table'[s] \in {table[s], None}
    /\ \/ table'[drawn'].origin = drawn'
       \/ \E t \in Tokens \ {drawn'} : table[t] # None /\ table'[t] = None
                                       /\ table'[drawn'].origin = table[t].origin
    /\ call' = call /\ log' = log

\* A token is spent for a handler.
Beginning ==
    /\ Less(table') /\ drawn' = drawn /\ log' = log
    /\ \E t \in Tokens :
          /\ table[t] # None /\ table'[t] = None
          /\ call'[t].act = table[t]
          /\ \A s \in Tokens \ {t} : call'[s] = call[s]

\* A record is appended, by another writer or by a handler that is through.
Extending ==
    /\ table' = table /\ drawn' = drawn /\ \A t \in Tokens : Held(t)
    /\ \E e \in Entry :
          /\ log' = Append(log, e)
          /\ \/ e.origin = None /\ e.token = None
             \/ \E t \in Tokens : /\ call[t] # None /\ call[t].pc # "reporting"
                                  /\ e.origin = call[t].act.origin /\ e.token = t
                                  /\ call'[t] = None \/ call'[t].pc = "reporting"

LEMMA DroppingOrigins ==
    ASSUME TypeOK, Origins, Dropping
    PROVE  Origins'
<1>1. \A t \in Tokens : table'[t] # None => table'[t] = table[t] /\ table[t] # None
  BY DEF Dropping, Less
<1>2. \A t \in Tokens : call'[t] # None =>
         /\ call[t] # None /\ call'[t].act = call[t].act
         /\ call'[t].pc # "reporting" => call[t].pc # "reporting"
  BY DEF Dropping, Held
<1>3. drawn' = drawn /\ log' = log
  BY DEF Dropping
<1>4. Issued'
  BY <1>1, <1>2, <1>3 DEF Origins, Issued
<1>5. Separate'
  BY <1>1, <1>2, <1>3 DEF Origins, Separate
<1>6. OneAnchorPerProof'
  BY <1>3 DEF Origins, OneAnchorPerProof
<1> QED
  BY <1>4, <1>5, <1>6 DEF Origins

LEMMA IssuingOrigins ==
    ASSUME TypeOK, Origins, Issuing
    PROVE  Origins'
<1>1. \A s \in Tokens : s # drawn' /\ table'[s] # None => table'[s] = table[s] /\ table[s] # None
  BY DEF Issuing
<1>2. drawn' = drawn + 1 /\ drawn \in Nat /\ drawn' \in Tokens /\ call' = call /\ log' = log
  BY BoundsAssumption DEF Issuing, TypeOK
<1>3. \/ table'[drawn'].origin = drawn'
      \/ \E t \in Tokens \ {drawn'} : table[t] # None /\ table'[t] = None
                                      /\ table'[drawn'].origin = table[t].origin
  BY DEF Issuing
<1>4. /\ \A t \in Tokens : table[t] # None => table[t].origin \in Nat /\ table[t].origin <= drawn
      /\ \A t \in Tokens : call[t] # None =>
            call[t].act.origin \in Nat /\ call[t].act.origin <= drawn
      /\ \A n \in 1..Len(log) : log[n].origin # None =>
            log[n].origin \in Nat /\ log[n].origin <= drawn
      /\ \A t \in Tokens : t \in Nat
  <2>1. \A t \in Tokens : table[t] # None => table[t].origin \in Nat
    BY DEF TypeOK, Pending, Tokens
  <2>2. \A t \in Tokens : call[t] # None => call[t].act.origin \in Nat
    BY DEF TypeOK, Call, Pending, Tokens
  <2>3. \A n \in 1..Len(log) : log[n].origin # None => log[n].origin \in Nat
    <3>1. \A n \in 1..Len(log) : log[n] \in Entry
      BY DEF TypeOK
    <3> QED
      BY <3>1 DEF Entry, Tokens
  <2>4. \A t \in Tokens : t \in Nat
    BY DEF Tokens
  <2> QED
    BY <2>1, <2>2, <2>3, <2>4 DEF Origins, Issued
<1>5. Issued'
  <2>1. \A t \in Tokens : table'[t] # None => t <= drawn' /\ table'[t].origin <= drawn'
    <3>1. SUFFICES ASSUME NEW t \in Tokens, table'[t] # None
                   PROVE  t <= drawn' /\ table'[t].origin <= drawn'
      OBVIOUS
    <3>2. CASE t = drawn'
      BY <1>2, <1>3, <1>4, <3>2
    <3>3. CASE t # drawn'
      <4>1. t <= drawn /\ table[t].origin <= drawn /\ t \in Nat /\ table[t].origin \in Nat
        BY <1>1, <1>4, <3>1, <3>3 DEF Origins, Issued
      <4> QED
        BY <1>1, <1>2, <3>1, <3>3, <4>1
    <3> QED
      BY <3>2, <3>3
  <2>2. \A t \in Tokens : call[t] # None => call[t].act.origin <= drawn'
    BY <1>2, <1>4
  <2>3. \A n \in 1..Len(log) : log[n].origin # None => log[n].origin <= drawn'
    BY <1>2, <1>4
  <2> QED
    BY <1>2, <2>1, <2>2, <2>3 DEF Issued
<1>6. /\ \A s \in Tokens : s # drawn' /\ table'[s] # None => table'[s].origin # table'[drawn'].origin
      /\ \A s \in Tokens : call[s] # None => call[s].act.origin # table'[drawn'].origin
      /\ \A n \in 1..Len(log) : log[n].origin # table'[drawn'].origin
  <2>1. CASE table'[drawn'].origin = drawn'
    <3>1. ~ (drawn' <= drawn) /\ drawn' # None
      BY <1>2, NoneAssumption
    <3>2. \A s \in Tokens : s # drawn' /\ table'[s] # None => table'[s].origin # drawn'
      BY <1>1, <1>4, <3>1
    <3>3. /\ \A s \in Tokens : call[s] # None => call[s].act.origin # drawn'
          /\ \A n \in 1..Len(log) : log[n].origin # drawn'
      BY <1>4, <3>1
    <3> QED
      BY <2>1, <3>2, <3>3
  <2>2. ASSUME NEW t \in Tokens \ {drawn'}, table[t] # None, table'[t] = None,
               table'[drawn'].origin = table[t].origin
        PROVE  <1>6!1 /\ <1>6!2 /\ <1>6!3
    <3>1. \A s \in Tokens : s # drawn' /\ table'[s] # None => table'[s].origin # table[t].origin
      <4>1. SUFFICES ASSUME NEW s \in Tokens, s # drawn', table'[s] # None
                     PROVE  table'[s].origin # table[t].origin
        OBVIOUS
      <4>2. s # t /\ table'[s] = table[s] /\ table[s] # None
        BY <1>1, <2>2, <4>1
      <4> QED
        BY <2>2, <4>2 DEF Origins, Separate
    <3>2. \A s \in Tokens : call[s] # None => call[s].act.origin # table[t].origin
      BY <2>2 DEF Origins, Separate
    <3>3. \A n \in 1..Len(log) : log[n].origin # table[t].origin
      BY <2>2 DEF Origins, Separate
    <3> QED
      BY <2>2, <3>1, <3>2, <3>3
  <2> QED
    BY <1>3, <2>1, <2>2
<1>7. Separate'
  <2>1. \A s, t \in Tokens : table'[s] # None /\ table'[t] # None
                             /\ table'[s].origin = table'[t].origin => s = t
    <3>1. SUFFICES ASSUME NEW s \in Tokens, NEW t \in Tokens, table'[s] # None, table'[t] # None,
                          table'[s].origin = table'[t].origin
                   PROVE  s = t
      OBVIOUS
    <3>2. CASE s # drawn' /\ t # drawn'
      BY <1>1, <3>1, <3>2 DEF Origins, Separate
    <3>3. CASE s = drawn' \/ t = drawn'
      BY <1>6, <3>1, <3>3
    <3> QED
      BY <3>2, <3>3
  <2>2. \A s, t \in Tokens : table'[s] # None /\ call[t] # None
           => table'[s].origin # call[t].act.origin
    <3>1. SUFFICES ASSUME NEW s \in Tokens, NEW t \in Tokens, table'[s] # None, call[t] # None
                   PROVE  table'[s].origin # call[t].act.origin
      OBVIOUS
    <3>2. CASE s # drawn'
      BY <1>1, <3>1, <3>2 DEF Origins, Separate
    <3>3. CASE s = drawn'
      BY <1>6, <3>1, <3>3
    <3> QED
      BY <3>2, <3>3
  <2>3. \A t \in Tokens, n \in 1..Len(log) : table'[t] # None => table'[t].origin # log[n].origin
    <3>1. SUFFICES ASSUME NEW t \in Tokens, NEW n \in 1..Len(log), table'[t] # None
                   PROVE  table'[t].origin # log[n].origin
      OBVIOUS
    <3>2. CASE t # drawn'
      BY <1>1, <3>1, <3>2 DEF Origins, Separate
    <3>3. CASE t = drawn'
      BY <1>6, <3>1, <3>3
    <3> QED
      BY <3>2, <3>3
  <2> QED
    BY <1>2, <2>1, <2>2, <2>3 DEF Origins, Separate
<1>8. OneAnchorPerProof'
  BY <1>2 DEF Origins, OneAnchorPerProof
<1> QED
  BY <1>5, <1>7, <1>8 DEF Origins

LEMMA BeginningOrigins ==
    ASSUME TypeOK, Origins, Beginning
    PROVE  Origins'
<1>1. PICK t \in Tokens : /\ table[t] # None /\ table'[t] = None
                          /\ call'[t].act = table[t]
                          /\ \A s \in Tokens \ {t} : call'[s] = call[s]
  BY DEF Beginning
<1>2. \A s \in Tokens : table'[s] # None => table'[s] = table[s] /\ table[s] # None /\ s # t
  BY <1>1 DEF Beginning, Less
<1>3. drawn' = drawn /\ log' = log
  BY DEF Beginning
<1>4. Issued'
  <2>1. \A s \in Tokens : table'[s] # None => s <= drawn /\ table'[s].origin <= drawn
    BY <1>2 DEF Origins, Issued
  <2>2. \A s \in Tokens : call'[s] # None => call'[s].act.origin <= drawn
    BY <1>1 DEF Origins, Issued
  <2> QED
    BY <1>3, <2>1, <2>2 DEF Origins, Issued
<1>5. Separate'
  <2>1. \A s, u \in Tokens : table'[s] # None /\ table'[u] # None
                             /\ table'[s].origin = table'[u].origin => s = u
    BY <1>2 DEF Origins, Separate
  <2>2. \A s \in Tokens \ {t} : call[s] # None => call[s].act.origin # table[t].origin
    BY <1>1 DEF Origins, Separate
  <2>3. \A s, u \in Tokens : call'[s] # None /\ call'[u] # None
                             /\ call'[s].act.origin = call'[u].act.origin => s = u
    BY <1>1, <2>2 DEF Origins, Separate
  <2>4. \A s, u \in Tokens : table'[s] # None /\ call'[u] # None
           => table'[s].origin # call'[u].act.origin
    BY <1>1, <1>2 DEF Origins, Separate
  <2>5. \A s \in Tokens, n \in 1..Len(log) : table'[s] # None => table'[s].origin # log[n].origin
    BY <1>2 DEF Origins, Separate
  <2>6. \A s \in Tokens, n \in 1..Len(log) : call'[s] # None /\ call'[s].pc # "reporting"
           => call'[s].act.origin # log[n].origin
    BY <1>1 DEF Origins, Separate
  <2> QED
    BY <1>3, <2>1, <2>3, <2>4, <2>5, <2>6 DEF Separate
<1>6. OneAnchorPerProof'
  BY <1>3 DEF Origins, OneAnchorPerProof
<1> QED
  BY <1>4, <1>5, <1>6 DEF Origins

LEMMA ExtendingOrigins ==
    ASSUME TypeOK, Origins, Extending
    PROVE  Origins'
<1>1. PICK e \in Entry :
          /\ log' = Append(log, e)
          /\ \/ e.origin = None
             \/ \E t \in Tokens : /\ call[t] # None /\ call[t].pc # "reporting"
                                  /\ e.origin = call[t].act.origin
                                  /\ call'[t] = None \/ call'[t].pc = "reporting"
  BY DEF Extending
<1>2. \A t \in Tokens : call'[t] # None =>
         /\ call[t] # None /\ call'[t].act = call[t].act
         /\ call'[t].pc # "reporting" => call[t].pc # "reporting"
  BY DEF Extending, Held
<1>3. table' = table /\ drawn' = drawn
  BY DEF Extending
<1>4. /\ Len(log') = Len(log) + 1 /\ Len(log) \in Nat /\ log'[Len(log) + 1] = e
      /\ \A n \in 1..Len(log) : log'[n] = log[n]
  BY <1>1 DEF TypeOK
<1>5. \A n \in 1..Len(log') : n \in 1..Len(log) \/ n = Len(log) + 1
  BY <1>4
<1>6. /\ \A t \in Tokens : table[t] # None => table[t].origin # e.origin
      /\ \A t \in Tokens : call'[t] # None /\ call'[t].pc # "reporting"
            => call'[t].act.origin # e.origin
      /\ \A n \in 1..Len(log) : e.origin # None => log[n].origin # e.origin
      /\ e.origin # None => e.origin <= drawn
  <2>1. CASE e.origin = None
    <3>1. /\ \A t \in Tokens : table[t] # None => table[t].origin \in Nat
          /\ \A t \in Tokens : call[t] # None => call[t].act.origin \in Nat
      <4>1. /\ \A t \in Tokens : table[t] # None => table[t] \in Pending
            /\ \A t \in Tokens : call[t] # None => call[t] \in Call
        BY DEF TypeOK
      <4>2. \A act \in Pending : act.origin \in Nat
        BY DEF Pending, Tokens
      <4>3. \A c \in Call : c.act \in Pending
        BY DEF Call
      <4> QED
        BY <4>1, <4>2, <4>3
    <3> QED
      BY <1>2, <2>1, <3>1, NoneAssumption
  <2>2. ASSUME NEW t \in Tokens, call[t] # None, call[t].pc # "reporting",
               e.origin = call[t].act.origin, call'[t] = None \/ call'[t].pc = "reporting"
        PROVE  <1>6!1 /\ <1>6!2 /\ <1>6!3 /\ <1>6!4
    <3>1. \A s \in Tokens : call'[s] # None /\ call'[s].pc # "reporting"
             => call'[s].act.origin # e.origin
      BY <1>2, <2>2 DEF Origins, Separate
    <3>2. \A s \in Tokens : table[s] # None => table[s].origin # e.origin
      BY <2>2 DEF Origins, Separate
    <3>3. \A n \in 1..Len(log) : log[n].origin # e.origin
      BY <2>2 DEF Origins, Separate
    <3>4. e.origin <= drawn
      BY <2>2 DEF Origins, Issued
    <3> QED
      BY <3>1, <3>2, <3>3, <3>4
  <2> QED
    BY <1>1, <2>1, <2>2
<1>7. Issued'
  BY <1>2, <1>3, <1>4, <1>5, <1>6 DEF Origins, Issued
<1>8. Separate'
  <2>1. \A s, u \in Tokens : call'[s] # None /\ call'[u] # None
                             /\ call'[s].act.origin = call'[u].act.origin => s = u
    BY <1>2 DEF Origins, Separate
  <2>2. \A s, u \in Tokens : table[s] # None /\ call'[u] # None
           => table[s].origin # call'[u].act.origin
    BY <1>2 DEF Origins, Separate
  <2>3. \A t \in Tokens, n \in 1..Len(log') : table[t] # None => table[t].origin # log'[n].origin
    BY <1>4, <1>5, <1>6 DEF Origins, Separate
  <2>4. \A t \in Tokens, n \in 1..Len(log') : call'[t] # None /\ call'[t].pc # "reporting"
           => call'[t].act.origin # log'[n].origin
    BY <1>2, <1>4, <1>5, <1>6 DEF Origins, Separate
  <2> QED
    BY <1>3, <2>1, <2>2, <2>3, <2>4 DEF Origins, Separate
<1>9. OneAnchorPerProof'
  <2>1. SUFFICES ASSUME NEW m \in 1..Len(log'), NEW n \in 1..Len(log'),
                        log'[m].origin = log'[n].origin, log'[m].origin # None
                 PROVE  m = n
    BY DEF OneAnchorPerProof
  <2>2. CASE m \in 1..Len(log) /\ n \in 1..Len(log)
    BY <1>4, <2>1, <2>2 DEF Origins, OneAnchorPerProof
  <2>3. CASE m = Len(log) + 1 \/ n = Len(log) + 1
    BY <1>4, <1>5, <1>6, <2>1, <2>3
  <2> QED
    BY <1>5, <2>2, <2>3
<1> QED
  BY <1>7, <1>8, <1>9 DEF Origins

-----------------------------------------------------------------------------
(* What every step keeps.                                                  *)

Shape == Dropping \/ Issuing \/ Beginning \/ Extending

\* The log grows, and a witness that signed has been checked.
Grows ==
    /\ published' \in published..Len(log')
    /\ \/ log' = log
       \/ \E e \in Entry :
             /\ log' = Append(log, e)
             /\ e.kind = "github" => \E m \in e.since..Len(log) : WitnessAt(log, m) = e.by

\* An answer is news only when the record it reports has force.
Answered ==
    \A t \in Tokens : answer'[t] = "created" =>
        \/ answer[t] = "created"
        \/ \E n \in 1..published : log[n].token = t /\ ForceOf(View)[n]

LEMMA GrowsFacts ==
    ASSUME Core, Grows
    PROVE  /\ log' \in Seq(Entry) /\ published <= published' /\ published' \in 0..Len(log')
           /\ published \in Nat /\ published <= Len(log) /\ Len(log) <= Len(log')
           /\ \A n \in 0..Len(log) : Agree(log', log, n)
<1>1. log \in Seq(Entry) /\ Len(log) \in Nat /\ published \in 0..Len(log)
  BY DEF Core, TypeOK
<1>2. CASE log' = log
  BY <1>1, <1>2 DEF Grows, Agree
<1>3. CASE \E e \in Entry : log' = Append(log, e)
  <2>1. PICK e \in Entry : log' = Append(log, e)
    BY <1>3
  <2>2. /\ log' \in Seq(Entry) /\ Len(log') = Len(log) + 1
        /\ \A n \in 1..Len(log) : log'[n] = log[n]
    BY <1>1, <2>1
  <2> QED
    BY <1>1, <2>2 DEF Grows, Agree
<1> QED
  BY <1>2, <1>3 DEF Grows

\* A handler that does not move stays checked.
LEMMA CheckedKept ==
    ASSUME Core, Grows, NEW t \in Tokens, call[t] # None, call'[t] = call[t]
    PROVE  Checked(t)'
<1>1. call[t] \in Call /\ Checked(t)
  BY DEF Core, TypeOK
<1>2. call[t].since \in Nat
  BY <1>1 DEF Call
<1>3. published <= published' /\ published \in Nat /\ published' \in Nat /\ published <= Len(log)
  BY GrowsFacts
<1>4. call[t].pc \in {"checking", "appending"} => call[t].since <= published'
  BY <1>1, <1>2, <1>3 DEF Checked
<1>5. ASSUME call[t].pc = "appending", Github(t)
      PROVE  \E m \in call[t].since..published' : WitnessAt(log', m) = call[t].key
  <2>1. PICK m \in call[t].since..published : WitnessAt(log, m) = call[t].key
    BY <1>1, <1>5 DEF Checked
  <2>2. m \in Nat /\ m \in 0..Len(log) /\ m \in call[t].since..published'
    BY <1>2, <1>3
  <2>3. Agree(log', log, m)
    BY <2>2, GrowsFacts
  <2>4. WitnessAt(log', m) = WitnessAt(log, m)
    BY <2>2, <2>3, WitnessStable
  <2> QED
    BY <2>1, <2>2, <2>4
<1> QED
  BY <1>1, <1>4, <1>5 DEF Checked, Github

LEMMA WitnessKept ==
    ASSUME Core, Grows, WitnessRechecked
    PROVE  WitnessRechecked'
<1> USE DEF Core
<1>1. log \in Seq(Entry) /\ Len(log) \in Nat
  BY DEF TypeOK
<1>2. SUFFICES ASSUME NEW n \in 1..Len(log'), log'[n].kind = "github"
               PROVE  \E m \in log'[n].since..(n - 1) : WitnessAt(log', m) = log'[n].by
  BY DEF WitnessRechecked
<1>3. CASE n \in 1..Len(log)
  <2>1. log'[n] = log[n]
    <3>1. Agree(log', log, Len(log))
      BY <1>1, GrowsFacts
    <3> QED
      BY <1>3, <3>1 DEF Agree
  <2>2. PICK m \in log[n].since..(n - 1) : WitnessAt(log, m) = log[n].by
    BY <1>2, <1>3, <2>1 DEF WitnessRechecked
  <2>3. log[n] \in Entry
    BY <1>1, <1>3
  <2>4. m \in 0..Len(log) /\ m \in Nat
    BY <1>1, <1>3, <2>3 DEF Entry
  <2>5. WitnessAt(log', m) = WitnessAt(log, m)
    BY <2>4, GrowsFacts, WitnessStable
  <2> QED
    BY <2>1, <2>2, <2>5
<1>4. CASE n \notin 1..Len(log)
  <2>1. log' # log
    BY <1>4
  <2>2. PICK e \in Entry :
           /\ log' = Append(log, e)
           /\ e.kind = "github" => \E m \in e.since..Len(log) : WitnessAt(log, m) = e.by
    BY <2>1 DEF Grows
  <2>3. n = Len(log) + 1 /\ log'[n] = e
    BY <1>1, <1>4, <2>2
  <2>4. PICK m \in e.since..Len(log) : WitnessAt(log, m) = e.by
    BY <1>2, <2>2, <2>3
  <2>5. m \in 0..Len(log) /\ m \in Nat
    BY <1>1 DEF Entry
  <2>6. WitnessAt(log', m) = WitnessAt(log, m)
    BY <2>5, GrowsFacts, WitnessStable
  <2>7. n - 1 = Len(log)
    BY <1>1, <2>3
  <2> QED
    BY <2>3, <2>4, <2>6, <2>7
<1> QED
  BY <1>3, <1>4

LEMMA CreatedKept ==
    ASSUME Core, Grows, Answered, CreatedHasForce
    PROVE  CreatedHasForce'
<1>1. log \in Seq(Entry) /\ Len(log) \in Nat /\ published \in 0..Len(log)
  BY DEF Core, TypeOK
<1>2. SUFFICES ASSUME NEW t \in Tokens, answer'[t] = "created"
               PROVE  \E n \in 1..published' : log'[n].token = t /\ ForceOf(log')[n]
  BY DEF CreatedHasForce
<1>3. \E n \in 1..published : log[n].token = t /\ ForceOf(log)[n]
  <2>1. CASE answer[t] = "created"
    BY <2>1 DEF CreatedHasForce
  <2>2. CASE \E n \in 1..published : log[n].token = t /\ ForceOf(View)[n]
    <3>1. PICK n \in 1..published : log[n].token = t /\ ForceOf(View)[n]
      BY <2>2
    <3>2. View \in Seq(Entry) /\ Agree(View, log, published)
      <4>1. /\ View \in Seq(Entry) /\ Len(View) = published
            /\ \A i \in 1..published : View[i] = log[i]
        BY <1>1 DEF View
      <4> QED
        BY <1>1, <4>1 DEF Agree
    <3>3. n \in 0..published /\ published \in Nat
      BY <1>1
    <3>4. ForceOf(View)[n] = ForceOf(log)[n]
      BY <1>1, <3>2, <3>3, ForceStable
    <3> QED
      BY <3>1, <3>4
  <2> QED
    BY <1>2, <2>1, <2>2 DEF Answered
<1>4. PICK n \in 1..published : log[n].token = t /\ ForceOf(log)[n]
  BY <1>3
<1>5. log' \in Seq(Entry) /\ Agree(log', log, Len(log)) /\ published <= published'
      /\ published' \in Nat /\ published \in Nat
  BY <1>1, GrowsFacts
<1>6. n \in 0..Len(log) /\ n \in 1..Len(log) /\ n \in 1..published'
  BY <1>1, <1>5
<1>7. ForceOf(log')[n] = ForceOf(log)[n]
  BY <1>1, <1>5, <1>6, ForceStable
<1>8. log'[n] = log[n]
  BY <1>5, <1>6 DEF Agree
<1> QED
  BY <1>4, <1>6, <1>7, <1>8

-----------------------------------------------------------------------------
(* The actions.                                                            *)

Sound == Core' /\ Shape /\ Grows /\ Answered

\* The log stands still.
LEMMA Still ==
    ASSUME Core, UNCHANGED repository
    PROVE  Grows /\ log' = log /\ published' = published
BY DEF Core, TypeOK, Grows, repository

\* A step that leaves the tables and the log alone, and one handler elsewhere.
LEMMA HandlerStep ==
    ASSUME Core, NEW t \in Tokens, call[t] # None,
           table' = table, drawn' = drawn, signer' = signer, UNCHANGED repository, now' = now,
           faults' \in 0..MaxFaults,
           call' \in [Tokens -> Call \cup {None}], answer' \in [Tokens ->
               {None, "created", "refused", "error", "invalid"}],
           \A s \in Tokens \ {t} : call'[s] = call[s] /\ answer'[s] = answer[s],
           call'[t] # None => Checked(t)', Held(t),
           answer'[t] = "created" =>
               answer[t] = "created" \/ \E n \in 1..published : log[n].token = t /\ ForceOf(View)[n]
    PROVE  Sound
<1>1. Grows /\ log' = log /\ published' = published
  BY Still
<1>2. TypeOK'
  BY <1>1 DEF Core, TypeOK, Kinds
<1>3. ASSUME NEW s \in Tokens, call'[s] # None
      PROVE  Checked(s)'
  BY <1>1, <1>3, CheckedKept
<1>4. Core'
  BY <1>1, <1>2, <1>3 DEF Core
<1>5. Dropping
  BY <1>1 DEF Dropping, Less, Held
<1>6. Answered
  BY DEF Answered
<1> QED
  BY <1>1, <1>4, <1>5, <1>6 DEF Sound, Shape

\* What a fault, or its absence, leaves of the counter of faults.
LEMMA FaultsCounted ==
    ASSUME Core, Fault \/ NoFault
    PROVE  faults' \in 0..MaxFaults
<1>1. faults \in 0..MaxFaults /\ MaxFaults \in Nat
  BY BoundsAssumption DEF Core, TypeOK
<1> QED
  BY <1>1 DEF Fault, NoFault

LEMMA IdentifySound ==
    ASSUME Core, NEW t \in Tokens, Identify(t)
    PROVE  Sound
<1>1. call[t] # None /\ call[t] \in Call /\ Checked(t) /\ call[t].pc = "identifying"
  BY DEF Identify, At, Core, TypeOK
<1>2. call'[t] = None \/ call'[t] = [call[t] EXCEPT !.pc = "signing"]
  BY DEF Identify, Answer, GoOn, Core, TypeOK
<1>3. /\ faults' \in 0..MaxFaults
      /\ answer' \in [Tokens -> {None, "created", "refused", "error", "invalid"}]
  <2>1. faults' \in 0..MaxFaults
    BY FaultsCounted DEF Identify
  <2>2. answer' = answer \/ answer' = [answer EXCEPT ![t] = "error"]
    BY DEF Identify, Answer
  <2>3. answer' \in [Tokens -> {None, "created", "refused", "error", "invalid"}]
    BY <2>2 DEF Core, TypeOK
  <2> QED
    BY <2>1, <2>3
<1>4. call' \in [Tokens -> Call \cup {None}]
  <2>1. [call[t] EXCEPT !.pc = "signing"] \in Call
    BY <1>1 DEF Call
  <2>2. \/ call' = [call EXCEPT ![t] = None]
        \/ call' = [call EXCEPT ![t] = [call[t] EXCEPT !.pc = "signing"]]
    BY DEF Identify, Answer, GoOn
  <2> QED
    BY <2>1, <2>2 DEF Core, TypeOK
<1>5. \A s \in Tokens \ {t} : call'[s] = call[s] /\ answer'[s] = answer[s]
  BY DEF Identify, Answer, GoOn, Core, TypeOK
<1>6. (call'[t] # None => Checked(t)') /\ Held(t)
  BY <1>1, <1>2 DEF Checked, Held, Call
<1>7. answer'[t] = "created" => answer[t] = "created"
  BY DEF Identify, Answer, Core, TypeOK
<1> QED
  BY <1>1, <1>3, <1>4, <1>5, <1>6, <1>7, HandlerStep DEF Identify

LEMMA SignSound ==
    ASSUME Core, NEW t \in Tokens, Sign(t)
    PROVE  Sound
<1>1. call[t] # None /\ call[t] \in Call /\ Checked(t) /\ call[t].pc = "signing"
  BY DEF Sign, At, Core, TypeOK
<1>2. /\ signer \in Witnesses /\ published \in 0..MaxRecords /\ published' = published
  BY BoundsAssumption DEF Core, TypeOK, Sign, repository
<1>3. call'[t] = None \/ call'[t] = [call[t] EXCEPT !.pc = "checking", !.key = signer,
                                                    !.since = published]
  BY DEF Sign, Answer, Core, TypeOK
<1>4. /\ faults' \in 0..MaxFaults
      /\ answer' \in [Tokens -> {None, "created", "refused", "error", "invalid"}]
  <2>1. faults' \in 0..MaxFaults
    BY FaultsCounted DEF Sign
  <2>2. \/ answer' = answer
        \/ \E what \in {"refused", "error"} : answer' = [answer EXCEPT ![t] = what]
    BY DEF Sign, Answer
  <2>3. answer' \in [Tokens -> {None, "created", "refused", "error", "invalid"}]
    BY <2>2 DEF Core, TypeOK
  <2> QED
    BY <2>1, <2>3
<1>5. call' \in [Tokens -> Call \cup {None}]
  <2>1. [call[t] EXCEPT !.pc = "checking", !.key = signer, !.since = published] \in Call
    BY <1>1, <1>2 DEF Call
  <2>2. \/ call' = [call EXCEPT ![t] = None]
        \/ call' = [call EXCEPT ![t] = [call[t] EXCEPT !.pc = "checking", !.key = signer,
                                                       !.since = published]]
    BY DEF Sign, Answer
  <2> QED
    BY <2>1, <2>2 DEF Core, TypeOK
<1>6. \A s \in Tokens \ {t} : call'[s] = call[s] /\ answer'[s] = answer[s]
  BY DEF Sign, Answer, Core, TypeOK
<1>7. (call'[t] # None => Checked(t)') /\ Held(t)
  <2>1. CASE call'[t] = None
    BY <2>1 DEF Held
  <2>2. CASE call'[t] = [call[t] EXCEPT !.pc = "checking", !.key = signer, !.since = published]
    <3>1. /\ call'[t].pc = "checking" /\ call'[t].key = signer /\ call'[t].since = published
          /\ call'[t].act = call[t].act
      BY <1>1, <2>2 DEF Call
    <3> QED
      BY <1>1, <1>2, <3>1 DEF Checked, Held
  <2> QED
    BY <1>3, <2>1, <2>2
<1>8. answer'[t] = "created" => answer[t] = "created"
  BY DEF Sign, Answer, Core, TypeOK
<1> QED
  BY <1>1, <1>4, <1>5, <1>6, <1>7, <1>8, HandlerStep DEF Sign

LEMMA CheckSound ==
    ASSUME Core, NEW t \in Tokens, CheckWitness(t)
    PROVE  Sound
<1>1. call[t] # None /\ call[t] \in Call /\ Checked(t) /\ call[t].pc = "checking"
  BY DEF CheckWitness, At, Core, TypeOK
<1>2. published \in Nat /\ published' = published /\ log' = log /\ published <= Len(log)
  BY DEF Core, TypeOK, CheckWitness, repository
<1>3. \/ call'[t] = None
      \/ /\ call'[t] = [call[t] EXCEPT !.pc = "appending"]
         /\ WitnessAt(View, published) = call[t].key
  BY DEF CheckWitness, Answer, GoOn, Core, TypeOK
<1>4. /\ faults' \in 0..MaxFaults
      /\ answer' \in [Tokens -> {None, "created", "refused", "error", "invalid"}]
  <2>1. faults' \in 0..MaxFaults
    BY FaultsCounted DEF CheckWitness
  <2>2. \/ answer' = answer
        \/ \E what \in {"refused", "error"} : answer' = [answer EXCEPT ![t] = what]
    BY DEF CheckWitness, Answer
  <2>3. answer' \in [Tokens -> {None, "created", "refused", "error", "invalid"}]
    BY <2>2 DEF Core, TypeOK
  <2> QED
    BY <2>1, <2>3
<1>5. call' \in [Tokens -> Call \cup {None}]
  <2>1. [call[t] EXCEPT !.pc = "appending"] \in Call
    BY <1>1 DEF Call
  <2>2. \/ call' = [call EXCEPT ![t] = None]
        \/ call' = [call EXCEPT ![t] = [call[t] EXCEPT !.pc = "appending"]]
    BY DEF CheckWitness, Answer, GoOn
  <2> QED
    BY <2>1, <2>2 DEF Core, TypeOK
<1>6. \A s \in Tokens \ {t} : call'[s] = call[s] /\ answer'[s] = answer[s]
  BY DEF CheckWitness, Answer, GoOn, Core, TypeOK
<1>7. (call'[t] # None => Checked(t)') /\ Held(t)
  <2>1. CASE call'[t] = None
    BY <2>1 DEF Held
  <2>2. CASE /\ call'[t] = [call[t] EXCEPT !.pc = "appending"]
             /\ WitnessAt(View, published) = call[t].key
    <3>1. /\ call'[t].pc = "appending" /\ call'[t].key = call[t].key
          /\ call'[t].since = call[t].since /\ call'[t].act = call[t].act
      BY <1>1, <2>2 DEF Call
    <3>2. Agree(View, log, published)
      <4>1. log \in Seq(Entry) /\ published \in 0..Len(log)
        BY DEF Core, TypeOK
      <4>2. Len(View) = published /\ \A i \in 1..published : View[i] = log[i]
        BY <4>1 DEF View
      <4> QED
        BY <1>2, <4>2 DEF Agree
    <3>3. WitnessAt(log, published) = call[t].key
      BY <1>2, <2>2, <3>2, WitnessStable
    <3>4. call[t].since <= published /\ call[t].since \in Nat
      BY <1>1 DEF Checked, Call
    <3>5. published \in call[t].since..published
      BY <1>2, <3>4
    <3>6. Checked(t)'
      BY <1>1, <1>2, <3>1, <3>3, <3>5 DEF Checked
    <3> QED
      BY <1>1, <3>1, <3>6 DEF Held
  <2> QED
    BY <1>3, <2>1, <2>2
<1>8. answer'[t] = "created" => answer[t] = "created"
  BY DEF CheckWitness, Answer, Core, TypeOK
<1> QED
  BY <1>1, <1>4, <1>5, <1>6, <1>7, <1>8, HandlerStep DEF CheckWitness

LEMMA ReportSound ==
    ASSUME Core, NEW t \in Tokens, Report(t)
    PROVE  Sound
<1>1. call[t] # None
  BY DEF Report, At
<1>2. PICK what \in {"created", "refused", "error"} :
         /\ Answer(t, what)
         /\ what = "created" => \E n \in 1..published : log[n].token = t /\ ForceOf(View)[n]
  BY DEF Report, IdentityOutcome
<1>3. call' = [call EXCEPT ![t] = None] /\ answer' = [answer EXCEPT ![t] = what]
  BY <1>2 DEF Answer
<1>4. faults' \in 0..MaxFaults
  BY FaultsCounted DEF Report
<1>5. /\ call' \in [Tokens -> Call \cup {None}] /\ call'[t] = None
      /\ answer' \in [Tokens -> {None, "created", "refused", "error", "invalid"}]
      /\ answer'[t] = what
      /\ \A s \in Tokens \ {t} : call'[s] = call[s] /\ answer'[s] = answer[s]
  BY <1>3 DEF Core, TypeOK
<1> QED
  BY <1>1, <1>2, <1>4, <1>5, HandlerStep DEF Report, Held

LEMMA AppendSound ==
    ASSUME Core, NEW t \in Tokens, AppendEndorsement(t)
    PROVE  Sound
<1>1. call[t] # None /\ call[t] \in Call /\ Checked(t) /\ call[t].pc = "appending"
  BY DEF AppendEndorsement, At, Core, TypeOK
<1>2. log \in Seq(Entry) /\ Len(log) \in Nat /\ published \in 0..Len(log) /\ Len(log) <= MaxRecords
  BY DEF Core, TypeOK
<1>3. EntryOf(t) \in Entry
  <2>1. /\ call[t].act \in Pending /\ call[t].act.kind # "proof" /\ call[t].since \in 0..MaxRecords
        /\ call[t].key \in Actors \cup Witnesses
    BY <1>1 DEF Checked, Call
  <2>2. /\ call[t].act.kind \in {"state", "nostr", "agent"} /\ call[t].act.subject \in Actors
        /\ call[t].act.origin \in Tokens
    BY <2>1 DEF Pending
  <2> QED
    BY <2>1, <2>2 DEF EntryOf, Github, Entry
<1>4. \/ log' = log /\ published' \in published..Len(log')
      \/ /\ log' = Append(log, EntryOf(t)) /\ Len(log) < MaxRecords /\ published = Len(log)
         /\ published' \in {published, Len(log')}
  BY <1>2 DEF AppendEndorsement, Undelivered, repository
<1>5. Grows /\ log' \in Seq(Entry) /\ Len(log') <= MaxRecords /\ published' \in 0..Len(log')
  <2>1. CASE log' = log /\ published' \in published..Len(log')
    BY <1>2, <2>1 DEF Grows
  <2>2. CASE /\ log' = Append(log, EntryOf(t)) /\ Len(log) < MaxRecords /\ published = Len(log)
             /\ published' \in {published, Len(log')}
    <3>1. Len(log') = Len(log) + 1 /\ log' \in Seq(Entry) /\ MaxRecords \in Nat
      BY <1>2, <1>3, <2>2, BoundsAssumption
    <3>2. ASSUME EntryOf(t).kind = "github"
          PROVE  \E m \in EntryOf(t).since..Len(log) : WitnessAt(log, m) = EntryOf(t).by
      <4>1. call[t].act.kind # "github"
        BY <1>1 DEF Call, Pending
      <4>2. Github(t)
        BY <3>2, <4>1 DEF EntryOf
      <4>3. EntryOf(t).since = call[t].since /\ EntryOf(t).by = call[t].key
        BY DEF EntryOf
      <4> QED
        BY <1>1, <2>2, <4>2, <4>3 DEF Checked
    <3> QED
      BY <1>2, <1>3, <2>2, <3>1, <3>2 DEF Grows
  <2> QED
    BY <1>4, <2>1, <2>2
<1>6. \/ /\ call' = [call EXCEPT ![t] = None]
         /\ \E what \in {"error", "invalid"} : answer' = [answer EXCEPT ![t] = what]
      \/ call' = [call EXCEPT ![t].pc = "reporting"] /\ answer' = answer
  BY DEF AppendEndorsement, AppendFailed, Answer, GoOn
<1>7. [call[t] EXCEPT !.pc = "reporting"] \in Call
  BY <1>1 DEF Call
<1>8. /\ call'[t] = None \/ call'[t] = [call[t] EXCEPT !.pc = "reporting"]
      /\ \A s \in Tokens \ {t} : call'[s] = call[s]
      /\ call' \in [Tokens -> Call \cup {None}]
  BY <1>6, <1>7 DEF Core, TypeOK
<1>9. /\ answer' \in [Tokens -> {None, "created", "refused", "error", "invalid"}]
      /\ \A s \in Tokens : answer'[s] = "created" => answer[s] = "created"
  BY <1>6 DEF Core, TypeOK
<1>10. TypeOK'
  <2>1. faults' \in 0..MaxFaults
    BY FaultsCounted DEF AppendEndorsement, NoFault
  <2>2. table' = table /\ drawn' = drawn /\ signer' = signer /\ now' = now
    BY DEF AppendEndorsement
  <2> QED
    BY <1>5, <1>8, <1>9, <2>1, <2>2 DEF Core, TypeOK, Kinds
<1>11. (call'[t] # None => Checked(t)') /\ Held(t)
      /\ (call'[t] # None => call'[t].pc = "reporting" /\ call'[t].act = call[t].act)
  BY <1>1, <1>8 DEF Checked, Held, Call
<1>12. Core'
  <2>1. ASSUME NEW s \in Tokens, call'[s] # None
        PROVE  Checked(s)'
    BY <1>5, <1>8, <1>11, <2>1, CheckedKept
  <2> QED
    BY <1>5, <1>10, <2>1 DEF Core
<1>13. Shape
  <2>1. \A s \in Tokens : Held(s)
    BY <1>8, <1>11 DEF Held
  <2>2. CASE log' = log
    BY <2>1, <2>2 DEF Shape, Dropping, Less, AppendEndorsement
  <2>3. CASE log' = Append(log, EntryOf(t))
    <3>1. EntryOf(t).origin = call[t].act.origin /\ EntryOf(t).token = t
      BY DEF EntryOf
    <3>2. Extending
      BY <1>1, <1>3, <1>11, <2>1, <2>3, <3>1 DEF Extending, AppendEndorsement
    <3> QED
      BY <3>2 DEF Shape
  <2> QED
    BY <1>4, <2>2, <2>3
<1> QED
  BY <1>5, <1>9, <1>12, <1>13 DEF Sound, Answered

\* A step that spends or drops tokens and starts at most one handler.
LEMMA SpendingStep ==
    ASSUME Core, Less(table'), table' \in [Tokens -> Pending \cup {None}],
           drawn' = drawn, signer' = signer, UNCHANGED repository, now' = now,
           faults' \in 0..MaxFaults,
           call' \in [Tokens -> Call \cup {None}], answer' \in [Tokens ->
               {None, "created", "refused", "error", "invalid"}],
           \A s \in Tokens : answer'[s] = "created" => answer[s] = "created",
           \A s \in Tokens : call'[s] # None /\ call'[s] # call[s] => Checked(s)',
           Dropping \/ Beginning
    PROVE  Sound
<1>1. Grows /\ log' = log /\ published' = published
  BY Still
<1>2. Bounded(table')
  BY LessBounded DEF Core, TypeOK, Bounded, Slots
<1>3. TypeOK'
  BY <1>1, <1>2 DEF Core, TypeOK, Bounded, Slots, Kinds
<1>4. ASSUME NEW s \in Tokens, call'[s] # None
      PROVE  Checked(s)'
  BY <1>1, <1>4, CheckedKept
<1>5. Core'
  BY <1>1, <1>3, <1>4 DEF Core
<1> QED
  BY <1>1, <1>5 DEF Sound, Shape, Answered

LEMMA CallbackSound ==
    ASSUME Core, NEW t \in Tokens, GithubCallback(t)
    PROVE  Sound
<1>1. /\ table[t] # None /\ table[t] \in Pending /\ table[t].kind = "state" /\ call[t] = None
  BY DEF GithubCallback, Live, Kept, Idle, Core, TypeOK
<1>2. /\ table' \in [Tokens -> Pending \cup {None}] /\ Less(table') /\ table'[t] = None
  <2>1. TypeOK /\ table' = Take(t)
    BY DEF GithubCallback, Core
  <2> QED
    BY <2>1, KeptLess DEF Less
<1>3. faults' \in 0..MaxFaults
  BY FaultsCounted DEF GithubCallback
<1>4. /\ drawn' = drawn /\ signer' = signer /\ UNCHANGED repository /\ now' = now
  BY DEF GithubCallback
<1> DEFINE new == [pc |-> "identifying", act |-> table[t], key |-> None, since |-> 0]
<1>5. CASE call' = [call EXCEPT ![t] = new] /\ answer' = answer
  <2>1. new \in Call
    BY <1>1, BoundsAssumption DEF Call
  <2>2. /\ call' \in [Tokens -> Call \cup {None}] /\ call'[t] = new
        /\ \A s \in Tokens \ {t} : call'[s] = call[s]
    BY <1>5, <2>1 DEF Core, TypeOK
  <2>3. Beginning
    BY <1>1, <1>2, <1>4, <2>2 DEF Beginning, repository
  <2>4. Checked(t)'
    BY <1>1, <2>2 DEF Checked
  <2> QED
    BY <1>2, <1>3, <1>4, <1>5, <2>2, <2>3, <2>4, SpendingStep DEF Core, TypeOK
<1>6. CASE call' = [call EXCEPT ![t] = None] /\ answer' = [answer EXCEPT ![t] = "error"]
  <2>1. /\ call' = call
        /\ answer' \in [Tokens -> {None, "created", "refused", "error", "invalid"}]
        /\ \A s \in Tokens : answer'[s] = "created" => answer[s] = "created"
    BY <1>1, <1>6 DEF Core, TypeOK
  <2>2. Dropping
    BY <1>2, <1>4, <2>1 DEF Dropping, Held, repository
  <2> QED
    BY <1>2, <1>3, <1>4, <2>1, <2>2, SpendingStep DEF Core, TypeOK
<1> QED
  BY <1>5, <1>6 DEF GithubCallback, Start, Answer

LEMMA SubmitSound ==
    ASSUME Core, NEW t \in Tokens, SubmitEndorsement(t)
    PROVE  Sound
<1>1. /\ table[t] # None /\ table[t] \in Pending /\ table[t].kind \in {"nostr", "agent"}
      /\ call[t] = None
  BY DEF SubmitEndorsement, Live, Kept, Idle, Core, TypeOK
<1>2. /\ table' \in [Tokens -> Pending \cup {None}] /\ Less(table') /\ table'[t] = None
  <2>1. TypeOK /\ table' = Take(t)
    BY DEF SubmitEndorsement, Core
  <2> QED
    BY <2>1, KeptLess DEF Less
<1>3. faults' \in 0..MaxFaults
  BY FaultsCounted DEF SubmitEndorsement
<1>4. /\ drawn' = drawn /\ signer' = signer /\ UNCHANGED repository /\ now' = now
  BY DEF SubmitEndorsement
<1> DEFINE new == [pc |-> "appending", act |-> table[t], key |-> table[t].by, since |-> 0]
<1>5. CASE call' = [call EXCEPT ![t] = new] /\ answer' = answer
  <2>1. new \in Call /\ table[t].by \in Actors
    BY <1>1, BoundsAssumption DEF Call, Pending
  <2>2. /\ call' \in [Tokens -> Call \cup {None}] /\ call'[t] = new
        /\ \A s \in Tokens \ {t} : call'[s] = call[s]
    BY <1>5, <2>1 DEF Core, TypeOK
  <2>3. Beginning
    BY <1>1, <1>2, <1>4, <2>2 DEF Beginning, repository
  <2>4. published' \in Nat
    BY <1>4 DEF Core, TypeOK, repository
  <2>5. Checked(t)'
    BY <1>1, <2>1, <2>2, <2>4 DEF Checked, Github
  <2> QED
    BY <1>2, <1>3, <1>4, <1>5, <2>2, <2>3, <2>5, SpendingStep DEF Core, TypeOK
<1>6. CASE call' = [call EXCEPT ![t] = None] /\ answer' = [answer EXCEPT ![t] = "error"]
  <2>1. /\ call' = call
        /\ answer' \in [Tokens -> {None, "created", "refused", "error", "invalid"}]
        /\ \A s \in Tokens : answer'[s] = "created" => answer[s] = "created"
    BY <1>1, <1>6 DEF Core, TypeOK
  <2>2. Dropping
    BY <1>2, <1>4, <2>1 DEF Dropping, Held, repository
  <2> QED
    BY <1>2, <1>3, <1>4, <2>1, <2>2, SpendingStep DEF Core, TypeOK
<1> QED
  BY <1>5, <1>6 DEF SubmitEndorsement, Start, Answer

\* A step that draws a token.
LEMMA IssuingStep ==
    ASSUME Core, NEW base \in [Tokens -> Pending \cup {None}], Less(base),
           \A t \in Tokens : base[t] # None => base[t] = Kept[t],
           NEW kind \in {"proof", "state", "nostr", "agent"}, Room(kind),
           NEW by \in Actors, NEW subject \in Actors, NEW origin \in Tokens \cup {None},
           \/ origin = None
           \/ \E t \in Tokens : table[t] # None /\ base[t] = None /\ origin = table[t].origin
                                /\ t <= drawn,
           Store(base, kind, by, subject, origin),
           UNCHANGED <<call, answer, signer, repository, now, faults>>
    PROVE  Sound
<1>1. Grows /\ log' = log /\ published' = published
  BY Still
<1>2. /\ drawn' = drawn + 1 /\ drawn' \in Tokens /\ drawn' \in 0..MaxTokens /\ drawn \in Nat
      /\ now + TTL \in Nat
  <2>1. /\ drawn \in 0..MaxTokens /\ now \in 0..MaxTime
        /\ MaxTokens \in Nat /\ MaxTime \in Nat /\ TTL \in Nat
    BY BoundsAssumption DEF Core, TypeOK
  <2>2. drawn < MaxTokens /\ drawn' = drawn + 1
    BY DEF Store
  <2> QED
    BY <2>1, <2>2 DEF Tokens
<1> DEFINE new == [kind |-> kind, by |-> by, subject |-> subject,
                   origin |-> IF origin = None THEN drawn' ELSE origin, expires |-> now + TTL]
<1>3. new \in Pending
  BY <1>2 DEF Pending
<1>4. table' = [base EXCEPT ![drawn'] = new]
  BY DEF Store
<1>5. /\ table' \in [Tokens -> Pending \cup {None}] /\ table'[drawn'] = new
      /\ \A s \in Tokens \ {drawn'} : table'[s] = base[s]
  BY <1>2, <1>3, <1>4
<1>6. Bounded(table')
  BY StoreBounded DEF Core
<1>7. TypeOK'
  BY <1>1, <1>2, <1>5, <1>6 DEF Core, TypeOK, Bounded, Slots, Kinds
<1>8. Core'
  <2>1. ASSUME NEW s \in Tokens, call'[s] # None
        PROVE  Checked(s)'
    BY <1>1, <2>1, CheckedKept
  <2> QED
    BY <1>1, <1>7, <2>1 DEF Core
<1>9. Issuing
  <2>1. \A s \in Tokens \ {drawn'} : table'[s] \in {table[s], None}
    BY <1>5 DEF Less
  <2>2. \/ new.origin = drawn'
        \/ \E t \in Tokens \ {drawn'} : table[t] # None /\ table'[t] = None
                                        /\ new.origin = table[t].origin
    <3>1. CASE origin = None
      BY <3>1
    <3>2. ASSUME NEW t \in Tokens, table[t] # None, base[t] = None, origin = table[t].origin,
                 t <= drawn
          PROVE  \/ new.origin = drawn'
                 \/ \E s \in Tokens \ {drawn'} : table[s] # None /\ table'[s] = None
                                                 /\ new.origin = table[s].origin
      <4>1. t # drawn' /\ table'[t] = None
        BY <1>2, <1>5, <3>2 DEF Tokens
      <4>2. CASE origin = None
        BY <4>2
      <4>3. CASE origin # None
        BY <3>2, <4>1, <4>3
      <4> QED
        BY <4>2, <4>3
    <3> QED
      BY <3>1, <3>2
  <2> QED
    BY <1>1, <1>2, <1>5, <2>1, <2>2 DEF Issuing
<1> QED
  BY <1>1, <1>8, <1>9 DEF Sound, Shape, Answered

LEMMA ChallengeSound ==
    ASSUME Core, NEW a \in Actors, GithubChallenge(a)
    PROVE  Sound
<1>1. Kept \in [Tokens -> Pending \cup {None}] /\ Less(Kept)
  BY KeptLess DEF Core
<1> QED
  BY <1>1, IssuingStep DEF GithubChallenge

LEMMA PrepareSound ==
    ASSUME Core, NEW a \in Actors, NEW b \in Actors, NEW kind \in {"nostr", "agent"},
           PrepareEndorsement(a, kind, b)
    PROVE  Sound
<1>1. Kept \in [Tokens -> Pending \cup {None}] /\ Less(Kept)
  BY KeptLess DEF Core
<1>2. Store(Kept, kind, a, b, None) /\ Room(kind)
      /\ UNCHANGED <<call, answer, signer, repository, now, faults>>
  BY DEF PrepareEndorsement
<1> QED
  BY <1>1, <1>2, IssuingStep

LEMMA StartSound ==
    ASSUME Core, Issued, NEW t \in Tokens, GithubStart(t)
    PROVE  Sound
<1>1. table[t] # None /\ table[t] \in Pending
  BY DEF GithubStart, Live, Kept, Core, TypeOK
<1>2. /\ Take(t) \in [Tokens -> Pending \cup {None}] /\ Less(Take(t)) /\ Take(t)[t] = None
      /\ \A s \in Tokens : Take(t)[s] # None => Take(t)[s] = Kept[s]
  <2>1. TypeOK
    BY DEF Core
  <2>2. \A s \in Tokens : Take(t)[s] # None => Take(t)[s] = Kept[s]
    BY <2>1, KeptLess DEF Take
  <2> QED
    BY <2>1, <2>2, KeptLess
<1>3. /\ signer' = signer /\ UNCHANGED repository /\ now' = now /\ call' = call /\ answer' = answer
  BY DEF GithubStart
<1>4. CASE /\ Room("state")
           /\ Store(Take(t), "state", table[t].by, table[t].subject, table[t].origin)
           /\ NoFault
  <2>1. table[t].by \in Actors /\ table[t].subject \in Actors /\ table[t].origin \in Tokens
    BY <1>1 DEF Pending
  <2>2. t <= drawn
    BY <1>1 DEF Issued
  <2>3. UNCHANGED <<call, answer, signer, repository, now, faults>>
    BY <1>3, <1>4 DEF NoFault
  <2>4. \E s \in Tokens : table[s] # None /\ Take(t)[s] = None /\ table[t].origin = table[s].origin
                          /\ s <= drawn
    BY <1>1, <1>2, <2>2
  <2> QED
    BY <1>2, <1>4, <2>1, <2>3, <2>4, IssuingStep
<1>5. CASE table' = Take(t) /\ drawn' = drawn /\ faults' \in 0..MaxFaults
  <2>1. Dropping
    BY <1>2, <1>3, <1>5 DEF Dropping, Held, repository
  <2> QED
    BY <1>2, <1>3, <1>5, <2>1, SpendingStep DEF Core, TypeOK
<1>6. faults' \in 0..MaxFaults
  BY FaultsCounted DEF GithubStart
<1> QED
  BY <1>4, <1>5, <1>6 DEF GithubStart

LEMMA OtherWriterSound ==
    ASSUME Core, OtherWriter
    PROVE  Sound
<1>1. log \in Seq(Entry) /\ Len(log) \in Nat /\ published \in 0..Len(log) /\ Len(log) <= MaxRecords
  BY DEF Core, TypeOK
<1>2. \/ log' = log
      \/ \E e \in Entry : /\ log' = Append(log, e) /\ Len(log) < MaxRecords
                          /\ e.kind # "github" /\ e.origin = None /\ e.token = None
  <2>1. ASSUME NEW kind \in {"witness", "revoke"}, NEW by \in Actors \cup Witnesses,
               log' = Append(log, Record(kind, by)), Len(log) < MaxRecords
        PROVE  \E e \in Entry : /\ log' = Append(log, e) /\ Len(log) < MaxRecords
                                /\ e.kind # "github" /\ e.origin = None /\ e.token = None
    <3>1. Record(kind, by) \in Entry /\ Record(kind, by).kind = kind
          /\ Record(kind, by).origin = None /\ Record(kind, by).token = None
      BY BoundsAssumption DEF Record, Entry
    <3> QED
      BY <2>1, <3>1
  <2> QED
    BY <2>1 DEF OtherWriter
<1>3. published' = Len(log') /\ UNCHANGED <<table, drawn, call, answer, signer, now, faults>>
  BY DEF OtherWriter
<1>4. /\ log' \in Seq(Entry) /\ Len(log') <= MaxRecords /\ Len(log') \in Nat
      /\ Len(log) <= Len(log')
  <2>1. CASE log' = log
    BY <1>1, <2>1
  <2>2. ASSUME NEW e \in Entry, log' = Append(log, e), Len(log) < MaxRecords
        PROVE  /\ log' \in Seq(Entry) /\ Len(log') <= MaxRecords /\ Len(log') \in Nat
               /\ Len(log) <= Len(log')
    <3>1. log' \in Seq(Entry) /\ Len(log') = Len(log) + 1
      BY <1>1, <2>2
    <3> QED
      BY <1>1, <2>2, <3>1, BoundsAssumption
  <2> QED
    BY <1>2, <2>1, <2>2
<1>5. Grows
  BY <1>1, <1>2, <1>3, <1>4 DEF Grows
<1>6. TypeOK'
  BY <1>3, <1>4 DEF Core, TypeOK, Kinds
<1>7. Core'
  <2>1. ASSUME NEW s \in Tokens, call'[s] # None
        PROVE  Checked(s)'
    BY <1>3, <1>5, <2>1, CheckedKept
  <2> QED
    BY <1>4, <1>6, <2>1 DEF Core
<1>8. Shape
  <2>1. CASE log' = log
    BY <1>3, <2>1 DEF Shape, Dropping, Less, Held
  <2>2. CASE \E e \in Entry : log' = Append(log, e) /\ e.origin = None /\ e.token = None
    BY <1>3, <2>2 DEF Shape, Extending, Held
  <2> QED
    BY <1>2, <2>1, <2>2
<1> QED
  BY <1>3, <1>5, <1>7, <1>8 DEF Sound, Answered

LEMMA RestSound ==
    ASSUME Core, RotateSigner \/ Restart \/ Tick
    PROVE  Sound
<1>1. Grows /\ log' = log /\ published' = published
  BY Still DEF RotateSigner, Restart, Tick
<1>2. /\ drawn' = drawn /\ answer' = answer /\ signer' \in Witnesses
      /\ now' \in 0..MaxTime /\ faults' \in 0..MaxFaults
  <2>1. /\ signer \in Witnesses /\ now \in 0..MaxTime /\ faults \in 0..MaxFaults /\ MaxTime \in Nat
    BY BoundsAssumption DEF Core, TypeOK
  <2>2. CASE RotateSigner
    BY <2>1, <2>2, FaultsCounted DEF RotateSigner
  <2>3. CASE Restart
    BY <2>1, <2>3, FaultsCounted DEF Restart
  <2>4. CASE Tick
    BY <2>1, <2>4 DEF Tick
  <2> QED
    BY <2>2, <2>3, <2>4
<1>3. /\ Less(table') /\ table' \in [Tokens -> Pending \cup {None}]
      /\ \A s \in Tokens : call'[s] \in {call[s], None}
      /\ call' \in [Tokens -> Call \cup {None}]
  BY DEF RotateSigner, Restart, Tick, Less, Core, TypeOK
<1>4. Bounded(table')
  BY <1>3, LessBounded DEF Core, TypeOK, Bounded, Slots
<1>5. TypeOK'
  BY <1>1, <1>2, <1>3, <1>4 DEF Core, TypeOK, Bounded, Slots, Kinds
<1>6. Core'
  <2>1. ASSUME NEW s \in Tokens, call'[s] # None
        PROVE  Checked(s)'
    BY <1>1, <1>3, <2>1, CheckedKept
  <2> QED
    BY <1>1, <1>5, <2>1 DEF Core
<1>7. Dropping
  BY <1>1, <1>2, <1>3 DEF Dropping, Held
<1> QED
  BY <1>1, <1>2, <1>6, <1>7 DEF Sound, Shape, Answered

-----------------------------------------------------------------------------
(* The theorems.                                                           *)

LEMMA InitInv == Init => IInv
<1> SUFFICES ASSUME Init PROVE IInv
  OBVIOUS
<1>1. Bounded(table)
  <2>1. \A kind \in {"proof", "state", "nostr"} : Slots(table, kind) = {}
    BY DEF Init, Slots
  <2> QED
    BY <2>1, FS_EmptySet, BoundsAssumption DEF Bounded
<1>2. TypeOK
  <2>1. log \in Seq(Entry) /\ published \in 0..Len(log)
    BY DEF Init
  <2> QED
    BY <1>1, <2>1, BoundsAssumption DEF Init, TypeOK, Bounded, Slots, Kinds
<1>3. Core
  BY <1>2, BoundsAssumption DEF Init, Core
<1>4. Len(log) = 0
  BY DEF Init
<1>5. Origins
  BY <1>4 DEF Init, Origins, Issued, Separate, OneAnchorPerProof
<1>6. WitnessRechecked
  BY <1>4 DEF WitnessRechecked
<1>7. CreatedHasForce
  <2>1. \A t \in Tokens : answer[t] # "created"
    <3>1. \A t \in Tokens : answer[t] = None
      BY DEF Init
    <3> QED
      BY <3>1, NoneAssumption
  <2> QED
    BY <2>1 DEF CreatedHasForce
<1> QED
  BY <1>3, <1>5, <1>6, <1>7 DEF IInv

LEMMA NextSound ==
    ASSUME Core, Issued, Next
    PROVE  Sound
<1>1. ASSUME NEW a \in Actors, GithubChallenge(a)
      PROVE  Sound
  BY <1>1, ChallengeSound
<1>2. ASSUME NEW a \in Actors, NEW b \in Actors, NEW kind \in {"nostr", "agent"},
             PrepareEndorsement(a, kind, b)
      PROVE  Sound
  BY <1>2, PrepareSound
<1>3. ASSUME NEW t \in Tokens, Accept(t)
      PROVE  Sound
  BY <1>3, StartSound, CallbackSound, SubmitSound DEF Accept
<1>4. ASSUME NEW t \in Tokens, Handle(t)
      PROVE  Sound
  BY <1>4, IdentifySound, SignSound, CheckSound, AppendSound, ReportSound DEF Handle
<1>5. CASE OtherWriter
  BY <1>5, OtherWriterSound
<1>6. CASE RotateSigner \/ Restart \/ Tick
  BY <1>6, RestSound
<1> QED
  BY <1>1, <1>2, <1>3, <1>4, <1>5, <1>6 DEF Next

LEMMA StepInv == IInv /\ [Next]_vars => IInv'
<1> SUFFICES ASSUME IInv, [Next]_vars PROVE IInv'
  OBVIOUS
<1>1. CASE Next
  <2>1. Core /\ Origins /\ TypeOK /\ Issued
    BY DEF IInv, Core, Origins
  <2>2. Sound
    BY <1>1, <2>1, NextSound
  <2>3. Origins'
    BY <2>1, <2>2, DroppingOrigins, IssuingOrigins, BeginningOrigins, ExtendingOrigins
    DEF Sound, Shape
  <2>4. WitnessRechecked' /\ CreatedHasForce'
    BY <2>2, WitnessKept, CreatedKept DEF IInv, Sound
  <2> QED
    BY <2>2, <2>3, <2>4 DEF IInv, Sound
<1>2. CASE UNCHANGED vars
  <2>1. UNCHANGED <<table, drawn, call, answer, signer, log, published, now, faults>>
    BY <1>2 DEF vars
  <2>2. Core'
    BY <2>1 DEF IInv, Core, TypeOK, Checked, Github, Kinds
  <2>3. Origins'
    BY <2>1 DEF IInv, Origins, Issued, Separate, OneAnchorPerProof
  <2>4. WitnessRechecked' /\ CreatedHasForce'
    BY <2>1 DEF IInv, WitnessRechecked, CreatedHasForce
  <2> QED
    BY <2>2, <2>3, <2>4 DEF IInv
<1> QED
  BY <1>1, <1>2

LEMMA Invariant == Spec => []IInv
BY InitInv, StepInv, PTL DEF Spec

\* Tables, handlers and records keep their types, and each table its bound
\* (storeState and storeDraft count before they store).
THEOREM TypeCorrect == Spec => []TypeOK
<1>1. IInv => TypeOK
  BY DEF IInv, Core
<1> QED
  BY <1>1, Invariant, PTL

\* A proof of possession leads to at most one anchor in the log, whatever is
\* repeated, restarted or lost (takeState and takeDraft remove what they find).
THEOREM OneAnchorPerProofHolds == Spec => []OneAnchorPerProof
<1>1. IInv => OneAnchorPerProof
  BY DEF IInv, Origins
<1> QED
  BY <1>1, Invariant, PTL

\* The signer of a recorded anchor was the declared witness after it signed
\* (githubCallback reads the witness again).
THEOREM WitnessRecheckedHolds == Spec => []WitnessRechecked
<1>1. IInv => WitnessRechecked
  BY DEF IInv
<1> QED
  BY <1>1, Invariant, PTL

\* An anchor that was reported as created has force, then and ever after
\* (IdentityOutcome of the confirmed view).
THEOREM CreatedHasForceHolds == Spec => []CreatedHasForce
<1>1. IInv => CreatedHasForce
  BY DEF IInv
<1> QED
  BY <1>1, Invariant, PTL

-----------------------------------------------------------------------------
(* The refinement.                                                         *)

\* A token has at most one record, and none before its handler is through.
Spent ==
    /\ \A n \in 1..Len(log) : log[n].token # None => log[n].token <= drawn
    /\ \A t \in Tokens : call[t] # None => table[t] = None /\ t <= drawn /\ answer[t] # "created"
    /\ \A t \in Tokens : table[t] # None => ~Recorded(log, t)
    /\ \A t \in Tokens : call[t] # None /\ call[t].pc # "reporting" => ~Recorded(log, t)
    /\ \A m, n \in 1..Len(log) :
          log[m].token = log[n].token /\ log[m].token # None => m = n

\* Only a handler that ends answers.
Replying ==
    \A t \in Tokens :
        \/ answer'[t] = answer[t]
        \/ call'[t] = None /\ (call[t] # None \/ table[t] # None)

\* Records are taken in behind published ones only, and may be published at once.
InOrder ==
    /\ published' \in {published, Len(log')}
    /\ log' = log \/ published = Len(log)

\* No handler answers that an anchor was created, or the one of t does.
Told ==
    \/ \A t \in Tokens : answer'[t] = "created" => answer[t] = "created"
    \/ /\ UNCHANGED repository
       /\ \E t \in Tokens :
             /\ answer' = [answer EXCEPT ![t] = "created"]
             /\ \E n \in 1..published : log[n].token = t

LEMMA AnswerReplies ==
    ASSUME Core, NEW t \in Tokens, call[t] # None \/ table[t] # None,
           NEW what, what # "created", Answer(t, what)
    PROVE  Replying /\ Told
<1>1. /\ call' = [call EXCEPT ![t] = None] /\ answer' = [answer EXCEPT ![t] = what]
      /\ call \in [Tokens -> Call \cup {None}] /\ DOMAIN answer = Tokens
  BY DEF Answer, Core, TypeOK
<1>2. call'[t] = None /\ answer'[t] = what /\ \A u \in Tokens \ {t} : answer'[u] = answer[u]
  BY <1>1
<1> QED
  BY <1>2 DEF Replying, Told

LEMMA ReplyStep ==
    ASSUME Core, [Next]_vars
    PROVE  InOrder /\ Replying /\ Told
<1>1. /\ published \in Nat /\ Len(log) \in Nat /\ published <= Len(log)
  BY DEF Core, TypeOK
<1>2. ASSUME UNCHANGED repository
      PROVE  InOrder
  BY <1>2 DEF InOrder, repository
<1>3. ASSUME UNCHANGED answer
      PROVE  Replying /\ Told
  BY <1>3 DEF Replying, Told
<1>4. ASSUME NEW a \in Actors, GithubChallenge(a)
      PROVE  InOrder /\ Replying /\ Told
  BY <1>2, <1>3, <1>4 DEF GithubChallenge
<1>5. ASSUME NEW a \in Actors, NEW b \in Actors, NEW kind \in {"nostr", "agent"},
             PrepareEndorsement(a, kind, b)
      PROVE  InOrder /\ Replying /\ Told
  BY <1>2, <1>3, <1>5 DEF PrepareEndorsement
<1>6. ASSUME NEW t \in Tokens, Accept(t)
      PROVE  InOrder /\ Replying /\ Told
  <2>1. CASE GithubStart(t)
    BY <1>2, <1>3, <2>1 DEF GithubStart
  <2>2. CASE GithubCallback(t) \/ SubmitEndorsement(t)
    <3>1. table[t] # None /\ UNCHANGED repository
      BY <2>2 DEF GithubCallback, SubmitEndorsement, Live, Kept
    <3>2. UNCHANGED answer \/ Answer(t, "error")
      BY <2>2 DEF GithubCallback, SubmitEndorsement
    <3> QED
      BY <1>2, <1>3, <3>1, <3>2, AnswerReplies
  <2> QED
    BY <1>6, <2>1, <2>2 DEF Accept
<1>7. ASSUME NEW t \in Tokens, Identify(t) \/ Sign(t) \/ CheckWitness(t)
      PROVE  InOrder /\ Replying /\ Told
  <2>1. call[t] # None /\ UNCHANGED repository
    BY <1>7 DEF Identify, Sign, CheckWitness, At
  <2>2. UNCHANGED answer \/ Answer(t, "error")
    BY <1>7 DEF Identify, Sign, CheckWitness
  <2> QED
    BY <1>2, <1>3, <2>1, <2>2, AnswerReplies
<1>8. ASSUME NEW t \in Tokens, AppendEndorsement(t)
      PROVE  InOrder /\ Replying /\ Told
  <2>1. call[t] # None
    BY <1>8 DEF AppendEndorsement, At
  <2>2. UNCHANGED answer \/ Answer(t, "error") \/ Answer(t, "invalid")
    BY <1>8 DEF AppendEndorsement, AppendFailed
  <2>3. \/ log' = log /\ published' \in {published, Len(log)}
        \/ ~Undelivered /\ published' \in {published, Len(log')}
    BY <1>8 DEF AppendEndorsement, repository
  <2>4. InOrder
    BY <1>1, <2>3 DEF InOrder, Undelivered
  <2> QED
    BY <1>3, <2>1, <2>2, <2>4, AnswerReplies
<1>9. ASSUME NEW t \in Tokens, Report(t)
      PROVE  InOrder /\ Replying /\ Told
  <2>1. call[t] # None /\ UNCHANGED repository
    BY <1>9 DEF Report, At
  <2>2. \/ Answer(t, "error") \/ Answer(t, "refused")
        \/ Answer(t, "created") /\ \E n \in 1..published : log[n].token = t
    BY <1>9 DEF Report, IdentityOutcome
  <2>3. CASE Answer(t, "created") /\ \E n \in 1..published : log[n].token = t
    <3>1. /\ call' = [call EXCEPT ![t] = None] /\ answer' = [answer EXCEPT ![t] = "created"]
          /\ call \in [Tokens -> Call \cup {None}] /\ DOMAIN answer = Tokens
      BY <2>3 DEF Answer, Core, TypeOK
    <3>2. call'[t] = None /\ \A u \in Tokens \ {t} : answer'[u] = answer[u]
      BY <3>1
    <3>3. Replying
      BY <2>1, <3>2 DEF Replying
    <3> QED
      BY <1>2, <2>1, <2>3, <3>1, <3>3 DEF Told
  <2> QED
    BY <1>2, <2>1, <2>2, <2>3, AnswerReplies
<1>10. CASE OtherWriter
  <2>1. /\ ~Undelivered \/ log' = log
        /\ published' = Len(log') /\ UNCHANGED answer
    BY <1>10 DEF OtherWriter
  <2> QED
    BY <1>1, <1>3, <2>1 DEF InOrder, Undelivered
<1>11. CASE RotateSigner \/ Restart \/ Tick \/ UNCHANGED vars
  BY <1>2, <1>3, <1>11 DEF RotateSigner, Restart, Tick, vars, repository
<1> QED
  BY <1>4, <1>5, <1>6, <1>7, <1>8, <1>9, <1>10, <1>11 DEF Next, Handle

\* Nobody was told of a record that is not there.
LEMMA UnrecordedUntold ==
    ASSUME TypeOK, CreatedHasForce, NEW t \in Tokens, ~Recorded(log, t)
    PROVE  answer[t] # "created"
<1>1. published \in Nat /\ Len(log) \in Nat /\ published <= Len(log)
  BY DEF TypeOK
<1> QED
  BY <1>1 DEF CreatedHasForce, Recorded

LEMMA SpentStep ==
    ASSUME IInv, Spent, Shape, Replying
    PROVE  Spent'
<1>1. /\ drawn \in Nat /\ log \in Seq(Entry) /\ Len(log) \in Nat
      /\ \A t \in Tokens : t \in Nat
      /\ \A n \in 1..Len(log) : log[n].token \in Tokens \cup {None}
  <2>1. /\ drawn \in 0..MaxTokens /\ log \in Seq(Entry)
    BY DEF IInv, Core, TypeOK
  <2>2. \A n \in 1..Len(log) : log[n] \in Entry
    BY <2>1
  <2> QED
    BY <2>1, <2>2 DEF Tokens, Entry
<1>2. \A t \in Tokens : table[t] # None => t <= drawn /\ ~Recorded(log, t) /\ answer[t] # "created"
  BY UnrecordedUntold DEF IInv, Core, Origins, Issued, Spent
<1>3. \A t \in Tokens : call'[t] # None => answer'[t] = answer[t]
  BY DEF Replying
<1>4. CASE log' = log /\ drawn' = drawn /\ Less(table')
  <2>1. ASSUME NEW t \in Tokens, call'[t] # None
        PROVE  /\ table'[t] = None /\ t <= drawn /\ answer[t] # "created"
               /\ call'[t].pc # "reporting" => ~Recorded(log, t)
    <3>1. CASE Held(t)
      BY <1>4, <2>1, <3>1 DEF Held, Spent, Less
    <3>2. CASE call'[t] = call[t]
      BY <1>4, <2>1, <3>2 DEF Spent, Less
    <3>3. CASE table[t] # None /\ table'[t] = None
      BY <1>2, <3>3
    <3>4. Held(t) \/ call'[t] = call[t] \/ (table[t] # None /\ table'[t] = None)
      <4>1. CASE Dropping
        BY <4>1 DEF Dropping
      <4>2. CASE Beginning
        BY <4>2 DEF Beginning
      <4>3. CASE Issuing
        BY <4>3 DEF Issuing
      <4>4. CASE Extending
        BY <4>4 DEF Extending
      <4> QED
        BY <4>1, <4>2, <4>3, <4>4 DEF Shape
    <3> QED
      BY <3>1, <3>2, <3>3, <3>4
  <2>2. \A t \in Tokens : table'[t] # None => ~Recorded(log, t)
    BY <1>2, <1>4 DEF Less
  <2> QED
    BY <1>3, <1>4, <2>1, <2>2 DEF Spent
<1>5. CASE Issuing
  <2>1. /\ drawn' = drawn + 1 /\ drawn' \in Tokens /\ call' = call /\ log' = log
        /\ \A t \in Tokens \ {drawn'} : table'[t] \in {table[t], None}
    BY <1>5 DEF Issuing
  <2>2. \A n \in 1..Len(log) : log[n].token # drawn'
    BY <1>1, <2>1, NoneAssumption DEF Spent
  <2>3. \A t \in Tokens : table'[t] # None => ~Recorded(log, t)
    BY <1>2, <2>1, <2>2 DEF Recorded
  <2>4. \A n \in 1..Len(log) : log[n].token # None => log[n].token <= drawn'
    <3>1. \A n \in 1..Len(log) : log[n].token # None => log[n].token \in Nat
      BY <1>1
    <3> QED
      BY <1>1, <2>1, <3>1 DEF Spent
  <2>5. \A t \in Tokens : call[t] # None =>
           table'[t] = None /\ t <= drawn' /\ answer'[t] # "created"
    <3>1. ASSUME NEW t \in Tokens, call[t] # None
          PROVE  t \in Nat /\ t <= drawn /\ table[t] = None /\ answer[t] # "created"
      BY <1>1, <3>1 DEF Spent
    <3>2. ASSUME NEW t \in Tokens, call[t] # None
          PROVE  table'[t] = None /\ t <= drawn' /\ answer'[t] # "created"
      <4>1. t \in Nat /\ t <= drawn /\ table[t] = None /\ answer[t] # "created"
        BY <3>1, <3>2
      <4>2. drawn \in Nat /\ drawn' = drawn + 1
        BY <1>1, <2>1
      <4>3. t # drawn' /\ t <= drawn'
        BY <4>1, <4>2
      <4>4. table'[t] = None
        BY <2>1, <3>2, <4>1, <4>3
      <4>5. answer'[t] = answer[t]
        BY <1>3, <2>1, <3>2
      <4> QED
        BY <4>1, <4>3, <4>4, <4>5
    <3> QED
      BY <3>2
  <2> QED
    BY <2>1, <2>3, <2>4, <2>5 DEF Spent
<1>6. CASE Extending
  <2>1. PICK e \in Entry :
           /\ log' = Append(log, e)
           /\ \/ e.token = None
              \/ \E t \in Tokens : /\ call[t] # None /\ call[t].pc # "reporting" /\ e.token = t
                                   /\ call'[t] = None \/ call'[t].pc = "reporting"
    BY <1>6 DEF Extending
  <2>2. /\ Len(log') = Len(log) + 1 /\ log'[Len(log) + 1] = e
        /\ \A n \in 1..Len(log) : log'[n] = log[n]
        /\ \A n \in 1..Len(log') : n \in 1..Len(log) \/ n = Len(log) + 1
    BY <1>1, <2>1
  <2>3. table' = table /\ drawn' = drawn /\ \A t \in Tokens : Held(t)
    BY <1>6 DEF Extending
  <2>4. /\ e.token # None => e.token <= drawn /\ e.token \in Tokens /\ ~Recorded(log, e.token)
        /\ \A t \in Tokens : table[t] # None => e.token # t
        /\ \A t \in Tokens : call'[t] # None /\ call'[t].pc # "reporting" => e.token # t
    <3>1. CASE e.token = None
      BY <3>1, NoneAssumption, <1>1
    <3>2. ASSUME NEW t \in Tokens, call[t] # None, call[t].pc # "reporting", e.token = t,
                 call'[t] = None \/ call'[t].pc = "reporting"
          PROVE  <2>4!1 /\ <2>4!2 /\ <2>4!3
      <4>1. t <= drawn /\ ~Recorded(log, t)
        BY <3>2 DEF Spent
      <4>2. table[t] = None
        BY <3>2 DEF Spent
      <4> QED
        BY <3>2, <4>1, <4>2
    <3> QED
      BY <2>1, <3>1, <3>2
  <2>5. ASSUME NEW t \in Tokens, ~Recorded(log, t), e.token # t
        PROVE  ~Recorded(log', t)
    BY <2>2, <2>5 DEF Recorded
  <2>6. \A n \in 1..Len(log') : log'[n].token # None => log'[n].token <= drawn
    BY <2>2, <2>4 DEF Spent
  <2>7. \A t \in Tokens : call'[t] # None =>
           /\ call[t] # None
           /\ call'[t].pc # "reporting" => call[t].pc # "reporting"
    BY <2>3 DEF Held
  <2>8. \A m, n \in 1..Len(log') :
           log'[m].token = log'[n].token /\ log'[m].token # None => m = n
    BY <2>2, <2>4 DEF Spent, Recorded
  <2> QED
    BY <1>3, <2>3, <2>4, <2>5, <2>6, <2>7, <2>8 DEF Spent
<1> QED
  BY <1>4, <1>5, <1>6 DEF Shape, Dropping, Beginning

LEMMA PrefixType ==
    ASSUME NEW s \in Seq(Entry), NEW n \in Nat, n <= Len(s)
    PROVE  /\ SubSeq(s, 1, n) \in Seq(Entry) /\ Len(SubSeq(s, 1, n)) = n
           /\ \A i \in 1..n : SubSeq(s, 1, n)[i] = s[i]
<1>1. \A i \in 1..n : s[i] \in Entry
  OBVIOUS
<1>2. /\ SubSeq(s, 1, n) \in Seq(Entry)
      /\ Len(SubSeq(s, 1, n)) = IF 1 <= n THEN n - 1 + 1 ELSE 0
      /\ \A i \in 1..(n - 1 + 1) : SubSeq(s, 1, n)[i] = s[1 + i - 1]
  BY <1>1, SubSeqProperties
<1> QED
  BY <1>2

\* What is published of a log that grew: all of it, or what was published before.
LEMMA ViewMoves ==
    ASSUME NEW s \in Seq(Entry), NEW t \in Seq(Entry), NEW m \in Nat, NEW n \in Nat,
           m <= Len(s), n \in {m, Len(t)}, n <= Len(t), Promise!Ancestor(s, t)
    PROVE  /\ SubSeq(t, 1, n) \in Seq(Entry)
           /\ SubSeq(t, 1, n) \in {SubSeq(s, 1, m), t}
           /\ Promise!Ancestor(SubSeq(t, 1, n), t)
           /\ m = Len(s) => SubSeq(s, 1, m) = s
           /\ m <= n => Promise!Ancestor(SubSeq(s, 1, m), SubSeq(t, 1, n))
<1> DEFINE v == SubSeq(s, 1, m)
           w == SubSeq(t, 1, n)
<1>1. v \in Seq(Entry) /\ Len(v) = m /\ \A i \in 1..m : v[i] = s[i]
  BY PrefixType
<1>2. w \in Seq(Entry) /\ Len(w) = n /\ \A i \in 1..n : w[i] = t[i]
  BY PrefixType
<1>3. /\ Len(s) \in Nat /\ Len(t) \in Nat /\ Len(s) <= Len(t)
      /\ \A i \in 1..Len(s) : s[i] = t[i]
  BY DEF Promise!Ancestor
<1> HIDE DEF v, w
<1>4. m = Len(s) => v = s
  BY <1>1, SeqEqual
<1>5. n = Len(t) => w = t
  BY <1>2, SeqEqual
<1>6. n = m => w = v
  <2>1. ASSUME n = m
        PROVE  \A i \in 1..m : w[i] = v[i]
    BY <1>1, <1>2, <1>3, <2>1
  <2> QED
    BY <1>1, <1>2, <2>1, SeqEqual
<1>7. Promise!Ancestor(w, t)
  BY <1>2 DEF Promise!Ancestor
<1>8. m <= n => Promise!Ancestor(v, w)
  <2>1. ASSUME m <= n, NEW i \in 1..m
        PROVE  v[i] = w[i]
    <3>1. i \in 1..n /\ i \in 1..Len(s)
      BY <1>3, <2>1
    <3> QED
      BY <1>1, <1>2, <1>3, <3>1
  <2> QED
    BY <1>1, <1>2, <2>1 DEF Promise!Ancestor
<1> QED
  BY <1>2, <1>4, <1>5, <1>6, <1>7, <1>8 DEF v, w

\* Answers that an anchor was created are never taken back.
LEMMA AnswersKept ==
    ASSUME IInv, Spent, Replying, NEW t \in Tokens, answer[t] = "created"
    PROVE  answer'[t] = "created"
<1>1. call[t] = None
  BY DEF Spent
<1>2. table[t] = None
  BY UnrecordedUntold DEF IInv, Core, Spent
<1> QED
  BY <1>1, <1>2 DEF Replying

\* A step that tells nobody of an anchor leaves the reported records alone.
LEMMA NothingTold ==
    ASSUME IInv, Spent, Shape, Replying,
           \A t \in Tokens : answer'[t] = "created" => answer[t] = "created"
    PROVE  Created' = Created
<1>1. /\ log \in Seq(Entry) /\ Len(log) \in Nat
      /\ \A n \in 1..Len(log) : log[n].token \in Tokens \cup {None}
  <2>1. log \in Seq(Entry)
    BY DEF IInv, Core, TypeOK
  <2>2. \A n \in 1..Len(log) : log[n] \in Entry
    BY <2>1
  <2> QED
    BY <2>1, <2>2 DEF Entry
<1>2. \A t \in Tokens : answer'[t] = "created" <=> answer[t] = "created"
  BY AnswersKept
<1>3. CASE log' = log
  <2>1. \A m \in 1..Len(log) :
           log[m].token # None =>
               (answer'[log[m].token] = "created" <=> answer[log[m].token] = "created")
    BY <1>1, <1>2
  <2> QED
    BY <1>3, <2>1 DEF Created
<1>4. CASE Extending
  <2>1. PICK e \in Entry :
           /\ log' = Append(log, e)
           /\ \/ e.token = None
              \/ \E t \in Tokens : call[t] # None /\ e.token = t
    BY <1>4 DEF Extending
  <2>2. /\ Len(log') = Len(log) + 1 /\ log'[Len(log) + 1] = e
        /\ \A n \in 1..Len(log) : log'[n] = log[n]
        /\ \A n \in 1..Len(log') : n \in 1..Len(log) \/ n = Len(log) + 1
        /\ \A n \in 1..Len(log) : n \in 1..Len(log')
    BY <1>1, <2>1
  <2>3. e.token # None => answer'[e.token] # "created"
    BY <1>2, <2>1 DEF Spent
  <2>4. \A m \in 1..Len(log) :
           log[m].token # None =>
               (answer'[log[m].token] = "created" <=> answer[log[m].token] = "created")
    BY <1>1, <1>2
  <2>5. \A x : x \in Created' <=> x \in Created
    BY <2>2, <2>3, <2>4 DEF Created
  <2> QED
    BY <2>5
<1> QED
  BY <1>3, <1>4 DEF Shape, Dropping, Issuing, Beginning

\* The handler of token t reports on its record n.
LEMMA ReportTells ==
    ASSUME IInv, Spent, UNCHANGED log, NEW t \in Tokens, NEW n \in 1..Len(log),
           log[n].token = t, answer' = [answer EXCEPT ![t] = "created"]
    PROVE  Created' = Created \cup {log[n]}
<1>1. \A u \in Tokens : answer'[u] = IF u = t THEN "created" ELSE answer[u]
  BY DEF IInv, Core, TypeOK
<1>2. /\ \A m \in 1..Len(log) : log[m].token \in Tokens \cup {None}
      /\ t # None
  <2>1. log \in Seq(Entry) /\ \A u \in Tokens : u \in Nat
    BY DEF IInv, Core, TypeOK, Tokens
  <2>2. \A m \in 1..Len(log) : log[m] \in Entry
    BY <2>1
  <2> QED
    BY <2>1, <2>2, NoneAssumption DEF Entry
<1>3. \A m \in 1..Len(log) : log[m].token = t => m = n
  BY <1>2 DEF Spent
<1>4. ASSUME NEW x
      PROVE  x \in Created' <=> x \in Created \/ x = log[n]
  BY <1>1, <1>2, <1>3 DEF Created
<1> QED
  BY <1>4

LEMMA StepKeepsPromise ==
    ASSUME IInv, Spent, [Next]_vars, Shape, Grows
    PROVE  [Promise!Next]_(Promise!vars)
<1>1. /\ log \in Seq(Entry) /\ Len(log) \in Nat /\ published \in Nat /\ published <= Len(log)
  BY DEF IInv, Core, TypeOK
<1>2. InOrder /\ Replying /\ Told
  BY ReplyStep DEF IInv
<1>3. /\ log' \in Seq(Entry) /\ Promise!Ancestor(log, log')
      /\ published <= published' /\ published' \in Nat /\ published' <= Len(log')
      /\ log' = log \/ \E e \in Entry : log' = Append(log, e)
  <2>1. log' = log \/ \E e \in Entry : log' = Append(log, e)
    BY DEF Grows
  <2>2. log' \in Seq(Entry) /\ Len(log') \in Nat /\ Promise!Ancestor(log, log')
    <3>1. CASE log' = log
      BY <1>1, <3>1 DEF Promise!Ancestor
    <3>2. ASSUME NEW e \in Entry, log' = Append(log, e)
          PROVE  log' \in Seq(Entry) /\ Len(log') \in Nat /\ Promise!Ancestor(log, log')
      <4>1. log' \in Seq(Entry) /\ Len(log') = Len(log) + 1
            /\ \A i \in 1..Len(log) : log'[i] = log[i]
        BY <1>1, <3>2
      <4> QED
        BY <1>1, <4>1 DEF Promise!Ancestor
    <3> QED
      BY <2>1, <3>1, <3>2
  <2> QED
    BY <1>1, <2>1, <2>2 DEF Grows
<1>4. /\ View' \in {View, log'} /\ View' \in Seq(Entry)
      /\ Promise!Ancestor(View', log') /\ Promise!Ancestor(View, View')
      /\ published = Len(log) => View = log
  <2>1. PICK l \in Seq(Entry), n \in Nat : l = log' /\ n = published' /\ n <= Len(l)
    BY <1>3
  <2>2. /\ View' = SubSeq(l, 1, n) /\ View = SubSeq(log, 1, published)
        /\ n \in {published, Len(l)} /\ Promise!Ancestor(log, l) /\ published <= n
    BY <1>2, <1>3, <2>1 DEF View, InOrder
  <2>3. /\ SubSeq(l, 1, n) \in Seq(Entry)
        /\ SubSeq(l, 1, n) \in {SubSeq(log, 1, published), l}
        /\ Promise!Ancestor(SubSeq(l, 1, n), l)
        /\ published = Len(log) => SubSeq(log, 1, published) = log
        /\ Promise!Ancestor(SubSeq(log, 1, published), SubSeq(l, 1, n))
    BY <1>1, <2>1, <2>2, ViewMoves
  <2> QED
    BY <2>1, <2>2, <2>3
<1>5. CASE \A t \in Tokens : answer'[t] = "created" => answer[t] = "created"
  <2>1. Created' = Created
    BY <1>2, <1>5, NothingTold
  <2>2. CASE log' = log
    <3>1. Promise!Publish
      BY <1>4, <2>1, <2>2 DEF Promise!Publish
    <3> QED
      BY <3>1 DEF Promise!Next
  <2>3. CASE log' # log
    <3>1. PICK e \in Entry : log' = Append(log, e)
      BY <1>3, <2>3
    <3>2. View = log
      BY <1>2, <1>4, <2>3 DEF InOrder
    <3>3. Promise!Take(e)
      BY <1>4, <2>1, <3>1, <3>2 DEF Promise!Take
    <3> QED
      BY <3>3 DEF Promise!Next
  <2> QED
    BY <2>2, <2>3
<1>6. ASSUME UNCHANGED repository, NEW t \in Tokens, NEW n \in 1..published,
             answer' = [answer EXCEPT ![t] = "created"], log[n].token = t
      PROVE  [Promise!Next]_(Promise!vars)
  <2>1. n \in 1..Len(log) /\ log[n] \in Entry
    BY <1>1
  <2>2. Created' = Created \cup {log[n]}
    BY <1>6, <2>1, ReportTells DEF repository
  <2>3. View' = View /\ log' = log
    BY <1>6 DEF View, repository
  <2>4. Promise!Holds(View, log[n])
    <3>1. Len(View) = published /\ \A i \in 1..published : View[i] = log[i]
      BY <1>1, PrefixType DEF View
    <3> HIDE DEF View
    <3> QED
      BY <3>1 DEF Promise!Holds
  <2>5. Promise!Acknowledge(log[n])
    BY <2>2, <2>3, <2>4 DEF Promise!Acknowledge
  <2> QED
    BY <2>1, <2>5 DEF Promise!Next
<1> QED
  BY <1>2, <1>5, <1>6 DEF Told

LEMMA SpentHolds == Spec => [](IInv /\ Spent)
<1>1. Init => IInv /\ Spent
  <2>1. Init => Len(log) = 0 /\ \A t \in Tokens : table[t] = None /\ call[t] = None
    BY DEF Init
  <2> QED
    BY <2>1, InitInv DEF Spent, Recorded
<1>2. (IInv /\ Spent) /\ [Next]_vars => (IInv /\ Spent)'
  <2> SUFFICES ASSUME IInv, Spent, [Next]_vars
               PROVE  IInv' /\ Spent'
    OBVIOUS
  <2>1. IInv'
    BY StepInv
  <2>2. CASE Next
    <3>1. Shape
      BY <2>2, NextSound DEF IInv, Origins, Sound
    <3> QED
      BY <2>1, <3>1, ReplyStep, SpentStep DEF IInv
  <2>3. CASE UNCHANGED vars
    <3>1. UNCHANGED <<table, drawn, call, answer, log>>
      BY <2>3 DEF vars
    <3>2. Spent'
      BY <3>1 DEF Spent, Recorded
    <3> QED
      BY <2>1, <3>2
  <2> QED
    BY <2>2, <2>3
<1> QED
  BY <1>1, <1>2, PTL DEF Spec

\* The service keeps the promise of the confirmed log towards any number of
\* actors: records are taken in one at a time, what is published stays, and
\* whoever was told of an anchor finds its record there (appendSigned, and the
\* answers of githubCallback and submitEndorsement).
THEOREM KeepsPromiseHolds == Spec => KeepsPromise
<1>1. Init => Promise!Init
  <2>1. Init => log = <<>> /\ published = 0
    BY DEF Init
  <2>2. ASSUME log = <<>>, published = 0
        PROVE  Promise!Init
    BY <2>2 DEF Promise!Init, View, Created
  <2> QED
    BY <2>1, <2>2
<1>2. (IInv /\ Spent) /\ [Next]_vars => [Promise!Next]_(Promise!vars)
  <2> SUFFICES ASSUME IInv, Spent, [Next]_vars
               PROVE  [Promise!Next]_(Promise!vars)
    OBVIOUS
  <2>1. CASE Next
    <3>1. Shape /\ Grows
      BY <2>1, NextSound DEF IInv, Origins, Sound
    <3> QED
      BY <3>1, StepKeepsPromise
  <2>2. CASE UNCHANGED vars
    BY <2>2 DEF vars, Promise!vars, View, Created
  <2> QED
    BY <2>1, <2>2
<1> QED
  BY <1>1, <1>2, SpentHolds, PTL DEF Spec, KeepsPromise, Promise!Spec
=============================================================================
