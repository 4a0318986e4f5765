------------------------ MODULE AgentTransportProofs ------------------------
(***************************************************************************)
(* Theorems of AgentTransport for any number of commands, key paths, keys  *)
(* and decisions.                                                          *)
(***************************************************************************)
EXTENDS AgentTransport, FiniteSetTheorems, SequenceTheorems, WellFoundedInduction, TLAPS

-----------------------------------------------------------------------------
(* The inductive invariant.  It speaks of the action that each decision was *)
(* signed as: chosen is that function, and it only ever grows.              *)

Deciding == {"preparing", "retaining", "linking", "checking", "waiting", "clearing", "reporting"}
Holding  == {"linking", "checking", "waiting", "clearing"}

\* An action that was chosen, by a command whose key its custody has pinned.
Chosen(chosen, a) ==
    /\ a \in Action
    /\ a.decision <= drawn /\ a.token = a.decision
    /\ chosen[a.decision] = a
    /\ disk[a.custody].pin = a.by

\* A confirmation that is true of the published log.
Stands(r) ==
    /\ r \in Confirmation
    /\ r.at <= published
    /\ log[r.at] = r.action
    /\ r.effective = Decision(log, r.at)

Recoverable(a) == disk[a.custody].retained = a \/ \E r \in received : r.action = a

Replied(p) == proc[p].answer \notin {None, NotConfirmed}

ProcOK(chosen, p) ==
    /\ At(p, "idle") => proc[p] = Idle
    /\ ~At(p, "idle") =>
          /\ proc[p].custody \in Custodies
          /\ proc[p].key \in Keys /\ disk[proc[p].custody].pin = proc[p].key
    /\ proc[p].pc \in Deciding =>
          Chosen(chosen, proc[p].action) /\ proc[p].action.custody = proc[p].custody
    /\ proc[p].pc \in Holding => disk[proc[p].custody].retained = proc[p].action
    /\ (At(p, "waiting") /\ Replied(p)) \/ proc[p].pc \in {"clearing", "reporting"} =>
          Stands(proc[p].answer) /\ proc[p].answer.action = proc[p].action
    /\ proc[p].pc \in {"clearing", "reporting"} => proc[p].answer \in received
    /\ proc[p].pc \notin {"waiting", "clearing", "reporting"} => proc[p].answer = None

DiskOK(chosen, c) ==
    disk[c].retained # None => Chosen(chosen, disk[c].retained) /\ disk[c].retained.custody = c

\* A submit that is under way; its command, if it still has one, waits for it.
RequestOK(chosen, r) ==
    /\ Chosen(chosen, r.action) /\ Recoverable(r.action)
    /\ r.from # None =>
          /\ At(r.from, "waiting") /\ proc[r.from].answer = None
          /\ proc[r.from].action = r.action

LogOK(chosen) ==
    /\ \A n \in 1..Len(log) : Chosen(chosen, log[n]) /\ Recoverable(log[n])
    /\ OneRecordPerDecision

\* The lock of a custody admits one command.
Locked ==
    \A p, q \in Procs : p # q /\ proc[p].custody = proc[q].custody => proc[p].custody = None

IInv(chosen) ==
    /\ TypeOK
    /\ Locked
    /\ \A p \in Procs : ProcOK(chosen, p)
    /\ \A c \in Custodies : DiskOK(chosen, c)
    /\ \A r \in requests : RequestOK(chosen, r)
    /\ LogOK(chosen)
    /\ \A r \in received : Stands(r)

Choices == [Decisions -> Action \cup {None}]

Inv == \E chosen \in Choices : IInv(chosen)

-----------------------------------------------------------------------------
(* What outlives a step.                                                   *)

\* Pins and choices stay.
PinsKept ==
    /\ drawn \in Nat /\ drawn' \in Nat /\ drawn <= drawn'
    /\ \A c \in Custodies : disk[c].pin # None => disk'[c].pin = disk[c].pin

\* The log only grows at its end.
LogGrows ==
    /\ published \in Nat /\ published' \in Nat /\ published <= published'
    /\ log' = log \/ \E a \in Action : log' = Append(log, a)

LEMMA ChosenKept ==
    ASSUME NEW chosen, NEW a, Chosen(chosen, a), PinsKept
    PROVE  Chosen(chosen, a)'
<1>1. /\ a \in Action /\ a.decision \in Nat /\ a.custody \in Custodies /\ a.by # None
  BY NoneAssumption DEF Chosen, Action, Decisions
<1>2. a.decision <= drawn'
  BY <1>1 DEF Chosen, PinsKept
<1>3. disk'[a.custody].pin = a.by
  BY <1>1 DEF Chosen, PinsKept
<1> QED
  BY <1>2, <1>3 DEF Chosen

\* What was decided at a place in the log does not depend on what follows.
LEMMA StandsKept ==
    ASSUME TypeOK, NEW r, Stands(r), LogGrows
    PROVE  Stands(r)'
<1>1. /\ log \in Seq(Action) /\ Len(log) \in Nat /\ published \in Nat /\ published <= Len(log)
      /\ r.at \in Nat /\ r.at # 0 /\ r.at <= published
  BY DEF TypeOK, Stands, Confirmation, Decisions
<1>2. CASE log' = log
  BY <1>1, <1>2 DEF LogGrows, Stands, Decision
<1>3. ASSUME NEW a \in Action, log' = Append(log, a)
      PROVE  Stands(r)'
  <2>1. r.at \in 1..Len(log) /\ r.at <= Len(log')
    BY <1>1, <1>3
  <2>2. log'[r.at] = log[r.at]
    BY <1>1, <1>3, <2>1
  <2>3. Prefix(log', r.at) = Prefix(log, r.at)
    BY <1>1, <1>3, <2>1 DEF Prefix
  <2>4. Decision(log', r.at) = Decision(log, r.at)
    BY <2>3 DEF Decision
  <2>5. r.at <= published'
    BY <1>1 DEF LogGrows
  <2> QED
    BY <2>2, <2>4, <2>5 DEF Stands
<1> QED
  BY <1>2, <1>3 DEF LogGrows

\* A command that does not move.
LEMMA CommandKept ==
    ASSUME NEW chosen, IInv(chosen), PinsKept, LogGrows, received \subseteq received',
           NEW q \in Procs, proc'[q] = proc[q],
           proc[q].custody # None =>
               disk'[proc[q].custody].retained = disk[proc[q].custody].retained
    PROVE  ProcOK(chosen, q)'
<1>1. ProcOK(chosen, q) /\ TypeOK
  BY DEF IInv
<1>2. At(q, "idle")' => proc'[q] = Idle
  BY <1>1 DEF ProcOK, At
<1>3. ~At(q, "idle") =>
         /\ proc[q].custody \in Custodies /\ proc[q].custody # None
         /\ proc[q].key \in Keys /\ disk'[proc[q].custody].pin = proc[q].key
  BY <1>1, NoneAssumption DEF ProcOK, PinsKept
<1>4. proc[q].pc \in Deciding => Chosen(chosen, proc[q].action)'
  <2>1. proc[q].pc \in Deciding => Chosen(chosen, proc[q].action)
    BY <1>1 DEF ProcOK
  <2>2. proc[q].pc \in Deciding =>
          /\ proc[q].action \in Action /\ proc[q].action.by # None
          /\ proc[q].action.decision \in Nat /\ proc[q].action.custody \in Custodies
    BY <2>1, NoneAssumption DEF Chosen, Action, Decisions
  <2> QED
    BY <2>1, <2>2 DEF Chosen, PinsKept
<1>5. proc[q].pc \in Holding => disk'[proc[q].custody].retained = proc[q].action
  BY <1>1, <1>3 DEF ProcOK, Holding, At
<1>6. (At(q, "waiting") /\ Replied(q)) \/ proc[q].pc \in {"clearing", "reporting"} =>
         Stands(proc[q].answer)'
  <2> DEFINE answer == proc[q].answer
  <2>1. (At(q, "waiting") /\ Replied(q)) \/ proc[q].pc \in {"clearing", "reporting"} =>
           Stands(answer)
    BY <1>1 DEF ProcOK
  <2> QED
    BY <1>1, <2>1, StandsKept
<1> QED
  BY <1>1, <1>2, <1>3, <1>4, <1>5, <1>6 DEF ProcOK, At, Replied, Chosen, Stands, Decision

\* A submit that nothing happens to.
LEMMA RequestKept ==
    ASSUME NEW chosen, PinsKept, NEW r \in Request, RequestOK(chosen, r),
           Recoverable(r.action)',
           r.from # None => proc'[r.from] = proc[r.from]
    PROVE  RequestOK(chosen, r)'
<1>1. Chosen(chosen, r.action)'
  BY ChosenKept DEF RequestOK
<1> QED
  BY <1>1 DEF RequestOK, At

\* What one command holds does not concern the others.
LEMMA OthersHold ==
    ASSUME NEW chosen, IInv(chosen), NEW p \in Procs, NEW q \in Procs \ {p},
           \A c \in Custodies : disk'[c].retained = disk[c].retained \/ c = proc[p].custody
    PROVE  proc[q].custody # None =>
               disk'[proc[q].custody].retained = disk[proc[q].custody].retained
<1>1. proc[q].custody \in Custodies \cup {None}
  BY DEF IInv, TypeOK, Proc
<1>2. proc[q].custody # None => proc[q].custody # proc[p].custody
  BY DEF IInv, Locked
<1> QED
  BY <1>1, <1>2

\* A command moves; the log stays.
LEMMA OneCommand ==
    ASSUME NEW chosen, IInv(chosen), NEW p \in Procs, NEW new \in Proc,
           proc' = [proc EXCEPT ![p] = new],
           UNCHANGED <<log, published>>, PinsKept,
           disk' \in [Custodies -> Disk], requests' \subseteq Request, service' \in BOOLEAN,
           received \subseteq received', received' \subseteq Confirmation,
           reported' \subseteq received', drawn' \in Positions, faults' \in 0..MaxFaults,
           \A r \in received' : r \in received \/ Stands(r),
           new.custody \in {None, proc[p].custody} \/ Free(new.custody),
           ProcOK(chosen, p)',
           \A c \in Custodies : disk'[c].retained = disk[c].retained \/ c = proc[p].custody,
           \A c \in Custodies : DiskOK(chosen, c)',
           \A a \in Action : Recoverable(a) => Recoverable(a)',
           \A r \in requests' : RequestOK(chosen, r)'
    PROVE  IInv(chosen)'
<1>1. /\ TypeOK /\ Locked /\ LogOK(chosen) /\ \A r \in received : Stands(r)
      /\ proc \in [Procs -> Proc] /\ log \in Seq(Action) /\ published \in Nat
  BY DEF IInv, TypeOK
<1>2. TypeOK'
  BY <1>1 DEF TypeOK
<1>3. proc'[p] = new /\ \A q \in Procs \ {p} : proc'[q] = proc[q]
  BY <1>1
<1>4. LogGrows
  BY <1>1 DEF LogGrows
<1>5. Locked'
  BY <1>1, <1>3 DEF Locked, Free
<1>6. ASSUME NEW q \in Procs
      PROVE  ProcOK(chosen, q)'
  <2>1. CASE q = p
    BY <2>1
  <2>2. CASE q # p
    <3>1. q \in Procs \ {p}
      BY <2>2
    <3> QED
      BY <1>3, <1>4, <3>1, OthersHold, CommandKept
  <2> QED
    BY <2>1, <2>2
<1>7. LogOK(chosen)'
  <2>1. ASSUME NEW n \in 1..Len(log)
        PROVE  Chosen(chosen, log[n])' /\ Recoverable(log[n])'
    <3> DEFINE a == log[n]
    <3>1. Chosen(chosen, a) /\ Recoverable(a) /\ a \in Action
      BY <1>1 DEF LogOK, Chosen
    <3>2. Chosen(chosen, a)'
      BY <3>1, ChosenKept
    <3> QED
      BY <3>1, <3>2 DEF Chosen, Recoverable
  <2> QED
    BY <1>1, <2>1 DEF LogOK, OneRecordPerDecision
<1>8. ASSUME NEW r \in received'
      PROVE  Stands(r)'
  BY <1>1, <1>4, StandsKept
<1> QED
  BY <1>2, <1>5, <1>6, <1>7, <1>8 DEF IInv

-----------------------------------------------------------------------------
(* Commands that only move on, or end.                                     *)

LEMMA IdleType == Idle \in Proc /\ Idle.custody = None /\ Idle.pc = "idle"
BY DEF Idle, Proc

LEMMA Types ==
    ASSUME NEW chosen, IInv(chosen)
    PROVE  /\ TypeOK /\ disk \in [Custodies -> Disk] /\ proc \in [Procs -> Proc]
           /\ requests \subseteq Request /\ service \in BOOLEAN
           /\ log \in Seq(Action) /\ Len(log) \in Nat /\ published \in Nat /\ published <= Len(log)
           /\ received \subseteq Confirmation /\ reported \subseteq received
           /\ drawn \in Positions /\ drawn \in Nat /\ faults \in 0..MaxFaults
           /\ \A p \in Procs : proc[p] \in Proc /\ ProcOK(chosen, p)
           /\ \A c \in Custodies : disk[c] \in Disk /\ DiskOK(chosen, c)
           /\ \A r \in requests : r \in Request /\ RequestOK(chosen, r)
BY DEF IInv, TypeOK, Positions

LEMMA FaultType ==
    ASSUME faults \in 0..MaxFaults, Fault \/ UNCHANGED faults
    PROVE  faults' \in 0..MaxFaults
BY BoundsAssumption DEF Fault

\* No submit of p is under way.
Quiet(p) == At(p, "waiting") => proc[p].answer # None

\* A command moves and leaves its submits behind, or has none.
LEMMA SubmitsKept ==
    ASSUME NEW chosen, IInv(chosen), NEW p \in Procs, PinsKept,
           \A q \in Procs \ {p} : proc'[q] = proc[q],
           \A a \in Action : Recoverable(a) => Recoverable(a)',
           (requests' = requests /\ Quiet(p)) \/ requests' = Abandoned(p)
    PROVE  requests' \subseteq Request /\ \A r \in requests' : RequestOK(chosen, r)'
<1>1. requests' \subseteq Request
  BY Types DEF Abandoned, Request
<1>2. ASSUME NEW r \in requests'
      PROVE  RequestOK(chosen, r)'
  <2>1. PICK s \in requests : r.action = s.action /\ ((r = s /\ r.from # p) \/ r.from = None)
    <3>1. CASE requests' = Abandoned(p)
      <4>1. CASE r \in requests /\ r.from # p
        BY <4>1
      <4>2. CASE r \notin requests \/ r.from = p
        <5>1. PICK s \in requests : r = [s EXCEPT !.from = None]
          BY <3>1, <4>2 DEF Abandoned
        <5> QED
          BY <5>1, Types DEF Request
      <4> QED
        BY <4>1, <4>2
    <3>2. CASE requests' = requests /\ Quiet(p)
      <4>1. r \in requests /\ r.from # p
        BY <3>2, Types, NoneAssumption DEF RequestOK, Quiet
      <4> QED
        BY <4>1
    <3> QED
      BY <3>1, <3>2
  <2>2. s \in Request /\ RequestOK(chosen, s) /\ s.action \in Action
    BY Types DEF Request
  <2>3. Chosen(chosen, s.action)' /\ Recoverable(s.action)'
    BY <2>2, ChosenKept DEF RequestOK
  <2>4. CASE r.from = None
    BY <2>1, <2>3, <2>4 DEF RequestOK, Chosen, Recoverable
  <2>5. CASE r = s /\ r.from # p
    <3>1. r.from # None => r.from \in Procs \ {p}
      BY <2>2, <2>5 DEF Request
    <3> QED
      BY <2>2, <2>3, <2>5, <3>1, RequestKept
  <2> QED
    BY <2>1, <2>4, <2>5
<1> QED
  BY <1>1, <1>2

\* What a step may do to the disk while no retained action changes.
DiskStill ==
    /\ disk' \in [Custodies -> Disk]
    /\ \A c \in Custodies :
          /\ disk'[c].retained = disk[c].retained
          /\ disk[c].pin # None => disk'[c].pin = disk[c].pin

LEMMA StillDisk ==
    ASSUME NEW chosen, IInv(chosen), DiskStill, received \subseteq received',
           drawn' \in Nat, drawn <= drawn'
    PROVE  /\ PinsKept
           /\ \A c \in Custodies : DiskOK(chosen, c)'
           /\ \A a \in Action : Recoverable(a) => Recoverable(a)'
<1>1. PinsKept
  BY Types DEF PinsKept, DiskStill
<1>2. ASSUME NEW c \in Custodies
      PROVE  DiskOK(chosen, c)'
  <2>1. PICK a : a = disk[c].retained /\ a = disk'[c].retained
    BY DEF DiskStill
  <2>2. a # None => Chosen(chosen, a) /\ a.custody = c
    BY <2>1, Types DEF DiskOK
  <2>3. a # None => Chosen(chosen, a)'
    BY <1>1, <2>2, ChosenKept
  <2> QED
    BY <2>1, <2>2, <2>3 DEF DiskOK, Chosen
<1>3. ASSUME NEW a \in Action, Recoverable(a)
      PROVE  Recoverable(a)'
  <2>1. a.custody \in Custodies
    BY DEF Action
  <2> QED
    BY <1>3, <2>1 DEF Recoverable, DiskStill
<1> QED
  BY <1>1, <1>2, <1>3

\* A command moves on, and retains what it retained.
LEMMA MovesOn ==
    ASSUME NEW chosen, IInv(chosen), NEW p \in Procs, NEW new \in Proc,
           proc' = [proc EXCEPT ![p] = new],
           DiskStill, UNCHANGED <<log, published, service>>,
           drawn' \in Positions, drawn <= drawn', Fault \/ UNCHANGED faults,
           (requests' = requests /\ Quiet(p)) \/ requests' = Abandoned(p),
           received \subseteq received', received' \subseteq Confirmation,
           reported' \subseteq received', \A r \in received' : r \in received \/ Stands(r),
           new.custody \in {None, proc[p].custody} \/ Free(new.custody),
           PinsKept => ProcOK(chosen, p)'
    PROVE  IInv(chosen)'
<1>1. drawn' \in Nat
  BY BoundsAssumption DEF Positions
<1>2. /\ PinsKept
      /\ \A c \in Custodies : DiskOK(chosen, c)'
      /\ \A a \in Action : Recoverable(a) => Recoverable(a)'
  BY <1>1, StillDisk
<1>3. \A q \in Procs \ {p} : proc'[q] = proc[q]
  BY Types
<1>4. requests' \subseteq Request /\ \A r \in requests' : RequestOK(chosen, r)'
  BY <1>2, <1>3, SubmitsKept
<1>5. faults' \in 0..MaxFaults /\ service' \in BOOLEAN
  BY Types, FaultType
<1>6. disk' \in [Custodies -> Disk] /\ \A c \in Custodies : disk'[c].retained = disk[c].retained
  BY DEF DiskStill
<1> QED
  BY <1>2, <1>4, <1>5, <1>6, OneCommand

LEMMA Ended ==
    ASSUME NEW chosen, IInv(chosen), NEW p \in Procs, End(p)
    PROVE  /\ proc' = [proc EXCEPT ![p] = Idle]
           /\ ProcOK(chosen, p)'
<1>1. proc' = [proc EXCEPT ![p] = Idle] /\ proc'[p] = Idle
  BY Types DEF End
<1> QED
  BY <1>1 DEF Idle, ProcOK, At, Deciding, Holding, Replied

\* A command moves on and confirms nothing.
LEMMA GoesOn ==
    ASSUME NEW chosen, IInv(chosen), NEW p \in Procs, NEW new \in Proc,
           proc' = [proc EXCEPT ![p] = new], DiskStill,
           UNCHANGED <<server, said, drawn>>, Fault \/ UNCHANGED faults,
           (requests' = requests /\ Quiet(p)) \/ requests' = Abandoned(p),
           new.custody = proc[p].custody \/ Free(new.custody),
           PinsKept => ProcOK(chosen, p)'
    PROVE  IInv(chosen)'
<1>1. /\ UNCHANGED <<log, published, service>> /\ drawn' = drawn
      /\ received' = received /\ reported' = reported
  BY DEF server, said
<1>2. /\ drawn' \in Positions /\ drawn <= drawn'
      /\ received \subseteq received' /\ received' \subseteq Confirmation
      /\ reported' \subseteq received' /\ \A r \in received' : r \in received \/ Stands(r)
  BY <1>1, Types
<1> QED
  BY <1>1, <1>2, MovesOn

\* A command ends, and with it its lock.
LEMMA EndHolds ==
    ASSUME NEW chosen, IInv(chosen), NEW p \in Procs, End(p),
           DiskStill, UNCHANGED <<log, published, service, drawn, received>>,
           Fault \/ UNCHANGED faults, reported' \subseteq received,
           (requests' = requests /\ Quiet(p)) \/ requests' = Abandoned(p)
    PROVE  IInv(chosen)'
BY Ended, IdleType, Types, MovesOn

-----------------------------------------------------------------------------
(* Custody.                                                                *)

LEMMA SameDisk == ASSUME NEW chosen, IInv(chosen), disk' = disk PROVE DiskStill
BY Types DEF DiskStill

LEMMA ProcFields ==
    ASSUME NEW chosen, IInv(chosen), NEW p \in Procs
    PROVE  /\ proc[p] = [pc |-> proc[p].pc, custody |-> proc[p].custody, key |-> proc[p].key,
                         action |-> proc[p].action, attempt |-> proc[p].attempt,
                         answer |-> proc[p].answer]
           /\ proc[p].attempt \in 0..1
           /\ ~At(p, "idle") => proc[p].custody \in Custodies /\ proc[p].custody # None
           /\ proc[p].pc \notin {"waiting", "clearing", "reporting"} =>
                 Quiet(p) /\ proc[p].answer = None
BY Types, NoneAssumption DEF Proc, ProcOK, Quiet, At

LEMMA OpenHolds ==
    ASSUME NEW chosen, IInv(chosen), NEW p \in Procs, NEW c \in Custodies, Open(p, c)
    PROVE  IInv(chosen)'
<1> DEFINE new == [proc[p] EXCEPT !.custody = c, !.key = disk[c].key,
                       !.pc = IF disk[c].pin = None THEN "pinning" ELSE "open"]
<1>1. /\ At(p, "idle") /\ proc[p] = Idle /\ Quiet(p) /\ Free(c)
      /\ disk[c] \in Disk /\ disk[c].key \in Keys /\ disk[c].pin \in {None, disk[c].key}
  BY Types DEF Open, Enter, ProcOK, At, Quiet, Disk
<1>2. new \in Proc /\ proc' = [proc EXCEPT ![p] = new] /\ proc'[p] = new
  BY <1>1, Types, ZenonT(30) DEF Open, Enter, Proc
<1>3. DiskStill /\ disk'[c].pin = disk[c].key
  <2>1. CASE disk[c].pin # None
    BY <1>1, <2>1, Types DEF Open, Enter, DiskStill
  <2>2. CASE disk[c].pin = None
    BY <1>1, <2>2, Types DEF Open, Enter, DiskStill, Disk, Files
  <2> QED
    BY <2>1, <2>2
<1>4. ProcOK(chosen, p)'
  BY <1>1, <1>2, <1>3 DEF ProcOK, At, Deciding, Holding, Idle
<1> HIDE DEF new
<1>5. new.custody = c
  BY <1>1 DEF new, Idle
<1> QED
  BY <1>1, <1>2, <1>3, <1>4, <1>5, GoesOn DEF Open, Enter

\* A published file gets rid of its temporary name, or the command ends.
LEMMA PublishHolds ==
    ASSUME NEW chosen, IInv(chosen), NEW p \in Procs,
           NEW file \in Files, NEW next \in {"open", "checking"},
           (next = "open" /\ At(p, "pinning")) \/ (next = "checking" /\ At(p, "linking")),
           Publish(p, file, next), UNCHANGED <<requests, server, said, drawn>>
    PROVE  IInv(chosen)'
<1> DEFINE c == proc[p].custody
<1>1. /\ c \in Custodies /\ Quiet(p) /\ proc[p].answer = None /\ ~At(p, "idle")
      /\ disk[c] \in Disk
  BY ProcFields, Types DEF At
<1>2. ASSUME Unlinked(c, file)
      PROVE  DiskStill
  BY <1>1, <1>2, Types DEF Unlinked, DiskStill, Disk
<1>3. ASSUME GoOn(p, next), DiskStill
      PROVE  \E new \in Proc :
                 /\ proc' = [proc EXCEPT ![p] = new] /\ new.custody = c
                 /\ PinsKept => ProcOK(chosen, p)'
  <2> DEFINE new == [proc[p] EXCEPT !.pc = next]
  <2>1. new \in Proc /\ proc' = [proc EXCEPT ![p] = new] /\ proc'[p] = new /\ new.custody = c
    BY <1>3, Types DEF GoOn, Proc
  <2>2. ASSUME PinsKept
        PROVE  ProcOK(chosen, p)'
    <3>1. disk'[c].pin = proc[p].key /\ proc[p].key \in Keys /\ disk'[c].retained = disk[c].retained
      BY <1>1, <1>3, <2>2, Types, NoneAssumption DEF ProcOK, DiskStill
    <3>2. PICK a : a = proc[p].action
      OBVIOUS
    <3>3. next = "checking" =>
             Chosen(chosen, a) /\ a.custody = c /\ disk[c].retained = a
      BY <3>2, Types DEF ProcOK, At, Deciding, Holding
    <3>4. next = "checking" => Chosen(chosen, a)'
      BY <2>2, <3>3, ChosenKept
    <3> HIDE DEF c
    <3>5. /\ proc'[p].pc = next /\ proc'[p].action = a /\ proc'[p].key = proc[p].key
          /\ proc'[p].answer = None /\ proc'[p].custody = c
      BY <1>1, <2>1, <3>2 DEF Proc
    <3> QED
      BY <1>1, <3>1, <3>3, <3>4, <3>5 DEF ProcOK, At, Deciding, Holding, Chosen
  <2> QED
    BY <2>1, <2>2
<1>4. CASE Unlinked(c, file) /\ GoOn(p, next) /\ NoFault
  BY <1>1, <1>2, <1>3, <1>4, GoesOn DEF NoFault
<1>5. CASE Unlinked(c, file) /\ End(p) /\ Fault
  BY <1>1, <1>2, <1>5, Types, EndHolds DEF server, said
<1>6. CASE Fault /\ End(p) /\ UNCHANGED disk
  BY <1>1, <1>6, SameDisk, Types, EndHolds DEF server, said
<1> QED
  BY <1>4, <1>5, <1>6 DEF Publish

LEMMA PinnedHolds ==
    ASSUME NEW chosen, IInv(chosen), NEW p \in Procs, Pinned(p) \/ Retained(p)
    PROVE  IInv(chosen)'
BY PublishHolds DEF Pinned, Retained, Files

-----------------------------------------------------------------------------
(* mutate, up to its submit.                                               *)

\* A command that has chosen its action and has no answer.
LEMMA ActingOK ==
    ASSUME NEW chosen, IInv(chosen), NEW p \in Procs, DiskStill, PinsKept, ~At(p, "idle"),
           NEW new, proc'[p] = new, new.custody = proc[p].custody, new.key = proc[p].key,
           new.answer = None, new.pc \in {"preparing", "retaining", "linking", "checking", "waiting"},
           Chosen(chosen, new.action), new.action.custody = new.custody,
           new.pc \in Holding => disk[new.custody].retained = new.action
    PROVE  ProcOK(chosen, p)'
<1>1. /\ proc[p].custody \in Custodies /\ proc[p].key \in Keys
      /\ disk'[new.custody].pin = new.key /\ disk'[new.custody].retained = disk[new.custody].retained
  BY Types, NoneAssumption DEF ProcOK, DiskStill
<1>2. PICK a : a = new.action
  OBVIOUS
<1>3. Chosen(chosen, a)'
  BY <1>2, ChosenKept
<1> QED
  BY <1>1, <1>2, <1>3 DEF ProcOK, At, Deciding, Holding, Replied, Chosen

\* What is chosen is known of its own decision only.
LEMMA ChosenMore ==
    ASSUME NEW chosen \in Choices, IInv(chosen), drawn < MaxDecisions, NEW a \in Action
    PROVE  LET more == [chosen EXCEPT ![drawn + 1] = a]
           IN  more \in Choices /\ IInv(more) /\ more[drawn + 1] = a
<1> DEFINE more == [chosen EXCEPT ![drawn + 1] = a]
<1>1. drawn \in Nat /\ drawn + 1 \in Decisions
  BY Types, BoundsAssumption DEF Decisions
<1>2. more \in Choices /\ more[drawn + 1] = a
  BY <1>1 DEF Choices
<1>3. ASSUME NEW b, Chosen(chosen, b)
      PROVE  Chosen(more, b)
  <2>1. b.decision \in Decisions /\ b.decision <= drawn
    BY <1>3 DEF Chosen, Action
  <2>2. b.decision # drawn + 1
    BY <1>1, <2>1 DEF Decisions
  <2>3. more[b.decision] = chosen[b.decision]
    BY <2>1, <2>2 DEF Choices
  <2> QED
    BY <1>3, <2>3 DEF Chosen
<1> HIDE DEF more
<1>4. \A p \in Procs : ProcOK(more, p)
  BY <1>3 DEF IInv, ProcOK
<1>5. \A c \in Custodies : DiskOK(more, c)
  BY <1>3 DEF IInv, DiskOK
<1>6. \A r \in requests : RequestOK(more, r)
  BY <1>3 DEF IInv, RequestOK
<1>7. LogOK(more)
  BY <1>3 DEF IInv, LogOK
<1>8. IInv(more)
  BY <1>4, <1>5, <1>6, <1>7 DEF IInv
<1> QED
  BY <1>2, <1>8 DEF more

LEMMA ResumeHolds ==
    ASSUME NEW chosen, IInv(chosen), NEW p \in Procs, Resume(p)
    PROVE  IInv(chosen)'
<1> DEFINE c   == proc[p].custody
           new == [proc[p] EXCEPT !.pc = "checking", !.action = disk[c].retained]
<1>1. /\ ~At(p, "idle") /\ Quiet(p) /\ c \in Custodies /\ proc[p].answer = None
      /\ disk[c].retained # None /\ disk[c].retained \in Action
      /\ Chosen(chosen, disk[c].retained) /\ disk[c].retained.custody = c
  BY ProcFields, Types DEF Resume, At, Disk, DiskOK
<1>2. /\ new \in Proc /\ proc' = [proc EXCEPT ![p] = new] /\ proc'[p] = new
      /\ new.custody = c /\ new.key = proc[p].key /\ new.answer = None
      /\ new.pc = "checking" /\ new.action = disk[c].retained
  BY <1>1, Types, ZenonT(30) DEF Resume, Proc
<1>3. DiskStill
  BY SameDisk DEF Resume
<1> HIDE DEF new
<1>4. PinsKept => ProcOK(chosen, p)'
  BY <1>1, <1>2, <1>3, ActingOK
<1> QED
  BY <1>1, <1>2, <1>3, <1>4, GoesOn DEF Resume

LEMMA LeaveHolds ==
    ASSUME NEW chosen, IInv(chosen), NEW p \in Procs, Leave(p)
    PROVE  IInv(chosen)'
BY SameDisk, ProcFields, EndHolds, Types DEF Leave, At, server, said

LEMMA PrepareHolds ==
    ASSUME NEW chosen, IInv(chosen), NEW p \in Procs, Prepare(p)
    PROVE  IInv(chosen)'
<1> DEFINE new == [proc[p] EXCEPT !.pc = "retaining"]
<1>1. /\ ~At(p, "idle") /\ Quiet(p) /\ proc[p].answer = None
      /\ Chosen(chosen, proc[p].action) /\ proc[p].action.custody = proc[p].custody
  BY ProcFields, Types DEF Prepare, At, ProcOK, Deciding
<1>2. DiskStill
  BY SameDisk DEF Prepare
<1>3. CASE GoOn(p, "retaining") /\ NoFault
  <2>1. /\ new \in Proc /\ proc' = [proc EXCEPT ![p] = new] /\ proc'[p] = new
        /\ new.custody = proc[p].custody /\ new.key = proc[p].key /\ new.answer = None
        /\ new.pc = "retaining" /\ new.action = proc[p].action
    BY <1>1, <1>3, Types, SMTT(30) DEF GoOn, Proc
  <2> HIDE DEF new
  <2>2. PinsKept => ProcOK(chosen, p)'
    BY <1>1, <1>2, <2>1, ActingOK DEF Holding
  <2> QED
    BY <1>1, <1>2, <1>3, <2>1, <2>2, GoesOn DEF Prepare, NoFault
<1>4. CASE End(p)
  BY <1>1, <1>2, <1>4, Types, EndHolds DEF Prepare, NoFault, server, said
<1> QED
  BY <1>3, <1>4 DEF Prepare

-----------------------------------------------------------------------------
(* The last move of a log, and the number of its records.                  *)

LEMMA Least ==
    ASSUME NEW T, T \subseteq Nat, T # {}
    PROVE  \E x \in T : \A y \in T : x <= y
<1> DEFINE R == {p \in Nat \X Nat : p[1] < p[2]}
<1>1. IsWellFoundedOn(R, Nat)
  BY NatLessThanWellFounded DEF OpToRel
<1>2. PICK x \in T : \A y \in T : ~ (<<y, x>> \in R)
  <2> HIDE DEF R
  <2> QED
    BY <1>1, WFMin
<1>3. ASSUME NEW y \in T
      PROVE  x <= y
  <2>1. <<y, x>> \notin R /\ x \in Nat /\ y \in Nat
    BY <1>2
  <2>2. ~ (y < x)
    BY <2>1
  <2> QED
    BY <2>1, <2>2
<1> QED
  BY <1>3

LEMMA PrefixType ==
    ASSUME NEW s \in Seq(Action), NEW n \in Nat, n <= Len(s)
    PROVE  /\ Prefix(s, n) \in Seq(Action) /\ Len(Prefix(s, n)) = n
           /\ \A i \in 1..n : Prefix(s, n)[i] = s[i]
<1>1. \A i \in 1..n : s[i] \in Action
  OBVIOUS
<1>2. /\ SubSeq(s, 1, n) \in Seq(Action)
      /\ Len(SubSeq(s, 1, n)) = IF 1 <= n THEN n - 1 + 1 ELSE 0
      /\ \A i \in 1..(n - 1 + 1) : SubSeq(s, 1, n)[i] = s[1 + i - 1]
  BY <1>1, SubSeqProperties
<1>3. Len(SubSeq(s, 1, n)) = n /\ \A i \in 1..n : SubSeq(s, 1, n)[i] = s[i]
  BY <1>2
<1> QED
  BY <1>2, <1>3 DEF Prefix

\* What is the last move after record n, as f has it for the one before.
Later(s, f, n) ==
    IF n = 0 THEN 0 ELSE IF s[n].rests = f[n - 1] THEN n ELSE f[n - 1]

\* A function is the fold of the first k records of s.
Follows(f, s, k) == f = [n \in 0..k |-> Later(s, f, n)]

LEMMA FollowsExists ==
    ASSUME NEW s, NEW k \in Nat
    PROVE  \E f : Follows(f, s, k)
<1> DEFINE T == {n \in Nat : ~ \E f : Follows(f, s, n)}
<1> SUFFICES ASSUME T # {} PROVE FALSE
  OBVIOUS
<1>1. PICK n \in T : \A m \in T : n <= m
  <2>1. T \subseteq Nat
    OBVIOUS
  <2> HIDE DEF T
  <2> QED
    BY <2>1, Least
<1>2. n \in Nat
  OBVIOUS
<1>3. \E f : \A m \in 0..(n - 1) : f[m] = Later(s, f, m)
  <2>1. CASE n = 0
    BY <2>1
  <2>2. CASE n # 0
    <3>1. n - 1 \in Nat /\ ~ (n <= n - 1)
      BY <1>2, <2>2
    <3>2. n - 1 \notin T
      BY <1>1, <3>1
    <3>3. PICK f : Follows(f, s, n - 1)
      BY <3>1, <3>2
    <3> QED
      BY <3>3 DEF Follows
  <2> QED
    BY <2>1, <2>2
<1>4. PICK f : \A m \in 0..(n - 1) : f[m] = Later(s, f, m)
  BY <1>3
<1> DEFINE g == [m \in 0..n |-> Later(s, f, m)]
<1>5. ASSUME NEW m \in 0..n
      PROVE  Later(s, f, m) = Later(s, g, m)
  <2>1. m # 0 => m - 1 \in 0..(n - 1) /\ m - 1 \in 0..n
    BY <1>2
  <2>2. m # 0 => f[m - 1] = g[m - 1]
    BY <1>4, <2>1
  <2> HIDE DEF g
  <2> QED
    BY <2>2 DEF Later
<1>6. Follows(g, s, n)
  BY <1>5 DEF Follows
<1> QED
  BY <1>6

LEMMA LastMoveType ==
    ASSUME NEW s, Len(s) \in Nat
    PROVE  LastMove(s) \in 0..Len(s)
<1> DEFINE f == CHOOSE g : Follows(g, s, Len(s))
<1>1. LastMove(s) = f[Len(s)]
  BY DEF LastMove, Follows, Later
<1>2. Follows(f, s, Len(s))
  BY FollowsExists
<1> HIDE DEF f
<1> DEFINE T == {n \in 0..Len(s) : f[n] \notin 0..n}
<1>3. T = {}
  <2> SUFFICES ASSUME T # {} PROVE FALSE
    OBVIOUS
  <2>1. PICK n \in T : \A m \in T : n <= m
    <3>1. T \subseteq Nat
      OBVIOUS
    <3> HIDE DEF T
    <3> QED
      BY <3>1, Least
  <2>2. n \in Nat /\ f[n] = Later(s, f, n)
    BY <1>2 DEF Follows
  <2>3. n # 0 => n - 1 \in 0..Len(s) /\ n - 1 \in Nat /\ ~ (n <= n - 1)
    OBVIOUS
  <2>4. n # 0 => f[n - 1] \in 0..(n - 1)
    BY <2>1, <2>3
  <2> QED
    BY <2>2, <2>4 DEF Later
<1> QED
  BY <1>1, <1>3

\* A log with one record per decision has at most as many as there are decisions.
LEMMA FewRecords ==
    ASSUME NEW s \in Seq(Action),
           \A m, n \in 1..Len(s) : s[m].decision = s[n].decision => m = n
    PROVE  Len(s) <= MaxDecisions
<1> DEFINE f == [n \in 1..Len(s) |-> s[n].decision]
<1>1. Len(s) \in Nat /\ \A n \in 1..Len(s) : s[n].decision \in Decisions
  <2>1. Len(s) \in Nat /\ \A n \in 1..Len(s) : s[n] \in Action
    OBVIOUS
  <2> QED
    BY <2>1 DEF Action
<1>2. /\ IsFiniteSet(Decisions) /\ Cardinality(Decisions) = MaxDecisions
      /\ IsFiniteSet(1..Len(s)) /\ Cardinality(1..Len(s)) = Len(s)
  <2>1. ASSUME NEW n \in Nat
        PROVE  IsFiniteSet(1..n) /\ Cardinality(1..n) = n
    <3>1. 1 \in Int /\ n \in Int
      OBVIOUS
    <3>2. IsFiniteSet(1..n) /\ Cardinality(1..n) = IF 1 > n THEN 0 ELSE n - 1 + 1
      BY <3>1, FS_Interval
    <3> QED
      BY <3>2
  <2> QED
    BY <1>1, <2>1, BoundsAssumption DEF Decisions
<1>3. f \in [1..Len(s) -> Decisions]
  BY <1>1
<1>4. \A m, n \in 1..Len(s) : f[m] = f[n] => m = n
  OBVIOUS
<1> HIDE DEF f
<1>5. ~ (MaxDecisions < Len(s))
  BY <1>2, <1>3, <1>4, FS_PigeonHole
<1> QED
  BY <1>1, <1>5, BoundsAssumption

-----------------------------------------------------------------------------

LEMMA ChooseHolds ==
    ASSUME NEW chosen \in Choices, IInv(chosen), NEW p \in Procs, Choose(p)
    PROVE  Inv'
<1> DEFINE c    == proc[p].custody
           more(a) == [chosen EXCEPT ![drawn + 1] = a]
<1>1. /\ ~At(p, "idle") /\ Quiet(p) /\ proc[p].answer = None
      /\ c \in Custodies /\ proc[p].key \in Keys /\ disk[c].pin = proc[p].key
  BY ProcFields, Types DEF Choose, At, ProcOK
<1>2. drawn \in Nat /\ drawn < MaxDecisions /\ drawn' = drawn + 1 /\ drawn + 1 \in Decisions
      /\ drawn' \in Positions
  BY Types, BoundsAssumption DEF Choose, Decisions, Positions
<1>3. PICK n \in 0..published :
         proc' = [proc EXCEPT ![p].pc = "preparing",
                     ![p].action = [custody |-> c, by |-> proc[p].key,
                                    decision |-> drawn', token |-> drawn',
                                    rests |-> LastMove(Prefix(log, n))]]
  BY DEF Choose
<1> DEFINE b == [custody |-> c, by |-> proc[p].key, decision |-> drawn + 1, token |-> drawn + 1,
                 rests |-> LastMove(Prefix(log, n))]
<1>4. b \in Action
  <2>1. Prefix(log, n) \in Seq(Action) /\ Len(Prefix(log, n)) = n /\ n <= Len(log) /\ n \in Nat
    <3>1. n \in Nat /\ n <= Len(log) /\ log \in Seq(Action)
      BY Types
    <3> QED
      BY <3>1, PrefixType
  <2>2. Len(log) <= MaxDecisions
    BY Types, FewRecords DEF IInv, LogOK, OneRecordPerDecision
  <2>3. LastMove(Prefix(log, n)) \in Positions
    <3>1. LastMove(Prefix(log, n)) \in 0..n
      BY <2>1, LastMoveType
    <3> QED
      BY <2>1, <2>2, <3>1, Types, BoundsAssumption DEF Positions
  <2> QED
    BY <1>1, <1>2, <2>3 DEF Action
<1>5. PICK a \in Action :
         /\ a = b /\ a.custody = c /\ a.by = proc[p].key
         /\ a.decision = drawn + 1 /\ a.token = drawn + 1
  BY <1>4
<1> DEFINE new == [proc[p] EXCEPT !.pc = "preparing", !.action = a]
<1>6. new \in Proc /\ proc' = [proc EXCEPT ![p] = new] /\ proc'[p] = new
      /\ new.custody = c /\ new.key = proc[p].key /\ new.answer = None
      /\ new.pc = "preparing" /\ new.action = a
  BY <1>1, <1>2, <1>3, <1>5, Types, ZenonT(30) DEF Proc
<1> HIDE DEF b, new
<1>7. PICK all \in Choices : IInv(all) /\ all[drawn + 1] = a
  BY <1>2, ChosenMore
<1>8. DiskStill /\ disk' = disk
  BY SameDisk DEF Choose
<1>9. PinsKept => ProcOK(all, p)'
  <2>1. a.decision <= drawn'
    BY <1>2, <1>5
  <2>2. Chosen(all, a)'
    BY <1>1, <1>2, <1>5, <1>7, <1>8, <2>1 DEF Chosen
  <2> QED
    BY <1>1, <1>5, <1>6, <1>8, <2>2 DEF ProcOK, At, Deciding, Holding, Replied, Chosen
<1>10. IInv(all)'
  <2>1. /\ UNCHANGED <<log, published, service>> /\ requests' = requests /\ faults' = faults
        /\ received' = received /\ reported' = reported
    BY DEF Choose, server, said
  <2>2. /\ drawn <= drawn'
        /\ received \subseteq received' /\ received' \subseteq Confirmation
        /\ reported' \subseteq received' /\ \A r \in received' : r \in received \/ Stands(r)
    BY <1>2, <2>1, Types
  <2> QED
    BY <1>1, <1>2, <1>6, <1>7, <1>8, <1>9, <2>1, <2>2, MovesOn
<1> QED
  BY <1>7, <1>10 DEF Inv, Choices

LEMMA RetainHolds ==
    ASSUME NEW chosen, IInv(chosen), NEW p \in Procs, Retain(p)
    PROVE  IInv(chosen)'
<1> DEFINE c   == proc[p].custody
           new == [proc[p] EXCEPT !.pc = "linking"]
<1>1. PICK a \in Action : a = proc[p].action /\ Chosen(chosen, a) /\ a.custody = c
  BY Types DEF Retain, At, ProcOK, Deciding, Chosen
<1>2. /\ ~At(p, "idle") /\ Quiet(p) /\ proc[p].answer = None /\ c \in Custodies
      /\ proc[p].key \in Keys /\ disk[c].pin = proc[p].key /\ disk[c] \in Disk
  BY ProcFields, Types DEF Retain, At, ProcOK
<1>3. CASE /\ disk[c].retained = None
           /\ disk' = [disk EXCEPT ![c].retained = a, ![c].linked = @ \cup {"pending.json"}]
           /\ GoOn(p, "linking")
           /\ NoFault
  <2>1. /\ new \in Proc /\ proc' = [proc EXCEPT ![p] = new] /\ proc'[p] = new
        /\ new.custody = c /\ new.key = proc[p].key /\ new.answer = None
        /\ new.pc = "linking" /\ new.action = a
    BY <1>1, <1>2, <1>3, Types DEF GoOn, Proc
  <2>2. /\ disk' \in [Custodies -> Disk] /\ disk'[c].pin = disk[c].pin /\ disk'[c].retained = a
        /\ \A d \in Custodies \ {c} : disk'[d] = disk[d]
    BY <1>1, <1>2, <1>3, Types DEF Disk, Files
  <2>3. PinsKept
    BY <2>2, Types DEF PinsKept, Retain
  <2>4. Chosen(chosen, a)'
    BY <1>1, <2>3, ChosenKept
  <2> HIDE DEF new, c
  <2>5. ProcOK(chosen, p)'
    BY <1>1, <1>2, <2>1, <2>2, <2>4 DEF ProcOK, At, Deciding, Holding, Replied, Chosen
  <2>6. ASSUME NEW d \in Custodies
        PROVE  DiskOK(chosen, d)'
    <3>1. CASE d = c
      BY <1>1, <2>2, <2>4, <3>1 DEF DiskOK, Chosen
    <3>2. CASE d # c
      <4>1. PICK b : b = disk[d].retained /\ b = disk'[d].retained
        BY <2>2, <3>2
      <4>2. b # None => Chosen(chosen, b) /\ b.custody = d
        BY <4>1, Types DEF DiskOK
      <4>3. b # None => Chosen(chosen, b)'
        BY <2>3, <4>2, ChosenKept
      <4> QED
        BY <4>1, <4>2, <4>3 DEF DiskOK, Chosen
    <3> QED
      BY <3>1, <3>2
  <2>7. ASSUME NEW b \in Action, Recoverable(b)
        PROVE  Recoverable(b)'
    <3>1. b.custody \in Custodies /\ b # None
      BY NoneAssumption DEF Action
    <3> QED
      BY <1>3, <2>2, <2>7, <3>1 DEF Recoverable, Retain, said, c
  <2>8. \A q \in Procs \ {p} : proc'[q] = proc[q]
    BY <2>1, Types
  <2>9. requests' \subseteq Request /\ \A r \in requests' : RequestOK(chosen, r)'
    BY <1>2, <2>3, <2>7, <2>8, SubmitsKept DEF Retain
  <2>10. /\ UNCHANGED <<log, published>> /\ service' \in BOOLEAN
         /\ received \subseteq received' /\ received' \subseteq Confirmation
         /\ reported' \subseteq received' /\ drawn' \in Positions /\ faults' \in 0..MaxFaults
         /\ \A r \in received' : r \in received \/ Stands(r)
    BY <1>3, Types DEF Retain, server, said, NoFault
  <2>11. \A d \in Custodies : disk'[d].retained = disk[d].retained \/ d = proc[p].custody
    BY <2>2 DEF c
  <2>12. new.custody = proc[p].custody
    BY <2>1 DEF c
  <2> QED
    BY <2>1, <2>2, <2>3, <2>5, <2>6, <2>7, <2>9, <2>10, <2>11, <2>12, OneCommand
<1>4. CASE End(p) /\ Fault /\ UNCHANGED disk
  BY <1>2, <1>4, SameDisk, Types, EndHolds DEF Retain, server, said
<1> QED
  BY <1>1, <1>3, <1>4 DEF Retain

-----------------------------------------------------------------------------
(* mutate, from its submit on.                                             *)

LEMMA FailsHolds ==
    ASSUME NEW chosen, IInv(chosen), NEW p \in Procs, proc[p].pc \in {"checking", "waiting"},
           AttemptFails(p), UNCHANGED <<disk, server, said, drawn>>, Fault \/ UNCHANGED faults,
           (requests' = requests /\ Quiet(p)) \/ requests' = Abandoned(p)
    PROVE  IInv(chosen)'
<1> DEFINE new == [proc[p] EXCEPT !.pc = "checking", !.attempt = @ + 1, !.answer = None]
<1>1. /\ ~At(p, "idle") /\ proc[p].attempt \in 0..1
      /\ Chosen(chosen, proc[p].action) /\ proc[p].action.custody = proc[p].custody
      /\ disk[proc[p].custody].retained = proc[p].action
  BY ProcFields, Types DEF At, ProcOK, Deciding, Holding
<1>2. DiskStill
  BY SameDisk
<1>3. CASE proc[p].attempt < 1 /\ Again(p)
  <2>1. /\ new \in Proc /\ proc' = [proc EXCEPT ![p] = new] /\ proc'[p] = new
        /\ new.custody = proc[p].custody /\ new.key = proc[p].key /\ new.answer = None
        /\ new.pc = "checking" /\ new.action = proc[p].action
    BY <1>1, <1>3, Types DEF Again, Proc
  <2> HIDE DEF new
  <2>2. PinsKept => ProcOK(chosen, p)'
    BY <1>1, <1>2, <2>1, ActingOK
  <2> QED
    BY <1>2, <2>1, <2>2, GoesOn
<1>4. CASE End(p)
  BY <1>2, <1>4, Types, EndHolds DEF server, said
<1> QED
  BY <1>3, <1>4 DEF AttemptFails

LEMMA CheckingQuiet ==
    ASSUME NEW chosen, IInv(chosen), NEW p \in Procs, At(p, "checking")
    PROVE  Quiet(p) /\ proc[p].pc = "checking" /\ proc[p].answer = None
BY ProcFields DEF At

LEMMA SendHolds ==
    ASSUME NEW chosen, IInv(chosen), NEW p \in Procs, Send(p)
    PROVE  IInv(chosen)'
<1> DEFINE new == [proc[p] EXCEPT !.pc = "waiting"]
           r   == [from |-> p, action |-> proc[p].action]
<1>1. /\ At(p, "checking") /\ Quiet(p) /\ proc[p].answer = None /\ ~At(p, "idle")
      /\ Chosen(chosen, proc[p].action) /\ proc[p].action.custody = proc[p].custody
      /\ disk[proc[p].custody].retained = proc[p].action
  BY CheckingQuiet, Types DEF Send, At, ProcOK, Deciding, Holding
<1>2. DiskStill /\ disk' = disk
  BY SameDisk DEF Send
<1>3. CASE /\ requests' = requests \cup {r}
           /\ GoOn(p, "waiting")
           /\ NoFault
  <2>1. /\ new \in Proc /\ proc' = [proc EXCEPT ![p] = new] /\ proc'[p] = new
        /\ new.custody = proc[p].custody /\ new.key = proc[p].key /\ new.answer = None
        /\ new.pc = "waiting" /\ new.action = proc[p].action
    <3>1. proc \in [Procs -> Proc]
      BY Types
    <3>2. /\ new \in Proc /\ new.custody = proc[p].custody /\ new.key = proc[p].key
          /\ new.answer = proc[p].answer /\ new.pc = "waiting" /\ new.action = proc[p].action
      BY <3>1 DEF Proc
    <3>3. proc' = [proc EXCEPT ![p] = new] /\ proc'[p] = new
      BY <1>3, <3>1 DEF GoOn
    <3> QED
      BY <1>1, <3>2, <3>3
  <2>2. /\ UNCHANGED <<log, published, service>> /\ drawn' = drawn /\ faults' = faults
        /\ received' = received /\ reported' = reported
    BY <1>3 DEF Send, server, said, NoFault
  <2>3. /\ PinsKept
        /\ \A c \in Custodies : DiskOK(chosen, c)'
        /\ \A a \in Action : Recoverable(a) => Recoverable(a)'
    BY <1>2, <2>2, Types, StillDisk
  <2> HIDE DEF new
  <2>4. ProcOK(chosen, p)'
    BY <1>1, <1>2, <2>1, <2>3, ActingOK
  <2>5. r \in Request /\ r.action = proc[p].action /\ r.from = p
    BY <1>1 DEF Request, Chosen
  <2>6. ASSUME NEW q \in requests'
        PROVE  RequestOK(chosen, q)'
    <3>1. CASE q = r
      <4>1. PICK a : a = proc[p].action
        OBVIOUS
      <4>2. Chosen(chosen, a)' /\ Recoverable(a)
        BY <1>1, <2>3, <4>1, ChosenKept DEF Recoverable
      <4>3. Recoverable(a)'
        BY <1>1, <2>3, <4>1, <4>2 DEF Chosen
      <4> HIDE DEF r
      <4> QED
        BY <2>1, <2>5, <3>1, <4>1, <4>2, <4>3 DEF RequestOK, At, Chosen, Recoverable
    <3>2. CASE q \in requests
      <4>1. q \in Request /\ RequestOK(chosen, q) /\ q.action \in Action
        BY <3>2, Types DEF Request
      <4>2. q.from # None => q.from \in Procs /\ q.from # p
        BY <1>1, <4>1 DEF RequestOK, At, Request
      <4>3. q.from # None => proc'[q.from] = proc[q.from]
        BY <2>1, <4>2, Types
      <4>4. Recoverable(q.action)'
        BY <2>3, <4>1 DEF RequestOK
      <4> QED
        BY <2>3, <4>1, <4>3, <4>4, RequestKept
    <3> QED
      BY <1>3, <3>1, <3>2
  <2>7. requests' \subseteq Request
    BY <1>3, <2>5, Types
  <2>8. /\ disk' \in [Custodies -> Disk] /\ service' \in BOOLEAN
        /\ received \subseteq received' /\ received' \subseteq Confirmation
        /\ reported' \subseteq received' /\ drawn' \in Positions /\ faults' \in 0..MaxFaults
        /\ \A x \in received' : x \in received \/ Stands(x)
        /\ \A c \in Custodies : disk'[c].retained = disk[c].retained
    BY <1>2, <2>2, Types
  <2> QED
    BY <2>1, <2>2, <2>3, <2>4, <2>6, <2>7, <2>8, OneCommand
<1>4. CASE AttemptFails(p) /\ (NoFault \/ Fault) /\ UNCHANGED requests
  BY <1>1, <1>4, FailsHolds DEF Send, At, NoFault
<1> QED
  BY <1>3, <1>4 DEF Send

LEMMA TimeOutHolds ==
    ASSUME NEW chosen, IInv(chosen), NEW p \in Procs, TimeOut(p)
    PROVE  IInv(chosen)'
BY FailsHolds DEF TimeOut, At

LEMMA CancelHolds ==
    ASSUME NEW chosen, IInv(chosen), NEW p \in Procs, Cancel(p)
    PROVE  IInv(chosen)'
BY CheckingQuiet, SameDisk, Types, EndHolds DEF Cancel, server, said

LEMMA KillHolds ==
    ASSUME NEW chosen, IInv(chosen), NEW p \in Procs, Kill(p)
    PROVE  IInv(chosen)'
BY SameDisk, Types, EndHolds DEF Kill, server, said

LEMMA ReceiveHolds ==
    ASSUME NEW chosen, IInv(chosen), NEW p \in Procs, Receive(p)
    PROVE  IInv(chosen)'
<1> DEFINE new == [proc[p] EXCEPT !.pc = "clearing"]
<1>1. /\ At(p, "waiting") /\ Quiet(p) /\ ~At(p, "idle") /\ disk' = disk /\ DiskStill
      /\ Chosen(chosen, proc[p].action) /\ proc[p].action.custody = proc[p].custody
      /\ disk[proc[p].custody].retained = proc[p].action
  BY SameDisk, Types, NoneAssumption DEF Receive, At, Quiet, ProcOK, Deciding, Holding
<1>2. CASE proc[p].answer = NotConfirmed /\ AttemptFails(p) /\ UNCHANGED received
  BY <1>1, <1>2, FailsHolds DEF Receive, At, said
<1>3. CASE /\ Replied(p)
           /\ received' = received \cup {proc[p].answer}
           /\ GoOn(p, "clearing")
  <2>1. PICK x \in Confirmation : x = proc[p].answer /\ Stands(x) /\ x.action = proc[p].action
    BY <1>1, <1>3, Types DEF ProcOK, Stands
  <2>2. /\ new \in Proc /\ proc' = [proc EXCEPT ![p] = new] /\ proc'[p] = new
        /\ new.custody = proc[p].custody /\ new.key = proc[p].key /\ new.answer = x
        /\ new.pc = "clearing" /\ new.action = proc[p].action
    BY <1>1, <1>3, <2>1, Types DEF GoOn, Proc
  <2>3. /\ UNCHANGED <<log, published, service>> /\ drawn' = drawn /\ faults' = faults
        /\ requests' = requests /\ reported' = reported /\ received' = received \cup {x}
    BY <1>3, <2>1 DEF Receive, server
  <2>4. /\ drawn' \in Positions /\ drawn <= drawn'
        /\ received \subseteq received' /\ received' \subseteq Confirmation
        /\ reported' \subseteq received' /\ \A r \in received' : r \in received \/ Stands(r)
    BY <2>1, <2>3, Types
  <2> HIDE DEF new
  <2>5. ASSUME PinsKept
        PROVE  ProcOK(chosen, p)'
    <3>1. PICK a : a = proc[p].action
      OBVIOUS
    <3>2. Chosen(chosen, a)'
      BY <1>1, <2>5, <3>1, ChosenKept
    <3>3. Stands(x)'
      BY <2>1, <2>3 DEF Stands
    <3>4. /\ proc[p].custody \in Custodies /\ proc[p].key \in Keys
          /\ disk[proc[p].custody].pin = proc[p].key
      BY <1>1, Types DEF ProcOK
    <3> QED
      BY <1>1, <2>1, <2>2, <2>3, <3>1, <3>2, <3>3, <3>4
         DEF ProcOK, At, Deciding, Holding, Replied, Chosen, Stands
  <2> QED
    BY <1>1, <2>2, <2>3, <2>4, <2>5, MovesOn
<1> QED
  BY <1>2, <1>3 DEF Receive, Replied

\* A confirmed action is in nobody's debt.
LEMMA ClearedDisk ==
    ASSUME NEW chosen, IInv(chosen), NEW p \in Procs, At(p, "clearing"),
           disk' = [disk EXCEPT ![proc[p].custody].retained = None],
           UNCHANGED <<received, drawn>>
    PROVE  /\ disk' \in [Custodies -> Disk] /\ PinsKept
           /\ \A c \in Custodies : disk'[c].retained = disk[c].retained \/ c = proc[p].custody
           /\ \A c \in Custodies : DiskOK(chosen, c)'
           /\ \A a \in Action : Recoverable(a) => Recoverable(a)'
<1> DEFINE c == proc[p].custody
<1>1. /\ c \in Custodies /\ disk[c] \in Disk
      /\ disk[c].retained = proc[p].action /\ proc[p].answer \in received
      /\ proc[p].answer.action = proc[p].action
  BY Types, ProcFields DEF At, ProcOK, Holding
<1>2. /\ disk' \in [Custodies -> Disk] /\ disk'[c].retained = None /\ disk'[c].pin = disk[c].pin
      /\ \A d \in Custodies \ {c} : disk'[d] = disk[d]
  BY <1>1, Types DEF Disk
<1>3. PinsKept
  BY <1>2, Types DEF PinsKept
<1> HIDE DEF c
<1>4. ASSUME NEW d \in Custodies
      PROVE  DiskOK(chosen, d)'
  <2>1. PICK b : b = disk'[d].retained
    OBVIOUS
  <2>2. b # None => Chosen(chosen, b) /\ b.custody = d
    BY <1>2, <2>1, Types DEF DiskOK
  <2>3. b # None => Chosen(chosen, b)'
    BY <1>3, <2>2, ChosenKept
  <2> QED
    BY <2>1, <2>2, <2>3 DEF DiskOK, Chosen
<1>5. ASSUME NEW a \in Action, Recoverable(a)
      PROVE  Recoverable(a)'
  <2>1. a.custody \in Custodies
    BY DEF Action
  <2>2. CASE a.custody = c
    BY <1>1, <1>5, <2>2 DEF Recoverable
  <2>3. CASE a.custody # c
    BY <1>2, <1>5, <2>1, <2>3 DEF Recoverable
  <2> QED
    BY <2>2, <2>3
<1> QED
  BY <1>2, <1>3, <1>4, <1>5 DEF c

LEMMA ClearHolds ==
    ASSUME NEW chosen, IInv(chosen), NEW p \in Procs, Clear(p)
    PROVE  IInv(chosen)'
<1> DEFINE cleared == [disk EXCEPT ![proc[p].custody].retained = None]
           new == [proc[p] EXCEPT !.pc = "reporting"]
<1>1. /\ At(p, "clearing") /\ Quiet(p) /\ ~At(p, "idle")
      /\ Chosen(chosen, proc[p].action) /\ proc[p].action.custody = proc[p].custody
      /\ Stands(proc[p].answer) /\ proc[p].answer.action = proc[p].action
      /\ proc[p].answer \in received
  BY Types DEF Clear, At, Quiet, ProcOK, Deciding
<1>2. /\ UNCHANGED <<log, published, service>> /\ drawn' = drawn
      /\ requests' = requests /\ received' = received /\ reported' = reported
  BY DEF Clear, server, said
<1>3. \A q \in Procs \ {p} : End(p) \/ GoOn(p, "reporting") => proc'[q] = proc[q]
  BY Types DEF End, GoOn
<1>4. CASE disk' = cleared /\ GoOn(p, "reporting") /\ NoFault
  <2>1. /\ disk' \in [Custodies -> Disk] /\ PinsKept
        /\ \A c \in Custodies : disk'[c].retained = disk[c].retained \/ c = proc[p].custody
        /\ \A c \in Custodies : DiskOK(chosen, c)'
        /\ \A a \in Action : Recoverable(a) => Recoverable(a)'
    BY <1>1, <1>2, <1>4, ClearedDisk
  <2>2. /\ new \in Proc /\ proc' = [proc EXCEPT ![p] = new] /\ proc'[p] = new
        /\ new.custody = proc[p].custody /\ new.key = proc[p].key /\ new.answer = proc[p].answer
        /\ new.pc = "reporting" /\ new.action = proc[p].action
    BY <1>1, <1>4, Types DEF GoOn, Proc
  <2> HIDE DEF new, cleared
  <2>3. ProcOK(chosen, p)'
    <3>1. PICK a : a = proc[p].action
      OBVIOUS
    <3>2. PICK x : x = proc[p].answer
      OBVIOUS
    <3>3. Chosen(chosen, a)' /\ Stands(x)'
      BY <1>1, <1>2, <2>1, <3>1, <3>2, ChosenKept DEF Stands
    <3>4. /\ proc[p].custody \in Custodies /\ proc[p].key \in Keys
          /\ disk'[proc[p].custody].pin = proc[p].key
      BY <1>1, <2>1, Types, NoneAssumption DEF ProcOK, PinsKept
    <3> QED
      BY <1>1, <1>2, <2>2, <3>1, <3>2, <3>3, <3>4
         DEF ProcOK, At, Deciding, Holding, Replied, Chosen, Stands
  <2>4. requests' \subseteq Request /\ \A r \in requests' : RequestOK(chosen, r)'
    BY <1>1, <1>2, <1>3, <1>4, <2>1, SubmitsKept
  <2>5. /\ service' \in BOOLEAN
        /\ received \subseteq received' /\ received' \subseteq Confirmation
        /\ reported' \subseteq received' /\ drawn' \in Positions /\ faults' \in 0..MaxFaults
        /\ \A r \in received' : r \in received \/ Stands(r)
    BY <1>2, <1>4, Types DEF NoFault
  <2> QED
    BY <1>2, <2>1, <2>2, <2>3, <2>4, <2>5, OneCommand
<1>5. CASE disk' = disk /\ End(p) /\ Fault
  BY <1>1, <1>2, <1>5, SameDisk, Types, EndHolds
<1>6. CASE disk' = cleared /\ End(p) /\ Fault
  <2>1. /\ disk' \in [Custodies -> Disk] /\ PinsKept
        /\ \A c \in Custodies : disk'[c].retained = disk[c].retained \/ c = proc[p].custody
        /\ \A c \in Custodies : DiskOK(chosen, c)'
        /\ \A a \in Action : Recoverable(a) => Recoverable(a)'
    BY <1>1, <1>2, <1>6, ClearedDisk
  <2>2. requests' \subseteq Request /\ \A r \in requests' : RequestOK(chosen, r)'
    BY <1>1, <1>2, <1>3, <1>6, <2>1, SubmitsKept
  <2>3. /\ service' \in BOOLEAN
        /\ received \subseteq received' /\ received' \subseteq Confirmation
        /\ reported' \subseteq received' /\ drawn' \in Positions /\ faults' \in 0..MaxFaults
        /\ \A r \in received' : r \in received \/ Stands(r)
    BY <1>2, <1>6, Types, FaultType
  <2> QED
    BY <1>2, <1>6, <2>1, <2>2, <2>3, Ended, IdleType, OneCommand
<1> QED
  BY <1>4, <1>5, <1>6 DEF Clear

LEMMA ReportHolds ==
    ASSUME NEW chosen, IInv(chosen), NEW p \in Procs, Report(p)
    PROVE  IInv(chosen)'
<1>1. Quiet(p) /\ proc[p].answer \in received
  BY Types DEF Report, At, Quiet, ProcOK
<1> QED
  BY <1>1, SameDisk, Types, EndHolds DEF Report, server

-----------------------------------------------------------------------------
(* The service.                                                            *)

\* The log stays, or takes in a submit whose decision has no record yet.
TakesIn(r) ==
    \/ log' = log
    \/ /\ log' = Append(log, r.action)
       /\ \A n \in 1..Len(log) : log[n].decision # r.action.decision

\* The service does something else than answering, or answers submit r with x.
Answering(r, x) ==
    /\ Answered(r, x)
    /\ x \in Confirmation \cup {NotConfirmed}
    /\ x # NotConfirmed => Stands(x)' /\ x.action = r.action

LEMMA AnsweredOK ==
    ASSUME NEW chosen, IInv(chosen), DiskStill, UNCHANGED <<received, drawn>>, LogGrows,
           NEW r \in requests, NEW x, Answering(r, x), NEW q \in Procs
    PROVE  ProcOK(chosen, q)' /\ proc'[q] \in Proc
<1>1. PinsKept /\ r \in Request /\ RequestOK(chosen, r) /\ proc[q] \in Proc
  BY StillDisk, Types
<1>2. CASE q # r.from
  <2>1. proc'[q] = proc[q]
    BY <1>1, <1>2, Types DEF Answering, Answered, Request
  <2>2. proc[q].custody # None => disk'[proc[q].custody].retained = disk[proc[q].custody].retained
    BY <1>1 DEF DiskStill, Proc
  <2> QED
    BY <1>1, <2>1, <2>2, CommandKept
<1>3. CASE q = r.from
  <2>1. /\ At(q, "waiting") /\ proc[q].action = r.action /\ q # None
    BY <1>1, <1>3, NoneAssumption DEF RequestOK
  <2>2. /\ proc' = [proc EXCEPT ![q].answer = x]
    BY <1>3, <2>1 DEF Answering, Answered
  <2>3. /\ proc'[q] = [proc[q] EXCEPT !.answer = x] /\ proc'[q] \in Proc
        /\ proc'[q].pc = "waiting" /\ proc'[q].custody = proc[q].custody
        /\ proc'[q].key = proc[q].key /\ proc'[q].action = r.action /\ proc'[q].answer = x
    BY <1>1, <2>1, <2>2, Types, SMTT(30) DEF Proc, Answering, At
  <2>4. PICK a : a = r.action
    OBVIOUS
  <2>5. Chosen(chosen, a)' /\ a.custody = proc[q].custody /\ disk[proc[q].custody].retained = a
    BY <1>1, <2>1, <2>4, ChosenKept, Types DEF ProcOK, At, Deciding, Holding
  <2>6. /\ proc[q].custody \in Custodies /\ proc[q].key \in Keys
        /\ disk'[proc[q].custody].pin = proc[q].key
        /\ disk'[proc[q].custody].retained = a
    BY <1>1, <2>1, <2>5, Types, NoneAssumption DEF ProcOK, PinsKept, At, DiskStill
  <2> QED
    BY <2>3, <2>4, <2>5, <2>6
       DEF ProcOK, At, Deciding, Holding, Replied, Chosen, Stands, Answering
<1> QED
  BY <1>2, <1>3

LEMMA ServiceHolds ==
    ASSUME NEW chosen, IInv(chosen), DiskStill, UNCHANGED <<received, reported, drawn>>,
           LogGrows, log' \in Seq(Action), published' <= Len(log'),
           service' \in BOOLEAN, Fault \/ UNCHANGED faults,
           \/ UNCHANGED <<proc, requests, log>>
           \/ \E r \in requests : TakesIn(r) /\ \E x : Answering(r, x)
    PROVE  IInv(chosen)'
<1>1. /\ PinsKept
      /\ \A c \in Custodies : DiskOK(chosen, c)'
      /\ \A a \in Action : Recoverable(a) => Recoverable(a)'
  BY StillDisk, Types
<1>2. ASSUME NEW q \in Procs
      PROVE  ProcOK(chosen, q)' /\ proc'[q] \in Proc
  <2>1. CASE proc' = proc
    <3>1. proc[q].custody # None => disk'[proc[q].custody].retained = disk[proc[q].custody].retained
      BY Types DEF DiskStill, Proc
    <3> QED
      BY <1>1, <2>1, <3>1, CommandKept, Types
  <2>2. CASE \E r \in requests : \E x : Answering(r, x)
    BY <2>2, AnsweredOK
  <2> QED
    BY <2>1, <2>2
<1>3. proc' \in [Procs -> Proc]
  <2>1. CASE proc' = proc
    BY <2>1, Types
  <2>2. CASE \E r \in requests : \E x : Answering(r, x)
    <3>1. DOMAIN proc' = Procs /\ proc' = [q \in Procs |-> proc'[q]]
      BY <2>2, Types DEF Answering, Answered
    <3> QED
      BY <1>2, <3>1
  <2> QED
    BY <2>1, <2>2
<1>4. ASSUME NEW q \in Procs
      PROVE  proc'[q].custody = proc[q].custody
  <2>1. CASE proc' = proc
    BY <2>1
  <2>2. ASSUME NEW r \in requests, NEW x, Answering(r, x)
        PROVE  proc'[q].custody = proc[q].custody
    <3>1. proc' = proc \/ proc' = [proc EXCEPT ![r.from].answer = x]
      BY <2>2 DEF Answering, Answered
    <3>2. proc'[q] = proc[q] \/ proc'[q] = [proc[q] EXCEPT !.answer = x]
      BY <3>1, Types
    <3> QED
      BY <3>2, Types DEF Proc
  <2> QED
    BY <2>1, <2>2
<1>5. Locked'
  BY <1>4, Types DEF IInv, Locked
<1>6. requests' \subseteq requests
  BY DEF Answering, Answered
<1>7. ASSUME NEW s \in requests'
      PROVE  RequestOK(chosen, s)'
  <2>1. s \in requests /\ s \in Request /\ RequestOK(chosen, s) /\ s.action \in Action
    BY <1>6, Types DEF Request
  <2>2. s.from # None => proc'[s.from] = proc[s.from]
    <3>1. CASE proc' = proc
      BY <3>1
    <3>2. ASSUME NEW r \in requests, NEW x, Answering(r, x)
          PROVE  s.from # None => proc'[s.from] = proc[s.from]
      <4>1. s # r /\ r \in Request /\ RequestOK(chosen, r)
        BY <3>2, Types DEF Answering, Answered
      <4>2. s.from # None => s.from # r.from
        BY <2>1, <4>1 DEF Request, RequestOK
      <4> QED
        BY <2>1, <3>2, <4>2, Types DEF Answering, Answered, Request
    <3> QED
      BY <3>1, <3>2
  <2> QED
    BY <1>1, <2>1, <2>2, RequestKept DEF RequestOK
<1>8. LogOK(chosen)'
  <2>1. ASSUME NEW a \in Action, Chosen(chosen, a), Recoverable(a)
        PROVE  Chosen(chosen, a)' /\ Recoverable(a)'
    BY <1>1, <2>1, ChosenKept
  <2>2. ASSUME NEW n \in 1..Len(log)
        PROVE  log[n] \in Action /\ Chosen(chosen, log[n]) /\ Recoverable(log[n])
    BY Types DEF IInv, LogOK, Chosen
  <2>3. OneRecordPerDecision
    BY DEF IInv, LogOK
  <2>4. ASSUME NEW r \in requests
        PROVE  r.action \in Action /\ Chosen(chosen, r.action) /\ Recoverable(r.action)
    BY Types DEF RequestOK, Request
  <2>5. ASSUME NEW a \in Action, NEW n \in 1..Len(log'), log'[n] = a,
               Chosen(chosen, a), Recoverable(a)
        PROVE  Chosen(chosen, log[n])' /\ Recoverable(log[n])'
    BY <2>1, <2>5 DEF Chosen, Recoverable
  <2>6. CASE log' = log
    BY <2>2, <2>3, <2>5, <2>6 DEF LogOK, OneRecordPerDecision
  <2>7. ASSUME NEW r \in requests, log' = Append(log, r.action),
               \A n \in 1..Len(log) : log[n].decision # r.action.decision
        PROVE  LogOK(chosen)'
    <3>1. /\ Len(log') = Len(log) + 1 /\ log'[Len(log) + 1] = r.action
          /\ \A n \in 1..Len(log) : log'[n] = log[n]
      BY <2>4, <2>7, Types
    <3>2. ASSUME NEW n \in 1..Len(log')
          PROVE  Chosen(chosen, log[n])' /\ Recoverable(log[n])'
      <4>1. n \in 1..Len(log) \/ n = Len(log) + 1
        BY <3>1, Types
      <4> QED
        BY <2>2, <2>4, <2>5, <3>1, <4>1
    <3>3. OneRecordPerDecision'
      <4>1. ASSUME NEW m \in 1..Len(log'), NEW n \in 1..Len(log'),
                   log'[m].decision = log'[n].decision
            PROVE  m = n
        <5>1. m \in 1..Len(log) \/ m = Len(log) + 1
          BY <3>1, Types
        <5>2. n \in 1..Len(log) \/ n = Len(log) + 1
          BY <3>1, Types
        <5> QED
          BY <2>3, <2>7, <3>1, <4>1, <5>1, <5>2 DEF OneRecordPerDecision
      <4> QED
        BY <4>1 DEF OneRecordPerDecision
    <3> QED
      BY <3>2, <3>3 DEF LogOK
  <2> QED
    BY <2>6, <2>7 DEF TakesIn
<1>9. \A x \in received' : Stands(x)'
  BY StandsKept, Types DEF IInv
<1>10. TypeOK'
  <2>1. /\ requests' \subseteq Request /\ received' \subseteq Confirmation
        /\ reported' \subseteq received' /\ drawn' \in Positions /\ faults' \in 0..MaxFaults
        /\ published' \in 0..Len(log') /\ disk' \in [Custodies -> Disk]
    BY <1>6, Types, FaultType DEF LogGrows, DiskStill
  <2> QED
    BY <1>3, <2>1 DEF TypeOK
<1> QED
  BY <1>1, <1>2, <1>5, <1>7, <1>8, <1>9, <1>10 DEF IInv

LEMMA ReplaceKeyHolds ==
    ASSUME NEW chosen, IInv(chosen), NEW c \in Custodies, ReplaceKey(c)
    PROVE  IInv(chosen)'
<1>1. PICK k \in Keys : disk' = [disk EXCEPT ![c].key = k]
  BY DEF ReplaceKey
<1>2. DiskStill
  BY <1>1, Types DEF DiskStill, Disk
<1> QED
  BY <1>2, Types, ServiceHolds DEF ReplaceKey, server, said, LogGrows

LEMMA OutageHolds ==
    ASSUME NEW chosen, IInv(chosen), Outage \/ Restored
    PROVE  IInv(chosen)'
<1>1. /\ disk' = disk /\ UNCHANGED <<received, reported, drawn, proc, requests, log>>
      /\ service' \in BOOLEAN /\ (Fault \/ UNCHANGED faults)
      /\ published' = published \/ published' = Len(log)
  BY DEF Outage, Restored, NoFault, said
<1>2. LogGrows /\ published' <= Len(log') /\ log' \in Seq(Action) /\ DiskStill
  BY <1>1, SameDisk, Types DEF LogGrows
<1> QED
  BY <1>1, <1>2, ServiceHolds

LEMMA RefuseHolds ==
    ASSUME NEW chosen, IInv(chosen), NEW r \in requests, Refuse(r)
    PROVE  IInv(chosen)'
<1>1. Answering(r, NotConfirmed) /\ TakesIn(r)
  BY DEF Refuse, Answering, TakesIn, server
<1> QED
  BY <1>1, SameDisk, Types, ServiceHolds DEF Refuse, NoFault, said, server, LogGrows

\* Appending what the log does not hold, and reading what it does hold.
LEMMA AppendOnce ==
    ASSUME NEW chosen, IInv(chosen), NEW r \in requests,
           log' = IF Holds(log, r.action) THEN log ELSE Append(log, r.action)
    PROVE  /\ TakesIn(r) /\ log' \in Seq(Action)
           /\ RecordOf(log', r.action) \in 1..Len(log')
           /\ log'[RecordOf(log', r.action)] = r.action
           /\ Len(log') \in Nat /\ Len(log) <= Len(log') /\ Len(log') <= MaxDecisions
<1> DEFINE a == r.action
<1>1. Chosen(chosen, a) /\ a \in Action
  BY Types DEF RequestOK, Request
<1>2. /\ log \in Seq(Action) /\ OneRecordPerDecision
      /\ \A n \in 1..Len(log) : Chosen(chosen, log[n])
  BY Types DEF IInv, LogOK
<1>3. \A n \in 1..Len(log) : log[n].decision = a.decision => log[n] = a
  BY <1>1, <1>2 DEF Chosen
<1>4. \A n \in 1..Len(log) : SameAct(log[n], a) => log[n] = a
  BY <1>1, <1>2, <1>3 DEF Chosen, SameAct
<1>5. log' \in Seq(Action)
  BY <1>1, <1>2
<1>6. TakesIn(r)
  BY <1>3 DEF TakesIn, Holds, SameAct
<1>7. Len(log') \in Nat /\ Len(log) <= Len(log')
  BY <1>1, <1>2
<1>8. \E n \in 1..Len(log') : SameAct(log'[n], a)
  <2>1. CASE Holds(log, a)
    BY <2>1 DEF Holds
  <2>2. CASE ~Holds(log, a)
    <3>1. Len(log') = Len(log) + 1 /\ log'[Len(log) + 1] = a /\ Len(log) \in Nat
      BY <1>1, <1>2, <2>2
    <3> QED
      BY <3>1 DEF SameAct
  <2> QED
    BY <2>1, <2>2
<1>9. ASSUME NEW n \in 1..Len(log'), SameAct(log'[n], a)
      PROVE  log'[n] = a
  <2>1. n \in 1..Len(log) \/ ~Holds(log, a)
    BY <1>2
  <2>2. CASE Holds(log, a)
    BY <1>4, <1>9, <2>1, <2>2
  <2>3. CASE ~Holds(log, a)
    <3>1. log' = Append(log, a)
      BY <2>3
    <3>2. n \in 1..Len(log) \/ n = Len(log) + 1
      BY <1>1, <1>2, <3>1
    <3>3. /\ \A i \in 1..Len(log) : log'[i] = log[i]
          /\ log'[Len(log) + 1] = a
      BY <1>1, <1>2, <3>1
    <3> QED
      BY <1>4, <1>9, <3>2, <3>3
  <2> QED
    BY <2>2, <2>3
<1>10. RecordOf(log', a) \in 1..Len(log') /\ SameAct(log'[RecordOf(log', a)], a)
  BY <1>8 DEF RecordOf
<1>11. \A m, n \in 1..Len(log') : log'[m].decision = log'[n].decision => m = n
  <2>1. CASE log' = log
    BY <1>2, <2>1 DEF OneRecordPerDecision
  <2>2. CASE /\ log' = Append(log, a)
             /\ \A n \in 1..Len(log) : log[n].decision # a.decision
    <3>1. /\ Len(log') = Len(log) + 1 /\ Len(log) \in Nat
          /\ \A i \in 1..Len(log) : log'[i] = log[i]
          /\ log'[Len(log) + 1] = a
      BY <1>1, <1>2, <2>2
    <3>2. \A n \in 1..Len(log') : n \in 1..Len(log) \/ n = Len(log) + 1
      BY <3>1
    <3> HIDE DEF a
    <3> QED
      BY <1>2, <2>2, <3>1, <3>2 DEF OneRecordPerDecision
  <2> QED
    BY <1>6, <2>1, <2>2 DEF TakesIn
<1>12. Len(log') <= MaxDecisions
  BY <1>5, <1>11, FewRecords
<1> QED
  BY <1>5, <1>6, <1>7, <1>9, <1>10, <1>12

LEMMA SubmitHolds ==
    ASSUME NEW chosen, IInv(chosen), NEW r \in requests, Submit(r)
    PROVE  IInv(chosen)'
<1>1. /\ DiskStill /\ service' \in BOOLEAN /\ UNCHANGED <<received, reported, drawn>>
      /\ r \in Request /\ r.action \in Action
  BY SameDisk, Types DEF Submit, said, Request
<1>2. CASE Reconcile(r)
  <2>1. Answering(r, NotConfirmed) /\ TakesIn(r)
    BY <1>2 DEF Reconcile, Answering, TakesIn
  <2> QED
    BY <1>1, <1>2, <2>1, Types, ServiceHolds DEF Reconcile, NoFault, LogGrows
<1>3. CASE AppendAndConfirm(r)
  <2> DEFINE x == Confirmed(log', r.action)
  <2>1. /\ TakesIn(r) /\ log' \in Seq(Action)
        /\ RecordOf(log', r.action) \in 1..Len(log')
        /\ log'[RecordOf(log', r.action)] = r.action
        /\ Len(log') \in Nat /\ Len(log) <= Len(log') /\ Len(log') <= MaxDecisions
        /\ published = Len(log)
    BY <1>3, AppendOnce DEF AppendAndConfirm
  <2>2. published' \in {published, Len(log')} /\ (Fault \/ UNCHANGED faults)
    BY <1>3 DEF AppendAndConfirm, NoFault
  <2>3. LogGrows /\ published' <= Len(log')
    BY <1>1, <2>1, <2>2, Types DEF LogGrows, TakesIn
  <2>4. \E y : Answering(r, y)
    <3>1. CASE published' = Len(log') /\ Answered(r, x)
      <4>1. PICK y : y = x
        OBVIOUS
      <4>2. /\ y.action = r.action /\ y.at = RecordOf(log', r.action)
            /\ y.effective = Decision(log', y.at) /\ y.effective \in BOOLEAN
            /\ y = [action |-> y.action, at |-> y.at, effective |-> y.effective]
        BY <4>1 DEF Confirmed, Decision
      <4>3. y \in Confirmation
        BY <1>1, <2>1, <4>2, BoundsAssumption DEF Confirmation, Decisions
      <4>4. Stands(y)'
        BY <2>1, <3>1, <4>2, <4>3 DEF Stands
      <4> QED
        BY <3>1, <4>1, <4>2, <4>3, <4>4 DEF Answering
    <3>2. CASE Answered(r, NotConfirmed)
      BY <3>2 DEF Answering
    <3> QED
      BY <1>3, <3>1, <3>2 DEF AppendAndConfirm
  <2> QED
    BY <1>1, <2>1, <2>2, <2>3, <2>4, ServiceHolds
<1> QED
  BY <1>2, <1>3 DEF Submit

-----------------------------------------------------------------------------
(* The invariant.                                                          *)

LEMMA InitInv == Init => Inv
<1> SUFFICES ASSUME Init PROVE Inv
  OBVIOUS
<1> DEFINE none == [d \in Decisions |-> None]
<1>1. none \in Choices
  BY DEF Choices
<1>2. /\ disk \in [Custodies -> Disk] /\ \A c \in Custodies : disk[c].retained = None
  BY DEF Init, Disk
<1>3. /\ proc \in [Procs -> Proc] /\ \A p \in Procs : proc[p] = Idle
  BY IdleType DEF Init
<1>4. /\ requests = {} /\ log = <<>> /\ published = 0 /\ received = {} /\ reported = {}
      /\ drawn = 0 /\ faults = 0 /\ service = TRUE
  BY DEF Init
<1>5. TypeOK
  BY <1>2, <1>3, <1>4, BoundsAssumption DEF TypeOK, Positions
<1>6. ASSUME NEW p \in Procs
      PROVE  ProcOK(none, p)
  <2>1. proc[p] = Idle /\ proc[p].pc = "idle" /\ proc[p].answer = None
    BY <1>3 DEF Idle
  <2> QED
    BY <2>1 DEF ProcOK, At, Deciding, Holding, Replied
<1>7. Locked
  BY <1>3, IdleType DEF Locked
<1> HIDE DEF none
<1>8. IInv(none)
  BY <1>2, <1>4, <1>5, <1>6, <1>7 DEF IInv, DiskOK, LogOK, OneRecordPerDecision
<1> QED
  BY <1>1, <1>8 DEF Inv

LEMMA StepInv == Inv /\ [Next]_vars => Inv'
<1> SUFFICES ASSUME Inv, [Next]_vars PROVE Inv'
  OBVIOUS
<1>1. PICK chosen \in Choices : IInv(chosen)
  BY DEF Inv
<1>2. SUFFICES ASSUME ~ \E p \in Procs : Choose(p)
               PROVE  IInv(chosen)'
  <2>1. CASE \E p \in Procs : Choose(p)
    BY <1>1, <2>1, ChooseHolds
  <2>2. CASE ~ \E p \in Procs : Choose(p)
    BY <1>1, <2>2 DEF Inv, Choices
  <2> QED
    BY <2>1, <2>2
<1>3. ASSUME NEW p \in Procs, NEW c \in Custodies, Open(p, c)
      PROVE  IInv(chosen)'
  BY <1>1, <1>3, OpenHolds
<1>4. ASSUME NEW p \in Procs, Proceed(p)
      PROVE  IInv(chosen)'
  <2>1. CASE Pinned(p) \/ Retained(p)
    BY <1>1, <2>1, PinnedHolds
  <2>2. CASE Resume(p)
    BY <1>1, <2>2, ResumeHolds
  <2>3. CASE Leave(p)
    BY <1>1, <2>3, LeaveHolds
  <2>4. CASE Prepare(p)
    BY <1>1, <2>4, PrepareHolds
  <2>5. CASE Retain(p)
    BY <1>1, <2>5, RetainHolds
  <2>6. CASE Send(p)
    BY <1>1, <2>6, SendHolds
  <2>7. CASE TimeOut(p)
    BY <1>1, <2>7, TimeOutHolds
  <2>8. CASE Receive(p)
    BY <1>1, <2>8, ReceiveHolds
  <2>9. CASE Clear(p)
    BY <1>1, <2>9, ClearHolds
  <2>10. CASE Report(p)
    BY <1>1, <2>10, ReportHolds
  <2> QED
    BY <1>2, <1>4, <2>1, <2>2, <2>3, <2>4, <2>5, <2>6, <2>7, <2>8, <2>9, <2>10 DEF Proceed
<1>5. ASSUME NEW p \in Procs, Cancel(p) \/ Kill(p)
      PROVE  IInv(chosen)'
  BY <1>1, <1>5, CancelHolds, KillHolds
<1>6. ASSUME NEW c \in Custodies, ReplaceKey(c)
      PROVE  IInv(chosen)'
  BY <1>1, <1>6, ReplaceKeyHolds
<1>7. CASE Serve
  BY <1>1, <1>7, SubmitHolds, RefuseHolds DEF Serve
<1>8. CASE Outage \/ Restored
  BY <1>1, <1>8, OutageHolds
<1>9. CASE UNCHANGED vars
  <2>1. /\ DiskStill /\ UNCHANGED <<received, reported, drawn, proc, requests, log>>
        /\ LogGrows /\ log' \in Seq(Action) /\ published' <= Len(log')
        /\ service' \in BOOLEAN /\ UNCHANGED faults
    BY <1>1, <1>9, SameDisk, Types DEF vars, LogGrows
  <2> QED
    BY <1>1, <2>1, ServiceHolds
<1> QED
  BY <1>3, <1>4, <1>5, <1>6, <1>7, <1>8, <1>9 DEF Next

LEMMA Invariance == Spec => []Inv
<1>1. Init => Inv
  BY InitInv
<1>2. Inv /\ [Next]_vars => Inv'
  BY StepInv
<1> QED
  BY <1>1, <1>2, PTL DEF Spec

-----------------------------------------------------------------------------
(* The theorems.                                                           *)

\* Every variable keeps its type; in particular mutate never submits a third
\* time, and the log never holds more records than decisions were drawn.
THEOREM TypeCorrect == Spec => []TypeOK
<1>1. Inv => TypeOK
  BY DEF Inv, IInv
<1> QED
  BY <1>1, Invariance, PTL

\* Whatever is under way or appended is retained by its custody until a command
\* has seen its confirmation, for any number of commands and key paths.
THEOREM OutcomeRecoverableHolds == Spec => []OutcomeRecoverable
<1>1. Inv => OutcomeRecoverable
  <2> SUFFICES ASSUME NEW chosen, IInv(chosen), NEW a \in Outstanding \cup Recorded
               PROVE  disk[a.custody].retained = a \/ a \in Settled
    BY DEF Inv, OutcomeRecoverable
  <2>1. Recoverable(a)
    BY DEF IInv, Outstanding, Recorded, RequestOK, LogOK
  <2> QED
    BY <2>1 DEF Recoverable, Settled
<1> QED
  BY <1>1, Invariance, PTL

\* However often a decision is submitted and retried, it has one record.
THEOREM OneRecordPerDecisionHolds == Spec => []OneRecordPerDecision
<1>1. Inv => OneRecordPerDecision
  BY DEF Inv, IInv, LogOK
<1> QED
  BY <1>1, Invariance, PTL

\* All that one key path submits is signed by the key it has pinned, whoever
\* replaces the key file and however the commands interleave.
THEOREM OneIdentityPerCustodyHolds == Spec => []OneIdentityPerCustody
<1>1. Inv => OneIdentityPerCustody
  <2> SUFFICES ASSUME NEW chosen, IInv(chosen)
               PROVE  \A a \in Outstanding \cup Recorded : disk[a.custody].pin = a.by
    BY DEF Inv, OneIdentityPerCustody
  <2> QED
    BY DEF IInv, Outstanding, Recorded, RequestOK, LogOK, Chosen
<1> QED
  BY <1>1, Invariance, PTL

\* What a command was told of its action stays true of the published log.
THEOREM SettledStandsHolds == Spec => []SettledStands
<1>1. Inv => SettledStands
  BY DEF Inv, IInv, SettledStands, Stands
<1> QED
  BY <1>1, Invariance, PTL

-----------------------------------------------------------------------------
(* The refinement.                                                         *)

\* An action is taken in behind published ones only, and may be published at once.
InOrder ==
    /\ published' \in {published, Len(log')}
    /\ log' = log \/ published = Len(log)

\* A step lets the log grow, or a command hear of a published action.
LEMMA LogStep ==
    ASSUME NEW chosen, IInv(chosen), [Next]_vars
    PROVE  \/ /\ LogGrows /\ InOrder /\ log' \in Seq(Action) /\ published' <= Len(log')
              /\ received' = received
           \/ /\ UNCHANGED <<log, published>>
              /\ \E x \in Confirmation : Stands(x) /\ received' = received \cup {x}
<1> DEFINE Grown == /\ LogGrows /\ InOrder /\ log' \in Seq(Action) /\ published' <= Len(log')
                    /\ received' = received
<1>1. ASSUME UNCHANGED <<log, published, received>>
      PROVE  Grown
  BY <1>1, Types DEF LogGrows, InOrder
<1>2. ASSUME NEW p \in Procs, NEW c \in Custodies, Open(p, c)
      PROVE  Grown
  BY <1>1, <1>2 DEF Open, Enter, server, said
<1>3. ASSUME NEW p \in Procs, Receive(p)
      PROVE  \/ Grown
             \/ /\ UNCHANGED <<log, published>>
                /\ \E x \in Confirmation : Stands(x) /\ received' = received \cup {x}
  <2>1. CASE UNCHANGED received
    BY <1>1, <1>3, <2>1 DEF Receive, server
  <2>2. CASE Replied(p) /\ received' = received \cup {proc[p].answer}
    BY <1>3, <2>2, Types DEF Receive, server, ProcOK, Stands
  <2> QED
    BY <1>3, <2>1, <2>2 DEF Receive, Replied
<1>4. ASSUME NEW p \in Procs, Proceed(p), ~Receive(p)
      PROVE  Grown
  BY <1>1, <1>4 DEF Proceed, Pinned, Choose, Resume, Leave, Prepare, Retain, Retained,
                    Send, TimeOut, Clear, Report, server, said
<1>5. ASSUME NEW p \in Procs, Cancel(p) \/ Kill(p)
      PROVE  Grown
  BY <1>1, <1>5 DEF Cancel, Kill, server, said
<1>6. ASSUME NEW c \in Custodies, ReplaceKey(c)
      PROVE  Grown
  BY <1>1, <1>6 DEF ReplaceKey, server, said
<1>7. ASSUME NEW r \in requests, Submit(r) \/ Refuse(r)
      PROVE  Grown
  <2>1. CASE Refuse(r)
    BY <1>1, <2>1 DEF Refuse, server, said
  <2>2. CASE Submit(r) /\ Reconcile(r)
    BY <2>2, Types DEF Submit, Reconcile, said, LogGrows, InOrder
  <2>3. CASE Submit(r) /\ AppendAndConfirm(r)
    <3>1. /\ TakesIn(r) /\ log' \in Seq(Action) /\ Len(log') \in Nat /\ Len(log) <= Len(log')
          /\ published = Len(log)
      BY <2>3, AppendOnce DEF AppendAndConfirm
    <3>2. r.action \in Action /\ published' \in {published, Len(log')} /\ received' = received
      BY <2>3, Types DEF Submit, AppendAndConfirm, said, Request
    <3> QED
      BY <3>1, <3>2, Types DEF LogGrows, InOrder, TakesIn
  <2> QED
    BY <1>7, <2>1, <2>2, <2>3 DEF Submit
<1>8. CASE Outage \/ Restored
  <2>1. received' = received /\ log' = log /\ (published' = published \/ published' = Len(log))
    BY <1>8 DEF Outage, Restored, said
  <2> QED
    BY <2>1, Types DEF LogGrows, InOrder
<1>9. CASE UNCHANGED vars
  BY <1>1, <1>9 DEF vars
<1> QED
  BY <1>2, <1>3, <1>4, <1>5, <1>6, <1>7, <1>8, <1>9 DEF Next, Serve

\* What is published of a log that grew: all of it, or what was published before.
LEMMA PublishedMoves ==
    ASSUME NEW s \in Seq(Action), NEW t \in Seq(Action), NEW m \in Nat, NEW n \in Nat,
           m <= Len(s), n \in {m, Len(t)}, n <= Len(t), Promise!Ancestor(s, t)
    PROVE  /\ Prefix(t, n) \in {Prefix(s, m), t}
           /\ Promise!Ancestor(Prefix(t, n), t)
           /\ m = Len(s) => Prefix(s, m) = s
           /\ m <= n => Promise!Ancestor(Prefix(s, m), Prefix(t, n))
<1>1. /\ Prefix(s, m) \in Seq(Action) /\ Len(Prefix(s, m)) = m
      /\ \A i \in 1..m : Prefix(s, m)[i] = s[i]
  BY PrefixType
<1>2. /\ Prefix(t, n) \in Seq(Action) /\ Len(Prefix(t, n)) = n
      /\ \A i \in 1..n : Prefix(t, n)[i] = t[i]
  BY PrefixType
<1>3. /\ Len(s) \in Nat /\ Len(t) \in Nat /\ Len(s) <= Len(t)
      /\ \A i \in 1..Len(s) : s[i] = t[i]
  BY DEF Promise!Ancestor
<1>4. m = Len(s) => Prefix(s, m) = s
  BY <1>1, SeqEqual
<1>5. n = Len(t) => Prefix(t, n) = t
  BY <1>2, SeqEqual
<1>6. n = m => Prefix(t, n) = Prefix(s, m)
  <2>1. ASSUME n = m
        PROVE  \A i \in 1..m : Prefix(t, n)[i] = Prefix(s, m)[i]
    BY <1>1, <1>2, <1>3, <2>1
  <2> QED
    BY <1>1, <1>2, <2>1, SeqEqual
<1>7. Promise!Ancestor(Prefix(t, n), t)
  BY <1>2 DEF Promise!Ancestor
<1>8. m <= n => Promise!Ancestor(Prefix(s, m), Prefix(t, n))
  <2>1. ASSUME m <= n, NEW i \in 1..m
        PROVE  Prefix(s, m)[i] = Prefix(t, n)[i]
    <3>1. i \in 1..n /\ i \in 1..Len(s)
      BY <1>3, <2>1
    <3> QED
      BY <1>1, <1>2, <1>3, <3>1
  <2> QED
    BY <1>1, <1>2, <2>1 DEF Promise!Ancestor
<1> QED
  BY <1>4, <1>5, <1>6, <1>7, <1>8

\* The service keeps the promise of the confirmed log towards any number of
\* agents: an action is taken in only behind published ones, what is published
\* stays, and what a command was told is published.
THEOREM KeepsPromiseHolds == Spec => KeepsPromise
<1>1. Init => Promise!Init
  BY DEF Init, Promise!Init, Prefix, Settled
<1>2. Inv /\ [Next]_vars => [Promise!Next]_(Promise!vars)
  <2> SUFFICES ASSUME NEW chosen, IInv(chosen), [Next]_vars
               PROVE  [Promise!Next]_(Promise!vars)
    BY DEF Inv
  <2> DEFINE s == Prefix(log, published)
             t == Prefix(log, published)'
  <2>1. /\ s \in Seq(Action) /\ Len(s) = published
        /\ \A i \in 1..published : s[i] = log[i]
    BY Types, PrefixType
  <2>2. CASE /\ LogGrows /\ InOrder /\ log' \in Seq(Action) /\ published' <= Len(log')
             /\ received' = received
    <3>1. Promise!Ancestor(log, log') /\ published <= published'
      BY <2>2, Types DEF Promise!Ancestor, LogGrows
    <3>2. PICK l \in Seq(Action), n \in Nat : l = log' /\ n = published' /\ n <= Len(l)
      BY <2>2 DEF LogGrows
    <3>3. /\ t = Prefix(l, n) /\ n \in {published, Len(l)}
          /\ Promise!Ancestor(log, l) /\ published <= n
      BY <2>2, <3>1, <3>2 DEF Prefix, InOrder
    <3>4. /\ Prefix(l, n) \in {s, l} /\ Promise!Ancestor(Prefix(l, n), l)
          /\ published = Len(log) => s = log
          /\ Promise!Ancestor(s, Prefix(l, n))
      BY <3>2, <3>3, Types, PublishedMoves
    <3>5. Prefix(l, n) \in Seq(Action)
      BY <3>2, PrefixType
    <3>6. /\ t \in {s, log'} /\ t \in Seq(Action)
          /\ Promise!Ancestor(t, log') /\ Promise!Ancestor(s, t)
          /\ published = Len(log) => s = log
      BY <3>2, <3>3, <3>4, <3>5
    <3>7. Settled' = Settled
      BY <2>2 DEF Settled
    <3>8. CASE log' = log
      <4>1. Promise!Publish
        BY <3>6, <3>7, <3>8 DEF Promise!Publish
      <4> QED
        BY <4>1 DEF Promise!Next
    <3>9. CASE log' # log
      <4>1. PICK a \in Action : log' = Append(log, a)
        BY <2>2, <3>9 DEF LogGrows
      <4>2. s = log
        BY <2>2, <3>6, <3>9 DEF InOrder
      <4>3. Promise!Take(a)
        BY <3>6, <3>7, <4>1, <4>2 DEF Promise!Take
      <4> QED
        BY <4>3 DEF Promise!Next
    <3> QED
      BY <3>8, <3>9
  <2>3. ASSUME UNCHANGED <<log, published>>,
               NEW x \in Confirmation, Stands(x), received' = received \cup {x}
        PROVE  [Promise!Next]_(Promise!vars)
    <3>1. x.action \in Action /\ x.at \in 1..published
      BY <2>3, Types DEF Confirmation, Stands, Decisions
    <3>2. Promise!Holds(s, x.action)
      <4>1. s[x.at] = x.action /\ x.at \in 1..Len(s)
        BY <2>1, <2>3, <3>1 DEF Stands
      <4> HIDE DEF s
      <4> QED
        BY <4>1 DEF Promise!Holds
    <3>3. Settled' = Settled \cup {x.action}
      BY <2>3 DEF Settled
    <3>4. t = s
      BY <2>3 DEF Prefix
    <3>5. Promise!Acknowledge(x.action)
      BY <2>3, <3>2, <3>3, <3>4 DEF Promise!Acknowledge
    <3> QED
      BY <3>1, <3>5 DEF Promise!Next
  <2> QED
    BY <2>2, <2>3, LogStep
<1> QED
  BY <1>1, <1>2, Invariance, PTL DEF Spec, KeepsPromise, Promise!Spec
=============================================================================
