-------------------------- MODULE KeyCustodyProofs --------------------------
(***************************************************************************)
(* Theorems of KeyCustody for any number of commands, files and faults.    *)
(***************************************************************************)
EXTENDS KeyCustody, TLAPS

-----------------------------------------------------------------------------
(* The inductive invariant.                                                *)

Making  == {"secure", "write", "sync", "link", "remove"}
Looking == {"lookup", "open"}

\* How far the command's own file is at each step of publishKey.
FileReady(p) ==
    /\ own[p] \in Files => contents[own[p]] # "none"
    /\ step[p] \in Making => own[p] \in Files
    /\ step[p] \in {"write", "sync", "link"} => own[p] \in exact
    /\ step[p] \in {"sync", "link"} => contents[own[p]] = "whole"
    /\ step[p] = "link" => own[p] \in synced

\* What the command knows: it has looked a file up before opening it, ends with
\* a file if with anything, and has none before it ends.
Informed(p) ==
    /\ step[p] = "open" => seen[p] \in Files
    /\ returned[p] # Missing => returned[p] \in Files
    /\ step[p] \notin {"idle", "ended"} => returned[p] = Missing

\* Only a command that removed its temporary name, or had none, goes on to read.
Tidy(p) ==
    /\ step[p] \in {"stat", "mkdir", "made", "adopt"} => own[p] = Missing
    /\ step[p] \in Looking \/ returned[p] # Missing => own[p] \notin temporary

\* What the command takes for the key is the key.
Agreed(p) ==
    /\ returned[p] # Missing => returned[p] = named
    /\ step[p] = "open" => seen[p] = named
    /\ step[p] = "remove" /\ outcome[p] = "linked" => own[p] = named

NamedIsSafe ==
    named \in Files => contents[named] = "whole" /\ named \in exact /\ named \in synced

IInv ==
    /\ TypeOK
    /\ NamedIsSafe
    /\ \A p \in Processes : FileReady(p) /\ Informed(p) /\ Tidy(p)
    /\ ~disturbed => \A p \in Processes : Agreed(p)

-----------------------------------------------------------------------------
LEMMA Names == Missing \notin Files /\ Elsewhere \notin Files /\ Link \notin Files
               /\ Link # Missing /\ Elsewhere # Missing /\ Link # Elsewhere
BY BoundsAssumption DEF Missing, Files, Elsewhere, Link

LEMMA InitInv == Init => IInv
<1> SUFFICES ASSUME Init PROVE IInv
  OBVIOUS
<1>1. TypeOK
  <2>1. faults \in 0..MaxFaults
    BY BoundsAssumption DEF Init
  <2>2. job \in [Processes -> Job]
    BY DEF Init, Job, Jobs
  <2>3. contents \in [Files -> {"none", "empty", "whole", "torn"}]
    BY DEF Init
  <2> QED
    BY <2>1, <2>2, <2>3 DEF Init, TypeOK
<1>2. NamedIsSafe
  BY Names DEF Init, NamedIsSafe
<1>3. ASSUME NEW p \in Processes
      PROVE  FileReady(p) /\ Informed(p) /\ Tidy(p) /\ Agreed(p)
  <2>1. own[p] = Missing /\ returned[p] = Missing /\ step[p] = "idle" /\ outcome[p] = "none"
    BY DEF Init
  <2> QED
    BY <2>1, Names DEF FileReady, Informed, Tidy, Agreed, Making, Looking
<1> QED
  BY <1>1, <1>2, <1>3 DEF IInv

-----------------------------------------------------------------------------
(* What one command's step leaves alone.                                   *)

\* Files are only made, secured, written and synced, and only a new file gets
\* a temporary name.
FilesOnlyAdvance ==
    /\ \A f \in Files : /\ contents[f] # "none" => contents'[f] # "none"
                        /\ contents[f] = "whole" => contents'[f] = "whole"
                        /\ contents[f] # "none" /\ f \notin temporary => f \notin temporary'
    /\ exact \subseteq exact'
    /\ synced \subseteq synced'
    /\ temporary' \subseteq Files

Idles(q) ==
    /\ step'[q] = step[q] /\ own'[q] = own[q] /\ seen'[q] = seen[q]
    /\ outcome'[q] = outcome[q] /\ returned'[q] = returned[q]

Alone(p) == \A q \in Processes \ {p} : Idles(q)

LEMMA IdlesKept ==
    ASSUME IInv, NEW q \in Processes, Idles(q), FilesOnlyAdvance
    PROVE  FileReady(q)' /\ Informed(q)' /\ Tidy(q)'
<1>1. FileReady(q) /\ Informed(q) /\ Tidy(q) /\ own[q] \in Files \cup {Missing}
  BY DEF IInv, TypeOK
<1>2. FileReady(q)'
  BY <1>1 DEF FileReady, Idles, FilesOnlyAdvance, Making
<1>3. Informed(q)'
  BY <1>1 DEF Informed, Idles
<1>4. Tidy(q)'
  BY <1>1, Names DEF Tidy, Idles, FilesOnlyAdvance, FileReady
<1> QED
  BY <1>2, <1>3, <1>4

\* A step of one command that leaves the key's name alone keeps the invariant
\* if that command keeps its part of it.
LEMMA CommandStep ==
    ASSUME IInv, NEW p \in Processes, TypeOK', FilesOnlyAdvance, Alone(p),
           named' = named, disturbed' = disturbed,
           FileReady(p)', Informed(p)', Tidy(p)', ~disturbed => Agreed(p)'
    PROVE  IInv'
<1>1. NamedIsSafe'
  BY Names DEF IInv, NamedIsSafe, FilesOnlyAdvance
<1>2. ASSUME NEW q \in Processes
      PROVE  /\ FileReady(q)' /\ Informed(q)' /\ Tidy(q)'
             /\ ~disturbed' => Agreed(q)'
  <2>1. CASE q = p
    BY <2>1
  <2>2. CASE q # p
    <3>1. Idles(q)
      BY <2>2 DEF Alone
    <3>2. ~disturbed' => Agreed(q)'
      BY <3>1 DEF IInv, Agreed, Idles
    <3> QED
      BY <3>1, <3>2, IdlesKept
  <2> QED
    BY <2>1, <2>2
<1> QED
  BY <1>1, <1>2 DEF IInv

LEMMA SameDisk ==
    ASSUME TypeOK, UNCHANGED disk
    PROVE  FilesOnlyAdvance /\ named' = named
BY DEF disk, FilesOnlyAdvance, TypeOK

-----------------------------------------------------------------------------
(* The steps.                                                              *)

LEMMA StartInv ==
    ASSUME IInv, NEW p \in Processes, NEW for \in Jobs, NEW withKey \in BOOLEAN, Start(p, for, withKey)
    PROVE  IInv'
<1>1. TypeOK'
  <2>1. [does |-> for, keyed |-> withKey] \in Job
    BY DEF Job
  <2>2. job' \in [Processes -> Job]
    BY <2>1 DEF Start, IInv, TypeOK
  <2> QED
    BY <2>2, Names, BoundsAssumption DEF Start, IInv, TypeOK, disk
<1>2. FilesOnlyAdvance /\ named' = named /\ disturbed' = disturbed
  BY SameDisk DEF Start, IInv
<1>3. Alone(p)
  BY DEF Start, Alone, Idles, IInv, TypeOK
<1>4. FileReady(p)'
  BY Names DEF Start, disk, IInv, TypeOK, FileReady, Making
<1>5. Informed(p)'
  BY Names DEF Start, disk, IInv, TypeOK, Informed
<1>6. Tidy(p)'
  BY Names DEF Start, disk, IInv, TypeOK, Tidy, Informed, Looking
<1>7. ~disturbed => Agreed(p)'
  BY Names DEF Start, disk, IInv, TypeOK, Agreed, Informed
<1> QED
  BY <1>1, <1>2, <1>3, <1>4, <1>5, <1>6, <1>7, CommandStep

LEMMA StatDirectoryInv ==
    ASSUME IInv, NEW p \in Processes, NEW from \in {"stat", "made"}, StatDirectory(p, from)
    PROVE  IInv'
<1>1. TypeOK'
  BY Names, BoundsAssumption DEF StatDirectory, At, Return, Fail, control, IInv, TypeOK, disk
<1>2. FilesOnlyAdvance /\ named' = named /\ disturbed' = disturbed
  BY SameDisk DEF StatDirectory, IInv
<1>3. Alone(p)
  BY DEF StatDirectory, At, Return, Fail, control, Alone, Idles, IInv, TypeOK
<1>4. FileReady(p)'
  BY Names DEF StatDirectory, At, Return, Fail, control, disk, IInv, TypeOK, FileReady, Making
<1>5. Informed(p)'
  BY Names DEF StatDirectory, At, Return, Fail, control, disk, IInv, TypeOK, Informed
<1>6. Tidy(p)'
  BY Names DEF StatDirectory, At, Return, Fail, control, disk, IInv, TypeOK, Tidy, Informed, Looking
<1>7. ~disturbed => Agreed(p)'
  BY Names DEF StatDirectory, At, Return, Fail, control, disk, IInv, TypeOK, Agreed, Informed
<1> QED
  BY <1>1, <1>2, <1>3, <1>4, <1>5, <1>6, <1>7, CommandStep

LEMMA MakeDirectoryInv ==
    ASSUME IInv, NEW p \in Processes, MakeDirectory(p)
    PROVE  IInv'
<1>1. TypeOK'
  BY Names, BoundsAssumption DEF MakeDirectory, At, control, IInv, TypeOK, disk
<1>2. FilesOnlyAdvance /\ named' = named /\ disturbed' = disturbed
  BY DEF MakeDirectory, At, control, FilesOnlyAdvance, IInv, TypeOK
<1>3. Alone(p)
  BY DEF MakeDirectory, At, control, Alone, Idles, IInv, TypeOK
<1>4. FileReady(p)'
  BY Names DEF MakeDirectory, At, control, disk, IInv, TypeOK, FileReady, Making
<1>5. Informed(p)'
  BY Names DEF MakeDirectory, At, control, disk, IInv, TypeOK, Informed
<1>6. Tidy(p)'
  BY Names DEF MakeDirectory, At, control, disk, IInv, TypeOK, Tidy, Informed, Looking
<1>7. ~disturbed => Agreed(p)'
  BY Names DEF MakeDirectory, At, control, disk, IInv, TypeOK, Agreed, Informed
<1> QED
  BY <1>1, <1>2, <1>3, <1>4, <1>5, <1>6, <1>7, CommandStep

LEMMA AdoptDirectoryInv ==
    ASSUME IInv, NEW p \in Processes, AdoptDirectory(p)
    PROVE  IInv'
<1>1. TypeOK'
  BY Names, BoundsAssumption DEF AdoptDirectory, At, Return, Fail, control, IInv, TypeOK, disk
<1>2. FilesOnlyAdvance /\ named' = named /\ disturbed' = disturbed
  BY SameDisk DEF AdoptDirectory, IInv
<1>3. Alone(p)
  BY DEF AdoptDirectory, At, Return, Fail, control, Alone, Idles, IInv, TypeOK
<1>4. FileReady(p)'
  BY Names DEF AdoptDirectory, At, Return, Fail, control, disk, IInv, TypeOK, FileReady, Making
<1>5. Informed(p)'
  BY Names DEF AdoptDirectory, At, Return, Fail, control, disk, IInv, TypeOK, Informed
<1>6. Tidy(p)'
  BY Names DEF AdoptDirectory, At, Return, Fail, control, disk, IInv, TypeOK, Tidy, Informed, Looking
<1>7. ~disturbed => Agreed(p)'
  BY Names DEF AdoptDirectory, At, Return, Fail, control, disk, IInv, TypeOK, Agreed, Informed
<1> QED
  BY <1>1, <1>2, <1>3, <1>4, <1>5, <1>6, <1>7, CommandStep

LEMMA LookUpInv ==
    ASSUME IInv, NEW p \in Processes, LookUp(p)
    PROVE  IInv'
<1>1. TypeOK'
  BY Names, BoundsAssumption DEF LookUp, At, Return, Fail, control, IInv, TypeOK, disk
<1>2. FilesOnlyAdvance /\ named' = named /\ disturbed' = disturbed
  BY SameDisk DEF LookUp, IInv
<1>3. Alone(p)
  BY DEF LookUp, At, Return, Fail, control, Alone, Idles, IInv, TypeOK
<1>4. FileReady(p)'
  BY Names DEF LookUp, At, Return, Fail, control, disk, IInv, TypeOK, FileReady, Making
<1>5. Informed(p)'
  BY Names DEF LookUp, At, Return, Fail, control, disk, IInv, TypeOK, Informed
<1>6. Tidy(p)'
  BY Names DEF LookUp, At, Return, Fail, control, disk, IInv, TypeOK, Tidy, Informed, Looking
<1>7. ~disturbed => Agreed(p)'
  BY Names DEF LookUp, At, Return, Fail, control, disk, IInv, TypeOK, Agreed, Informed
<1> QED
  BY <1>1, <1>2, <1>3, <1>4, <1>5, <1>6, <1>7, CommandStep

LEMMA OpenKeyInv ==
    ASSUME IInv, NEW p \in Processes, OpenKey(p)
    PROVE  IInv'
<1>1. TypeOK'
  BY Names, BoundsAssumption DEF OpenKey, At, Return, Fail, control, Opened, IInv, TypeOK, disk
<1>2. FilesOnlyAdvance /\ named' = named /\ disturbed' = disturbed
  BY SameDisk DEF OpenKey, IInv
<1>3. Alone(p)
  BY DEF OpenKey, At, Return, Fail, control, Opened, Alone, Idles, IInv, TypeOK
<1>4. FileReady(p)'
  BY Names DEF OpenKey, At, Return, Fail, control, Opened, disk, IInv, TypeOK, FileReady, Making
<1>5. Informed(p)'
  BY Names DEF OpenKey, At, Return, Fail, control, Opened, disk, IInv, TypeOK, Informed
<1>6. Tidy(p)'
  BY Names DEF OpenKey, At, Return, Fail, control, Opened, disk, IInv, TypeOK, Tidy, Informed, Looking
<1>7. ~disturbed => Agreed(p)'
  BY Names DEF OpenKey, At, Return, Fail, control, Opened, disk, IInv, TypeOK, Agreed, Informed
<1> QED
  BY <1>1, <1>2, <1>3, <1>4, <1>5, <1>6, <1>7, CommandStep

LEMMA CreateTemporaryInv ==
    ASSUME IInv, NEW p \in Processes, CreateTemporary(p)
    PROVE  IInv'
<1>1. PICK f \in Files :
         /\ contents[f] = "none"
         /\ At(p, "create", "secure")
         /\ contents' = [contents EXCEPT ![f] = "empty"]
         /\ temporary' = temporary \cup {f}
         /\ own' = [own EXCEPT ![p] = f]
         /\ UNCHANGED <<directory, named, exact, synced, job, seen, outcome, returned,
                        faults, disturbed>>
  BY DEF CreateTemporary
<1>2. TypeOK'
  BY <1>1 DEF At, IInv, TypeOK
<1>3. FilesOnlyAdvance
  BY <1>1 DEF FilesOnlyAdvance, IInv, TypeOK
<1>4. Alone(p)
  BY <1>1 DEF At, Alone, Idles, IInv, TypeOK
<1>5. own'[p] = f /\ contents'[f] = "empty" /\ step'[p] = "secure" /\ returned'[p] = Missing
  BY <1>1 DEF At, IInv, TypeOK, Informed
<1>6. FileReady(p)' /\ Informed(p)' /\ Tidy(p)' /\ Agreed(p)'
  BY <1>5 DEF FileReady, Informed, Tidy, Agreed, Making, Looking
<1> QED
  BY <1>1, <1>2, <1>3, <1>4, <1>6, CommandStep

LEMMA SecureTemporaryInv ==
    ASSUME IInv, NEW p \in Processes, SecureTemporary(p)
    PROVE  IInv'
<1>0. own[p] \in Files
  BY DEF SecureTemporary, At, IInv, FileReady, Making
<1>1. TypeOK'
  BY <1>0, BoundsAssumption DEF SecureTemporary, At, control, IInv, TypeOK, disk
<1>2. FilesOnlyAdvance /\ named' = named /\ disturbed' = disturbed
  BY DEF SecureTemporary, At, control, FilesOnlyAdvance, IInv, TypeOK
<1>3. Alone(p)
  BY DEF SecureTemporary, At, control, Alone, Idles, IInv, TypeOK
<1>4. FileReady(p)'
  BY Names DEF SecureTemporary, At, control, disk, IInv, TypeOK, FileReady, Making
<1>5. Informed(p)'
  BY Names DEF SecureTemporary, At, control, disk, IInv, TypeOK, Informed
<1>6. Tidy(p)'
  BY Names DEF SecureTemporary, At, control, disk, IInv, TypeOK, Tidy, Informed, Looking
<1>7. ~disturbed => Agreed(p)'
  BY Names DEF SecureTemporary, At, control, disk, IInv, TypeOK, Agreed, Informed
<1> QED
  BY <1>1, <1>2, <1>3, <1>4, <1>5, <1>6, <1>7, CommandStep

LEMMA WriteTemporaryInv ==
    ASSUME IInv, NEW p \in Processes, WriteTemporary(p)
    PROVE  IInv'
<1>1. TypeOK'
  BY Names, BoundsAssumption DEF WriteTemporary, At, control, IInv, TypeOK, disk
<1>2. FilesOnlyAdvance /\ named' = named /\ disturbed' = disturbed
  BY DEF WriteTemporary, At, control, FilesOnlyAdvance, IInv, TypeOK
<1>3. Alone(p)
  BY DEF WriteTemporary, At, control, Alone, Idles, IInv, TypeOK
<1>4. FileReady(p)'
  BY Names DEF WriteTemporary, At, control, disk, IInv, TypeOK, FileReady, Making
<1>5. Informed(p)'
  BY Names DEF WriteTemporary, At, control, disk, IInv, TypeOK, Informed
<1>6. Tidy(p)'
  BY Names DEF WriteTemporary, At, control, disk, IInv, TypeOK, Tidy, Informed, Looking
<1>7. ~disturbed => Agreed(p)'
  BY Names DEF WriteTemporary, At, control, disk, IInv, TypeOK, Agreed, Informed
<1> QED
  BY <1>1, <1>2, <1>3, <1>4, <1>5, <1>6, <1>7, CommandStep

LEMMA SyncTemporaryInv ==
    ASSUME IInv, NEW p \in Processes, SyncTemporary(p)
    PROVE  IInv'
<1>0. own[p] \in Files
  BY DEF SyncTemporary, At, IInv, FileReady, Making
<1>1. TypeOK'
  BY <1>0, BoundsAssumption DEF SyncTemporary, At, control, IInv, TypeOK, disk
<1>2. FilesOnlyAdvance /\ named' = named /\ disturbed' = disturbed
  BY DEF SyncTemporary, At, control, FilesOnlyAdvance, IInv, TypeOK
<1>3. Alone(p)
  BY DEF SyncTemporary, At, control, Alone, Idles, IInv, TypeOK
<1>4. FileReady(p)'
  BY Names DEF SyncTemporary, At, control, disk, IInv, TypeOK, FileReady, Making
<1>5. Informed(p)'
  BY Names DEF SyncTemporary, At, control, disk, IInv, TypeOK, Informed
<1>6. Tidy(p)'
  BY Names DEF SyncTemporary, At, control, disk, IInv, TypeOK, Tidy, Informed, Looking
<1>7. ~disturbed => Agreed(p)'
  BY Names DEF SyncTemporary, At, control, disk, IInv, TypeOK, Agreed, Informed
<1> QED
  BY <1>1, <1>2, <1>3, <1>4, <1>5, <1>6, <1>7, CommandStep

LEMMA CallFailsInv ==
    ASSUME IInv, NEW p \in Processes, CallFails(p)
    PROVE  IInv'
<1>1. TypeOK'
  BY Names, BoundsAssumption DEF CallFails, At, Fault, IInv, TypeOK, disk
<1>2. FilesOnlyAdvance /\ named' = named /\ disturbed' = disturbed
  BY SameDisk DEF CallFails, IInv
<1>3. Alone(p)
  BY DEF CallFails, At, Fault, Alone, Idles, IInv, TypeOK
<1>4. FileReady(p)'
  BY Names DEF CallFails, At, Fault, disk, IInv, TypeOK, FileReady, Making
<1>5. Informed(p)'
  BY Names DEF CallFails, At, Fault, disk, IInv, TypeOK, Informed
<1>6. Tidy(p)'
  BY Names DEF CallFails, At, Fault, disk, IInv, TypeOK, Tidy, Informed, Looking
<1>7. ~disturbed => Agreed(p)'
  BY Names DEF CallFails, At, Fault, disk, IInv, TypeOK, Agreed, Informed
<1> QED
  BY <1>1, <1>2, <1>3, <1>4, <1>5, <1>6, <1>7, CommandStep

LEMMA RemoveTemporaryInv ==
    ASSUME IInv, NEW p \in Processes, RemoveTemporary(p)
    PROVE  IInv'
<1>1. TypeOK'
  BY Names, BoundsAssumption DEF RemoveTemporary, At, Return, Fail, control, Published, IInv, TypeOK, disk
<1>2. FilesOnlyAdvance /\ named' = named /\ disturbed' = disturbed
  BY DEF RemoveTemporary, At, Return, Fail, control, Published, FilesOnlyAdvance, IInv, TypeOK
<1>3. Alone(p)
  BY DEF RemoveTemporary, At, Return, Fail, control, Published, Alone, Idles, IInv, TypeOK
<1>4. FileReady(p)'
  BY Names DEF RemoveTemporary, At, Return, Fail, control, Published, disk, IInv, TypeOK, FileReady, Making
<1>5. Informed(p)'
  BY Names DEF RemoveTemporary, At, Return, Fail, control, Published, disk, IInv, TypeOK, Informed
<1>6. Tidy(p)'
  BY Names DEF RemoveTemporary, At, Return, Fail, control, Published, disk, IInv, TypeOK, Tidy, Informed, Looking
<1>7. ~disturbed => Agreed(p)'
  BY Names DEF RemoveTemporary, At, Return, Fail, control, Published, disk, IInv, TypeOK, Agreed, Informed
<1> QED
  BY <1>1, <1>2, <1>3, <1>4, <1>5, <1>6, <1>7, CommandStep

LEMMA RemovalFailsInv ==
    ASSUME IInv, NEW p \in Processes, RemovalFails(p)
    PROVE  IInv'
<1>1. TypeOK'
  BY Names, BoundsAssumption DEF RemovalFails, At, Return, Fail, control, Published, Fault, IInv, TypeOK, disk
<1>2. FilesOnlyAdvance /\ named' = named /\ disturbed' = disturbed
  BY SameDisk DEF RemovalFails, IInv
<1>3. Alone(p)
  BY DEF RemovalFails, At, Return, Fail, control, Published, Fault, Alone, Idles, IInv, TypeOK
<1>4. FileReady(p)'
  BY Names DEF RemovalFails, At, Return, Fail, control, Published, Fault, disk, IInv, TypeOK, FileReady, Making
<1>5. Informed(p)'
  BY Names DEF RemovalFails, At, Return, Fail, control, Published, Fault, disk, IInv, TypeOK, Informed
<1>6. Tidy(p)'
  BY Names DEF RemovalFails, At, Return, Fail, control, Published, Fault, disk, IInv, TypeOK, Tidy, Informed, Looking
<1>7. ~disturbed => Agreed(p)'
  BY Names DEF RemovalFails, At, Return, Fail, control, Published, Fault, disk, IInv, TypeOK, Agreed, Informed
<1> QED
  BY <1>1, <1>2, <1>3, <1>4, <1>5, <1>6, <1>7, CommandStep

LEMMA CommandFailsInv ==
    ASSUME IInv, NEW p \in Processes, CommandFails(p)
    PROVE  IInv'
<1>1. TypeOK'
  BY Names, BoundsAssumption DEF CommandFails, At, Return, Fail, control, Fault, IInv, TypeOK, disk
<1>2. FilesOnlyAdvance /\ named' = named /\ disturbed' = disturbed
  BY SameDisk DEF CommandFails, IInv
<1>3. Alone(p)
  BY DEF CommandFails, At, Return, Fail, control, Fault, Alone, Idles, IInv, TypeOK
<1>4. FileReady(p)'
  BY Names DEF CommandFails, At, Return, Fail, control, Fault, disk, IInv, TypeOK, FileReady, Making
<1>5. Informed(p)'
  BY Names DEF CommandFails, At, Return, Fail, control, Fault, disk, IInv, TypeOK, Informed
<1>6. Tidy(p)'
  BY Names DEF CommandFails, At, Return, Fail, control, Fault, disk, IInv, TypeOK, Tidy, Informed, Looking
<1>7. ~disturbed => Agreed(p)'
  BY Names DEF CommandFails, At, Return, Fail, control, Fault, disk, IInv, TypeOK, Agreed, Informed
<1> QED
  BY <1>1, <1>2, <1>3, <1>4, <1>5, <1>6, <1>7, CommandStep

LEMMA KilledInv ==
    ASSUME IInv, NEW p \in Processes, Killed(p)
    PROVE  IInv'
<1>1. TypeOK'
  BY Names, BoundsAssumption DEF Killed, control, Fault, IInv, TypeOK, disk
<1>2. FilesOnlyAdvance /\ named' = named /\ disturbed' = disturbed
  BY SameDisk DEF Killed, IInv
<1>3. Alone(p)
  BY DEF Killed, control, Fault, Alone, Idles, IInv, TypeOK
<1>4. FileReady(p)'
  BY Names DEF Killed, control, Fault, disk, IInv, TypeOK, FileReady, Making
<1>5. Informed(p)'
  BY Names DEF Killed, control, Fault, disk, IInv, TypeOK, Informed
<1>6. Tidy(p)'
  BY Names DEF Killed, control, Fault, disk, IInv, TypeOK, Tidy, Informed, Looking
<1>7. ~disturbed => Agreed(p)'
  BY Names DEF Killed, control, Fault, disk, IInv, TypeOK, Agreed, Informed
<1> QED
  BY <1>1, <1>2, <1>3, <1>4, <1>5, <1>6, <1>7, CommandStep

\* The link takes the name only when nothing holds it, and then no command has
\* yet taken anything for the key.
LEMMA LinkIntoPlaceInv ==
    ASSUME IInv, NEW p \in Processes, LinkIntoPlace(p)
    PROVE  IInv'
<1>1. /\ own[p] \in Files /\ contents[own[p]] = "whole"
      /\ own[p] \in exact /\ own[p] \in synced /\ returned[p] = Missing
  BY DEF LinkIntoPlace, At, IInv, FileReady, Informed, Making
<1>2. TypeOK'
  BY <1>1 DEF LinkIntoPlace, At, IInv, TypeOK
<1>3. FilesOnlyAdvance
  BY DEF LinkIntoPlace, FilesOnlyAdvance, IInv, TypeOK
<1>4. Alone(p)
  BY DEF LinkIntoPlace, At, Alone, Idles, IInv, TypeOK
<1>5. step'[p] = "remove" /\ own'[p] = own[p] /\ returned'[p] = Missing
  BY <1>1 DEF LinkIntoPlace, At, IInv, TypeOK
<1>6. FileReady(p)' /\ Informed(p)' /\ Tidy(p)'
  BY <1>1, <1>5 DEF LinkIntoPlace, FileReady, Informed, Tidy, Making, Looking
<1>7. NamedIsSafe'
  BY <1>1 DEF LinkIntoPlace, IInv, NamedIsSafe
<1>8. ASSUME ~disturbed, NEW q \in Processes
      PROVE  Agreed(q)'
  <2>1. Agreed(q)
    BY <1>8 DEF IInv
  <2>2. CASE q = p
    BY <1>5, <2>2 DEF LinkIntoPlace, Agreed, IInv, TypeOK
  <2>3. CASE q # p /\ named # Missing
    BY <1>4, <2>1, <2>3 DEF LinkIntoPlace, Agreed, Alone, Idles
  <2>4. CASE q # p /\ named = Missing
    <3>1. returned[q] = Missing /\ step[q] # "open"
          /\ ~(step[q] = "remove" /\ outcome[q] = "linked")
      BY <2>1, <2>4, Names DEF Agreed, IInv, Informed, FileReady, Making
    <3> QED
      BY <1>4, <2>4, <3>1 DEF Agreed, Alone, Idles
  <2> QED
    BY <2>2, <2>3, <2>4
<1>9. ASSUME NEW q \in Processes
      PROVE  FileReady(q)' /\ Informed(q)' /\ Tidy(q)'
  BY <1>3, <1>4, <1>6, IdlesKept DEF Alone
<1> QED
  BY <1>2, <1>7, <1>8, <1>9 DEF IInv, LinkIntoPlace

\* What the name holds survives the loss of everything not synced.
LEMMA PowerLossInv ==
    ASSUME IInv, PowerLoss
    PROVE  IInv'
<1>1. TypeOK'
  BY BoundsAssumption DEF PowerLoss, Fault, IInv, TypeOK
<1>2. NamedIsSafe'
  BY Names DEF PowerLoss, IInv, TypeOK, NamedIsSafe
<1>3. ASSUME NEW q \in Processes
      PROVE  /\ FileReady(q)' /\ Informed(q)' /\ Tidy(q)'
             /\ Agreed(q)'
  <2>1. /\ step'[q] = "idle" /\ returned'[q] = Missing /\ own'[q] = own[q]
        /\ own[q] \in Files => contents'[own[q]] # "none"
    BY DEF PowerLoss, IInv, TypeOK, FileReady
  <2> QED
    BY <2>1 DEF FileReady, Informed, Tidy, Agreed, Making, Looking
<1> QED
  BY <1>1, <1>2, <1>3 DEF IInv

LEMMA OutsideInv ==
    ASSUME IInv, ChangeName \/ ChangeDirectory
    PROVE  IInv'
<1>1. CASE ChangeName
  <2>1. TypeOK'
    BY <1>1, BoundsAssumption DEF ChangeName, Fault, control, IInv, TypeOK
  <2>2. NamedIsSafe'
    BY <1>1, Names DEF ChangeName, NamedIsSafe
  <2>3. ASSUME NEW q \in Processes
        PROVE  FileReady(q)' /\ Informed(q)' /\ Tidy(q)'
    BY <1>1 DEF ChangeName, control, IInv, FileReady, Informed, Tidy
  <2> QED
    BY <1>1, <2>1, <2>2, <2>3 DEF IInv, ChangeName
<1>2. CASE ChangeDirectory
  <2>1. TypeOK'
    BY <1>2, BoundsAssumption DEF ChangeDirectory, Fault, control, IInv, TypeOK
  <2> QED
    BY <1>2, <2>1 DEF ChangeDirectory, control, IInv, NamedIsSafe, FileReady, Informed, Tidy, Agreed
<1> QED
  BY <1>1, <1>2

LEMMA StutterInv ==
    ASSUME IInv, UNCHANGED vars
    PROVE  IInv'
BY DEF vars, disk, control, IInv, TypeOK, NamedIsSafe, FileReady, Informed, Tidy, Agreed

LEMMA NextInv == IInv /\ [Next]_vars => IInv'
BY StartInv, StatDirectoryInv, MakeDirectoryInv, AdoptDirectoryInv, LookUpInv, OpenKeyInv,
   CreateTemporaryInv, SecureTemporaryInv, WriteTemporaryInv, SyncTemporaryInv,
   LinkIntoPlaceInv, CallFailsInv, RemoveTemporaryInv, RemovalFailsInv, CommandFailsInv,
   KilledInv, PowerLossInv, OutsideInv, StutterInv DEF Next

LEMMA InvariantHolds == Spec => []IInv
BY InitInv, NextInv, PTL DEF Spec

-----------------------------------------------------------------------------
(* The theorems.                                                           *)

\* Commands, files and names keep their types; a file is looked up before it is
\* opened (readNamedKey).
THEOREM TypeCorrect == Spec => []TypeOK
<1>1. IInv => TypeOK
  BY DEF IInv
<1> QED
  BY <1>1, InvariantHolds, PTL

\* Any number of commands that create the key at once end with the same one.
THEOREM OneKeyHolds == Spec => []OneKey
<1>1. IInv => OneKey
  BY DEF IInv, Agreed, OneKey
<1> QED
  BY <1>1, InvariantHolds, PTL

\* The name never holds a key that is torn or of another mode: it is linked
\* only after Chmod, Write and Sync.
THEOREM NameHoldsWholeKeyHolds == Spec => []NameHoldsWholeKey
<1>1. IInv => NameHoldsWholeKey
  BY DEF IInv, NamedIsSafe, NameHoldsWholeKey
<1> QED
  BY <1>1, InvariantHolds, PTL

\* Who ends with a key has removed its own temporary copy.
THEOREM NoSilentCopyHolds == Spec => []NoSilentCopy
<1>1. IInv => NoSilentCopy
  BY DEF IInv, Tidy, NoSilentCopy
<1> QED
  BY <1>1, InvariantHolds, PTL

\* No command uses a key that a link leads to.
THEOREM NoForeignKeyHolds == Spec => []NoForeignKey
<1>1. IInv => NoForeignKey
  BY Names DEF IInv, Informed, NoForeignKey
<1> QED
  BY <1>1, InvariantHolds, PTL
=============================================================================
