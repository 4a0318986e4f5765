----------------------------- MODULE KeyCustody -----------------------------
(***************************************************************************)
(* Custody of a player key, src/cmd/chess/main.go lines 927-1184: opening   *)
(* the directory that bounds the key, reading an existing key, and          *)
(* publishing a new one beside its name and linking it into place.  Init    *)
(* and every local writer read the key or make it, rebind and agents only   *)
(* read it, and keygen only makes it.  Commands on the repository's own key *)
(* hold its writer lock; those given the same path with --key, for another  *)
(* repository or none, run at the same time as they do.                     *)
(*                                                                          *)
(* A file is a number, and so is the key written to it: 1 is the first file *)
(* made, and so on.  Elsewhere is a key file outside the directory, which   *)
(* only a symbolic link reaches.  The operating system is external: a call  *)
(* may fail, a process may be killed, the machine may lose power, and       *)
(* somebody may change names and modes under the program's feet.            *)
(***************************************************************************)
EXTENDS Naturals

CONSTANTS
    Processes,  \* commands that may run at once
    MaxFiles,   \* bound: key files ever made
    MaxFaults   \* bound: failed calls, kills, power losses and outside changes

ASSUME BoundsAssumption == MaxFiles \in Nat /\ MaxFaults \in Nat

Files     == 1..MaxFiles
Missing   == 0             \* nothing holds the name, or no key
Elsewhere == MaxFiles + 1  \* the key file a symbolic link leads to
Link      == MaxFiles + 2  \* a symbolic link holds the name

Jobs == {"ensure", "read", "keygen"}

\* keyed: the path was chosen with --key.
Job == [does : Jobs, keyed : BOOLEAN]

VARIABLES
    directory,  \* what holds the name of the key directory
    named,      \* what holds the name of the key
    temporary,  \* files that are still under their temporary names
    contents,   \* what each file holds
    exact,      \* files whose mode was set on the descriptor
    synced,     \* files that reached the disk
    step,       \* where each command is
    job,        \* what each command is for
    seen,       \* what Lstat said holds the name of the key
    own,        \* the file the command made
    outcome,    \* what publishKey returns, up to its deferred removal
    returned,   \* the key each command ended with
    faults,     \* faults so far
    disturbed   \* the key's name was changed from outside, or lost

disk == <<directory, named, temporary, contents, exact, synced>>
control == <<job, seen, own, outcome, returned>>
vars == <<disk, step, control, faults, disturbed>>

Fault == faults < MaxFaults /\ faults' = faults + 1

At(p, from, to) == step[p] = from /\ step' = [step EXCEPT ![p] = to]

\* The command ends with a key, or with an error.
Return(p, from, key) ==
    /\ At(p, from, "ended")
    /\ returned' = [returned EXCEPT ![p] = key]
    /\ UNCHANGED <<job, seen, own, outcome>>

Fail(p, from) == Return(p, from, Missing)

-----------------------------------------------------------------------------
(* openKeyStore: the directory that bounds the key.                        *)

\* A path chosen with --key is bounded by its parent, whatever that is; keygen
\* always has one.  Otherwise the directory is checked first, by one command
\* at a time: the one that has the writer lock of the repository.
Start(p, for, withKey) ==
    /\ step[p] \in {"idle", "ended"}
    /\ withKey \/ \A q \in Processes : job[q].keyed \/ step[q] \in {"idle", "ended"}
    /\ for = "keygen" => withKey
    /\ withKey => directory \in {"own", "shared"}
    /\ step' = [step EXCEPT ![p] =
                  IF ~withKey THEN "stat" ELSE IF for = "keygen" THEN "create" ELSE "lookup"]
    /\ job' = [job EXCEPT ![p] = [does |-> for, keyed |-> withKey]]
    /\ seen' = [seen EXCEPT ![p] = Missing]
    /\ own' = [own EXCEPT ![p] = Missing]
    /\ outcome' = [outcome EXCEPT ![p] = "none"]
    /\ returned' = [returned EXCEPT ![p] = Missing]
    /\ UNCHANGED <<disk, faults, disturbed>>

\* The first Lstat of openNamedDirectory, and the second one after Mkdir.
StatDirectory(p, from) ==
    /\ \/ directory \in {"own", "shared"} /\ At(p, from, "adopt") /\ UNCHANGED control
       \/ directory = "link" /\ Fail(p, from)
       \/ directory = "none" /\ from = "stat" /\ At(p, from, "mkdir") /\ UNCHANGED control
       \/ directory = "none" /\ from = "made" /\ Fail(p, from)
    /\ UNCHANGED <<disk, faults, disturbed>>

\* Losing the creation to another process is ordinary.
MakeDirectory(p) ==
    /\ At(p, "mkdir", "made")
    /\ directory' = IF directory = "none" THEN "own" ELSE directory
    /\ UNCHANGED <<named, temporary, contents, exact, synced, control, faults, disturbed>>

\* adoptDirectory: what is opened must be what Lstat named, and nobody else
\* may write to it, judged on the open descriptor.
AdoptDirectory(p) ==
    /\ \/ directory = "own" /\ At(p, "adopt", "lookup") /\ UNCHANGED control
       \/ directory # "own" /\ Fail(p, "adopt")
    /\ UNCHANGED <<disk, faults, disturbed>>

-----------------------------------------------------------------------------
(* readKey, and what ensureKey makes of its answer.                        *)

\* Lstat.  A missing key is made by ensureKey, but only once: after losing the
\* race it is an error like any other.
LookUp(p) ==
    /\ \/ /\ named \in Files
          /\ At(p, "lookup", "open")
          /\ seen' = [seen EXCEPT ![p] = named]
          /\ UNCHANGED <<job, own, outcome, returned>>
       \/ /\ named = Missing /\ job[p].does = "ensure" /\ own[p] = Missing
          /\ At(p, "lookup", "create")
          /\ UNCHANGED control
       \/ /\ named = Link \/ (named = Missing /\ (job[p].does = "read" \/ own[p] # Missing))
          /\ Fail(p, "lookup")
    /\ UNCHANGED <<disk, faults, disturbed>>

\* What a name resolves to when it is opened.
Opened(name) == IF name = Link THEN Elsewhere ELSE name

\* A key the program reads: one whole key of the exact mode.
Readable(f) == f = Elsewhere \/ (contents[f] = "whole" /\ f \in exact)

\* Slip: a link swapped in after the look-up is followed.
OpenKeyFollowing(p) ==
    /\ step[p] = "open"
    /\ \/ named # Missing /\ Readable(Opened(named)) /\ Return(p, "open", Opened(named))
       \/ named = Missing /\ Fail(p, "open")
    /\ UNCHANGED <<disk, faults, disturbed>>

\* readNamedKey: what is opened must be the file that was named.
OpenKey(p) ==
    /\ step[p] = "open"
    /\ \/ Opened(named) = seen[p] /\ Readable(seen[p]) /\ Return(p, "open", seen[p])
       \/ ~(Opened(named) = seen[p] /\ Readable(seen[p])) /\ Fail(p, "open")
    /\ UNCHANGED <<disk, faults, disturbed>>

-----------------------------------------------------------------------------
(* publishKey.                                                             *)

\* O_EXCL under a random name; the key is generated before.
CreateTemporary(p) ==
    \E f \in Files :
        /\ contents[f] = "none" /\ \A older \in 1..(f - 1) : contents[older] # "none"
        /\ At(p, "create", "secure")
        /\ contents' = [contents EXCEPT ![f] = "empty"]
        /\ temporary' = temporary \cup {f}
        /\ own' = [own EXCEPT ![p] = f]
        /\ UNCHANGED <<directory, named, exact, synced, job, seen, outcome, returned,
                       faults, disturbed>>

\* The process umask filtered the mode given at creation.
SecureTemporary(p) ==
    /\ At(p, "secure", "write")
    /\ exact' = exact \cup {own[p]}
    /\ UNCHANGED <<directory, named, temporary, contents, synced, control, faults, disturbed>>

WriteTemporary(p) ==
    /\ At(p, "write", "sync")
    /\ contents' = [contents EXCEPT ![own[p]] = "whole"]
    /\ UNCHANGED <<directory, named, temporary, exact, synced, control, faults, disturbed>>

\* Slip: the file is closed without Sync.
CloseTemporary(p) ==
    /\ At(p, "sync", "link")
    /\ UNCHANGED <<disk, control, faults, disturbed>>

SyncTemporary(p) ==
    /\ At(p, "sync", "link")
    /\ synced' = synced \cup {own[p]}
    /\ UNCHANGED <<directory, named, temporary, contents, exact, control, faults, disturbed>>

\* Slip: the finished file is renamed over whatever holds the name.
RenameIntoPlace(p) ==
    /\ At(p, "link", "remove")
    /\ named' = own[p]
    /\ outcome' = [outcome EXCEPT ![p] = "linked"]
    /\ UNCHANGED <<directory, temporary, contents, exact, synced, job, seen, own, returned,
                   faults, disturbed>>

\* Link fails rather than replacing what holds the name.
LinkIntoPlace(p) ==
    /\ At(p, "link", "remove")
    /\ named' = IF named = Missing THEN own[p] ELSE named
    /\ outcome' = [outcome EXCEPT ![p] = IF named = Missing THEN "linked" ELSE "exists"]
    /\ UNCHANGED <<directory, temporary, contents, exact, synced, job, seen, own, returned,
                   faults, disturbed>>

\* A call of publishKey fails; the deferred removal still runs.
CallFails(p) ==
    /\ \E from \in {"secure", "write", "sync", "link"} : At(p, from, "remove")
    /\ outcome' = [outcome EXCEPT ![p] = "failed"]
    /\ Fault
    /\ UNCHANGED <<disk, job, seen, own, returned, disturbed>>

\* What ensureKey and keygen make of the outcome: only ensureKey goes on to
\* the key of whoever was first.
Published(p, result) ==
    CASE result = "linked" -> Return(p, "remove", own[p])
      [] result = "exists" /\ job[p].does = "ensure" ->
            At(p, "remove", "lookup") /\ UNCHANGED control
      [] OTHER -> Fail(p, "remove")

RemoveTemporary(p) ==
    /\ temporary' = temporary \ {own[p]}
    /\ Published(p, outcome[p])
    /\ UNCHANGED <<directory, named, contents, exact, synced, faults, disturbed>>

\* Slip: the failed removal reads like somebody else having been first.
RemovalFailsQuietly(p) ==
    /\ Published(p, "exists")
    /\ Fault
    /\ UNCHANGED <<disk, disturbed>>

\* A second copy of the key stays behind: reported whatever else worked.
RemovalFails(p) ==
    /\ Published(p, "failed")
    /\ Fault
    /\ UNCHANGED <<disk, disturbed>>

-----------------------------------------------------------------------------
(* The system around it.                                                   *)

\* Any other call fails, and the command with it.
CommandFails(p) ==
    /\ \E from \in {"stat", "mkdir", "made", "adopt", "lookup", "open", "create"} : Fail(p, from)
    /\ Fault
    /\ UNCHANGED <<disk, disturbed>>

Killed(p) ==
    /\ step[p] \notin {"idle", "ended"}
    /\ step' = [step EXCEPT ![p] = "idle"]
    /\ Fault
    /\ UNCHANGED <<disk, control, disturbed>>

\* Power loss: what was not synced is torn, and a name may be lost, since the
\* program syncs files and not directories.
PowerLoss ==
    /\ step' = [p \in Processes |-> "idle"]
    /\ returned' = [p \in Processes |-> Missing]
    /\ contents' = [f \in Files |->
          IF contents[f] # "none" /\ f \notin synced THEN "torn" ELSE contents[f]]
    /\ named' \in {named, Missing}
    /\ disturbed' = (disturbed \/ named' # named)
    /\ Fault
    /\ UNCHANGED <<directory, temporary, exact, synced, job, seen, own, outcome>>

\* Somebody removes the key or puts a link in its place.
ChangeName ==
    /\ named' \in {Missing, Link} \ {named}
    /\ disturbed' = TRUE
    /\ Fault
    /\ UNCHANGED <<directory, temporary, contents, exact, synced, step, control>>

\* Somebody makes, opens up to others, or replaces the directory.
ChangeDirectory ==
    /\ directory' \in {"own", "shared", "link"} \ {directory}
    /\ Fault
    /\ UNCHANGED <<named, temporary, contents, exact, synced, step, control, disturbed>>

-----------------------------------------------------------------------------
Init ==
    /\ directory = "none"
    /\ named = Missing
    /\ temporary = {}
    /\ contents = [f \in Files |-> "none"]
    /\ exact = {}
    /\ synced = {}
    /\ step = [p \in Processes |-> "idle"]
    /\ job = [p \in Processes |-> [does |-> "read", keyed |-> TRUE]]
    /\ seen = [p \in Processes |-> Missing]
    /\ own = [p \in Processes |-> Missing]
    /\ outcome = [p \in Processes |-> "none"]
    /\ returned = [p \in Processes |-> Missing]
    /\ faults = 0
    /\ disturbed = FALSE

Next ==
    \/ \E p \in Processes :
          \/ \E for \in Jobs, withKey \in BOOLEAN : Start(p, for, withKey)
          \/ \E from \in {"stat", "made"} : StatDirectory(p, from)
          \/ MakeDirectory(p)
          \/ AdoptDirectory(p)
          \/ LookUp(p)
          \/ OpenKey(p)
          \/ CreateTemporary(p)
          \/ SecureTemporary(p)
          \/ WriteTemporary(p)
          \/ SyncTemporary(p)
          \/ LinkIntoPlace(p)
          \/ CallFails(p)
          \/ RemoveTemporary(p)
          \/ RemovalFails(p)
          \/ CommandFails(p)
          \/ Killed(p)
    \/ PowerLoss
    \/ ChangeName
    \/ ChangeDirectory

Spec == Init /\ [][Next]_vars

-----------------------------------------------------------------------------
(* Properties.                                                             *)

\* Every variable keeps its type; in particular a command waiting to open the
\* key has seen a regular file under its name, and no command beyond creation
\* is without its own file.
TypeOK ==
    /\ directory \in {"none", "own", "shared", "link"}
    /\ named \in Files \cup {Missing, Link}
    /\ temporary \subseteq Files /\ exact \subseteq Files /\ synced \subseteq Files
    /\ contents \in [Files -> {"none", "empty", "whole", "torn"}]
    /\ step \in [Processes -> {"idle", "stat", "mkdir", "made", "adopt", "lookup", "open",
                               "create", "secure", "write", "sync", "link", "remove", "ended"}]
    /\ job \in [Processes -> Job]
    /\ seen \in [Processes -> Files \cup {Missing}]
    /\ own \in [Processes -> Files \cup {Missing}]
    /\ outcome \in [Processes -> {"none", "linked", "exists", "failed"}]
    /\ returned \in [Processes -> Files \cup {Missing, Elsewhere}]
    /\ faults \in 0..MaxFaults
    /\ disturbed \in BOOLEAN

\* However many commands create the key at once, each that ends with a key
\* ends with the one under the name, the one linked first (ensureKey on
\* os.ErrExist), as long as nobody else changes the name.
OneKey ==
    ~disturbed => \A p \in Processes : returned[p] # Missing => returned[p] = named

\* The key's name never holds a half-written key or one of another mode, not
\* even after a kill or a power loss anywhere in publishKey.
NameHoldsWholeKey ==
    named \in Files => contents[named] = "whole" /\ named \in exact

\* No command that ends with a key has left the second copy it made under its
\* temporary name: not when it lost the race either, where the failed removal
\* must not be taken for somebody else's success (the deferred removal).
NoSilentCopy ==
    \A p \in Processes : returned[p] # Missing => own[p] \notin temporary

\* A link put in place of the key never makes a command use the key it leads
\* to, even when it appears between looking the name up and opening it.
NoForeignKey == \A p \in Processes : returned[p] # Elsewhere
=============================================================================
