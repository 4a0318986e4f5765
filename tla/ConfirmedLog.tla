---------------------------- MODULE ConfirmedLog ----------------------------
(***************************************************************************)
(* What the forge-backed repository promises its users: acts are taken in  *)
(* one at a time, each only when everything before it is published; the    *)
(* published log is a prefix of what was taken in and only ever grows, and *)
(* an act acknowledged to its sender is in it, so neither a restart, nor   *)
(* an outage, nor an outsider on the forge takes a published record or an  *)
(* acknowledged act away.                                                  *)
(***************************************************************************)
EXTENDS Naturals, Sequences

CONSTANTS
    Acts,      \* signed acts clients submit
    Entries    \* everything a log may hold, Acts included

VARIABLES
    log,       \* the log the service has taken in
    published, \* the prefix of it that the service has published
    acked      \* the acts it has acknowledged

vars == <<log, published, acked>>

\* History s is t or an older version of it.
Ancestor(s, t) ==
    /\ Len(s) <= Len(t)
    /\ \A i \in 1..Len(s) : s[i] = t[i]

Holds(s, e) == \E i \in 1..Len(s) : s[i] = e

Init ==
    /\ log = <<>>
    /\ published = <<>>
    /\ acked = {}

\* An act is taken in behind published ones only, and may be published at once.
Take(a) ==
    /\ published = log
    /\ log' = Append(log, a)
    /\ published' \in {log, log'}
    /\ UNCHANGED acked

\* Records that no client submitted: the forge's, or the operator's own.
Follow ==
    /\ log' \in Seq(Entries)
    /\ Ancestor(log, log')
    /\ \A i \in Len(log) + 1..Len(log') : log'[i] \notin Acts
    /\ UNCHANGED <<published, acked>>

Publish ==
    /\ published' \in Seq(Entries)
    /\ Ancestor(published, published')
    /\ Ancestor(published', log)
    /\ UNCHANGED <<log, acked>>

Acknowledge(a) ==
    /\ Holds(published, a)
    /\ acked' = acked \cup {a}
    /\ UNCHANGED <<log, published>>

Next == Follow \/ Publish \/ \E a \in Acts : Take(a) \/ Acknowledge(a)

Spec == Init /\ [][Next]_vars

-----------------------------------------------------------------------------
(* What follows from it, whoever keeps the promise.                        *)

\* What is published was taken in, what is acknowledged is published, and of
\* what awaits publication only the first record can be an act.
Consistent ==
    /\ Ancestor(published, log)
    /\ \A a \in acked : Holds(published, a)
    /\ \A i \in Len(published) + 2..Len(log) : log[i] \notin Acts
=============================================================================
