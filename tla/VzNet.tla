------------------------------- MODULE VzNet -------------------------------
(***************************************************************************)
(* The vz-net process (NetRuntimeStore.swift), the owner of the live vmnet *)
(* references.  `reserved` is its dictionary `records`; a record and its   *)
(* native handle are added and removed together under the store's lock, so *)
(* one variable stands for both.  A network's configuration is its CIDR    *)
(* and whether it has NAT egress (the mode is always "shared").            *)
(***************************************************************************)
CONSTANTS
    Nets,      \* network identities (NetworkRecord.id)
    Cidrs,     \* canonical CIDRs
    Free       \* "no record of this name"

Configs == [cidr: Cidrs, nat: BOOLEAN]
ASSUME FreeAssumption == Free \notin Configs

VARIABLE reserved

Held(n) == reserved[n] # Free

\* acquire is idempotent for the same configuration; otherwise the name must
\* be unknown and no other network may hold the CIDR.
Acquirable(n, c) ==
    \/ reserved[n] = c
    \/ ~Held(n) /\ \A o \in Nets : Held(o) => reserved[o].cidr # c.cidr

Acquire(n, c) == Acquirable(n, c) /\ reserved' = [reserved EXCEPT ![n] = c]

\* vmnet itself may refuse a network that is not held yet (an orphaned CIDR,
\* an interface that does not start).
AcquireRefused(n, c) == reserved[n] # c /\ UNCHANGED reserved

\* release of an unknown name is an error.
Release(n) == Held(n) /\ reserved' = [reserved EXCEPT ![n] = Free]
ReleaseRefused(n) == ~Held(n) /\ UNCHANGED reserved

VzNetInit == reserved = [n \in Nets |-> Free]

\* The process exits, cleanly or not, and launchd starts it again.
VzNetRestart == reserved' = [n \in Nets |-> Free]

\* Two networks never hold the same CIDR in vz-net, whatever the control
\* plane asks for and however late its calls arrive (acquire's two checks).
CidrExclusive ==
    \A n, o \in Nets :
        Held(n) /\ Held(o) /\ reserved[n].cidr = reserved[o].cidr => n = o
=============================================================================
