----------------------------- MODULE Snapshots -----------------------------
(***************************************************************************)
(* What map frames promise: a frame is refreshed as a whole, to the parts  *)
(* in its scope as they are at that moment, and the content they are taken *)
(* from never changes without a new version.                               *)
(*                                                                         *)
(* MapModel implements this specification.                                 *)
(***************************************************************************)
EXTENDS Integers

CONSTANTS
    Frames,     \* those who hold a snapshot
    Scope       \* which parts each of them takes

VARIABLES version, content, snapshot

snapshotVars == <<version, content, snapshot>>

Blank(f) == [version |-> -1, content |-> [p \in Scope[f] |-> <<>>]]
Current(f) == [version |-> version, content |-> [p \in Scope[f] |-> content[p]]]

\* There is any content at first, and nobody has a snapshot of it.
Init ==
    /\ version \in Nat
    /\ snapshot = [f \in Frames |-> Blank(f)]

\* Any content may follow.
Publish == version' = version + 1 /\ UNCHANGED snapshot

Refresh(f) ==
    /\ snapshot' = [snapshot EXCEPT ![f] = Current(f)]
    /\ UNCHANGED <<version, content>>

Next == Publish \/ \E f \in Frames : Refresh(f)

Spec == Init /\ [][Next]_snapshotVars
=============================================================================
