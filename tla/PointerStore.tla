---------------------------- MODULE PointerStore ----------------------------
(***************************************************************************)
(* What store.Store promises of its two pointers, the manifest and the     *)
(* roster: each holds one content at a time, and a swap puts in its place  *)
(* a content of the next version that names the one it replaces.           *)
(***************************************************************************)
EXTENDS Naturals

CONSTANTS
    Pointers,   \* the names of the pointers
    Contents,   \* records with an id, a version and the id of the predecessor
    First       \* what each pointer holds at first

VARIABLE head   \* what each pointer holds

Init == head = First

\* CASManifest or CASRoster, by a caller that read head[k].
Swap(k) ==
    /\ head'[k] \in Contents
    /\ head'[k].version = head[k].version + 1
    /\ head'[k].prev = head[k].id
    /\ head' = [head EXCEPT ![k] = head'[k]]

Next == \E k \in Pointers : Swap(k)

Spec == Init /\ [][Next]_head
=============================================================================
