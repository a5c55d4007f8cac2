---------------------------- MODULE MCSyncGrabs ----------------------------
(* SyncGrabs on instances small enough for TLC. *)
EXTENDS SyncGrabs

CONSTANTS a, b

G(c, w, d, own, oth) ==
    [client |-> c, win |-> w, dev |-> d, own |-> own, oth |-> oth]

MCClients == {a, b}
MCCloserA == {a}
MCPassive == { G(b, "root", "ptr", "sync", "sync"),
               G(a, "win", "ptr", "sync", "async"),
               G(b, "win", "kbd", "sync", "async") }
MCActive == { G(a, "root", "kbd", "async", "sync"),
              G(b, "win", "ptr", "sync", "sync") }
MCSelected == { <<a, "win">> }
MCOnePassive == { G(a, "root", "ptr", "sync", "async") }
MCOne == {1}
MCTwo == {1, 2}
=============================================================================
