----------------------------- MODULE AwaitSpec -----------------------------
(***************************************************************************)
(* What Await promises: a client whose conditions are all false is         *)
(* blocked.  The step that makes one of them true, or destroys an object   *)
(* that it waits for, makes its release due; before anything else happens, *)
(* every client whose release is due goes on.  Nothing else releases a     *)
(* client but the end of its connection.                                   *)
(***************************************************************************)
EXTENDS SyncTriggers, Sequences

CONSTANTS Clients, Objects, Gone

VARIABLES
    value,      \* of each object, or Gone
    waits,      \* the conditions each client waits for
    blocked,    \* the clients whose requests are not looked at
    due,        \* those of them that are to go on
    connected   \* the clients that have not left

vars == <<value, waits, blocked, due, connected>>

Init ==
    /\ value = [o \in Objects |-> Gone]
    /\ waits = [c \in Clients |-> <<>>]
    /\ blocked = {} /\ due = {}
    /\ connected = Clients

WaitingFor(o) == {c \in blocked : \E i \in DOMAIN waits[c] :
                                    waits[c][i].obj = o}

Create(o, v) ==
    /\ due = {}
    /\ value[o] = Gone
    /\ value' = [value EXCEPT ![o] = v]
    /\ UNCHANGED <<waits, blocked, due, connected>>

Change(o, v) ==
    /\ due = {}
    /\ value[o] # Gone
    /\ value' = [value EXCEPT ![o] = v]
    /\ due' = {c \in WaitingFor(o) : \E i \in DOMAIN waits[c] :
                 /\ waits[c][i].obj = o
                 /\ CheckTrigger(waits[c][i], value[o], v)}
    /\ UNCHANGED <<waits, blocked, connected>>

Destroy(o) ==
    /\ due = {}
    /\ value[o] # Gone
    /\ value' = [value EXCEPT ![o] = Gone]
    /\ due' = WaitingFor(o)
    /\ UNCHANGED <<waits, blocked, connected>>

\* The client waits for nothing any more.
Free(c) ==
    /\ waits' = [waits EXCEPT ![c] = <<>>]
    /\ blocked' = blocked \ {c}
    /\ UNCHANGED value

Resume(c) ==
    /\ c \in due
    /\ due' = due \ {c}
    /\ Free(c)
    /\ UNCHANGED connected

\* The client has found all its conditions false.
Await(c) ==
    /\ due = {}
    /\ c \in connected \ blocked
    /\ blocked' = blocked \cup {c}
    /\ waits' = [waits EXCEPT ![c] = waits'[c]]
    /\ \A i \in DOMAIN waits'[c] :
          LET w == waits'[c][i]
          IN  /\ value[w.obj] # Gone
              /\ ~CheckTrigger(w, value[w.obj], value[w.obj])
    /\ UNCHANGED <<value, due, connected>>

Leave(c) ==
    /\ due = {}
    /\ c \in connected
    /\ connected' = connected \ {c}
    /\ Free(c)
    /\ UNCHANGED due

Next ==
    \/ \E o \in Objects, v \in Int64 : Create(o, v) \/ Change(o, v)
    \/ \E o \in Objects : Destroy(o)
    \/ \E c \in Clients : Await(c) \/ Resume(c) \/ Leave(c)

Spec == Init /\ [][Next]_vars
=============================================================================
