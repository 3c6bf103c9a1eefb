---------------------------- MODULE PathWriters ----------------------------
(***************************************************************************)
(* What the single-writer registry promises, without saying how: a recipe  *)
(* has at most one writer, only its writer changes or erases it, and a     *)
(* directory nobody writes is removed only while nothing is recorded in it.*)
(***************************************************************************)
CONSTANTS
    Paths,      \* the session directories, one recipe in each
    Agents      \* the sessions and the commands that may write a recipe

VARIABLES
    writers,    \* the writers of each path
    file        \* "absent", "empty" or "recorded"

vars == <<writers, file>>

Init ==
    /\ writers = [p \in Paths |-> {}]
    /\ file \in [Paths -> {"absent", "empty", "recorded"}]

\* An agent becomes the only writer of p, and no other path changes hands.
Enter(p) ==
    /\ writers'[p] \in {{a} : a \in Agents}
    /\ writers' = [writers EXCEPT ![p] = writers'[p]]

\* A session directory comes into being with its writer.
Create(p) ==
    /\ writers[p] = {} /\ file[p] = "absent"
    /\ file' = [file EXCEPT ![p] = "empty"]
    /\ Enter(p)

Claim(p) == writers[p] = {} /\ UNCHANGED file /\ Enter(p)

\* One writer gives way to the next without the path ever being free.
HandOver(p) == writers[p] # {} /\ UNCHANGED file /\ Enter(p)

Release(p) ==
    /\ writers[p] # {} /\ UNCHANGED file
    /\ writers' = [writers EXCEPT ![p] = {}]

Record(p) ==
    /\ writers[p] # {} /\ file[p] # "absent"
    /\ file' = [file EXCEPT ![p] = "recorded"]
    /\ UNCHANGED writers

Erase(p) ==
    /\ writers[p] # {}
    /\ file' = [file EXCEPT ![p] = "absent"]
    /\ UNCHANGED writers

Discard(p) ==
    /\ writers[p] = {} /\ file[p] = "empty"
    /\ file' = [file EXCEPT ![p] = "absent"]
    /\ UNCHANGED writers

Next ==
    \E p \in Paths : \/ Create(p) \/ Claim(p) \/ HandOver(p) \/ Release(p)
                     \/ Record(p) \/ Erase(p) \/ Discard(p)

Spec == Init /\ [][Next]_vars
=============================================================================
