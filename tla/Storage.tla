------------------------------ MODULE Storage --------------------------------
(***************************************************************************)
(* What a table is kept in: either one selector is used by itself, long    *)
(* enough to move elements about inside it, or a server checkpoints,       *)
(* crashes and restarts.                                                   *)
(***************************************************************************)
EXTENDS Checkpointer, SelectorUse

VARIABLE part

vars == <<part, checkpointerVars, selectorVars>>

Init ==
    /\ CheckpointerInit
    /\ \/ /\ part = "server"
          /\ selector = MakeSelector("fifo") /\ told = Untold /\ changes = 0
       \/ /\ part = "selector" /\ SelectorInit
          /\ disk = << >> /\ configured = (CHOOSE r \in Removers : TRUE)

Next ==
    \/ part = "server" /\ CheckpointerNext /\ UNCHANGED <<part, selectorVars>>
    \/ part = "selector" /\ SelectorNext /\ UNCHANGED <<part, checkpointerVars>>

Spec == Init /\ [][Next]_vars
=============================================================================
