------------------------------- MODULE Outbox -------------------------------
(***************************************************************************)
(* What the command queue promises to the packet handlers: a command that  *)
(* was added is settled (written to its descriptor, or given up because    *)
(* the descriptor fails) once, and every command is settled some day       *)
(* unless its case is hopeless: its peer does not read, or some peers, by  *)
(* not reading or by half a header, have stopped everybody who could       *)
(* settle it.  Nothing is promised about the order.                        *)
(***************************************************************************)
EXTENDS Naturals

CONSTANT MaxCmds    \* bound: commands of a behaviour

VARIABLES due,      \* commands added and not yet settled
          settled,  \* commands written or given up
          hopeless  \* commands nobody may ever settle

vars == <<due, settled, hopeless>>

Init == due = {} /\ settled = {} /\ hopeless = {}

\* A case that has become hopeless stays so.
Worsen == hopeless \subseteq hopeless'

Post(n) ==
    /\ n \notin due \union settled
    /\ due' = due \union {n}
    /\ UNCHANGED settled
    /\ Worsen

Settle(n) ==
    /\ n \in due
    /\ due' = due \ {n}
    /\ settled' = settled \union {n}
    /\ UNCHANGED hopeless

GiveUpHope == Worsen /\ UNCHANGED <<due, settled>>

Next == GiveUpHope \/ \E n \in 1..MaxCmds : Post(n) \/ Settle(n)

Spec == Init /\ [][Next]_vars

FairSpec == Spec /\ \A n \in 1..MaxCmds : WF_vars(n \notin hopeless /\ Settle(n))
=============================================================================
