---------------------------- MODULE CommandQueue ----------------------------
(***************************************************************************)
(* What the client relies on when it sends commands to the media driver: a *)
(* queue whose order is fixed when a slot is claimed.  A slot is known by  *)
(* a ticket, and tickets only grow.  A slot becomes visible when its       *)
(* producer commits it, and the driver takes the slots strictly in order,  *)
(* so a slot that is claimed and not yet committed holds back the ones     *)
(* behind it.                                                              *)
(***************************************************************************)
EXTENDS Integers

VARIABLES slots,  \* by ticket, the claimed commands that are not taken yet: [id, committed]
          taken   \* by ticket, the ids of the commands the driver took

vars == <<slots, taken>>

Init == DOMAIN slots = {} /\ DOMAIN taken = {}

\* Correlation ids are unique for the connected driver.
Fresh(id) ==
    /\ \A s \in DOMAIN slots : slots[s].id # id
    /\ \A s \in DOMAIN taken : taken[s] # id

Claim(ticket, id) ==
    /\ \A s \in DOMAIN slots \cup DOMAIN taken : s < ticket
    /\ Fresh(id)
    /\ slots' = [s \in DOMAIN slots \cup {ticket} |->
                   IF s = ticket THEN [id |-> id, committed |-> FALSE] ELSE slots[s]]
    /\ UNCHANGED taken

Commit(ticket) ==
    /\ ~slots[ticket].committed
    /\ slots' = [slots EXCEPT ![ticket] = [id |-> slots[ticket].id, committed |-> TRUE]]
    /\ UNCHANGED taken

Take(ticket) ==
    /\ slots[ticket].committed
    /\ \A s \in DOMAIN slots : ticket <= s
    /\ slots' = [s \in DOMAIN slots \ {ticket} |-> slots[s]]
    /\ taken' = [s \in DOMAIN taken \cup {ticket} |->
                   IF s = ticket THEN slots[ticket].id ELSE taken[s]]

Next ==
    \/ \E ticket \in DOMAIN slots' : Claim(ticket, slots'[ticket].id)
    \/ \E ticket \in DOMAIN slots : Commit(ticket) \/ Take(ticket)

Spec == Init /\ [][Next]_vars
=============================================================================
