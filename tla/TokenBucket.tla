---------------------------- MODULE TokenBucket ----------------------------
(***************************************************************************)
(* What the TMDB budget promises its callers, without how it does it.      *)
(*                                                                         *)
(* A bucket of credit grows by Rate at every tick, up to Capacity; one     *)
(* call costs Whole.  A caller that asks either gets a call for credit the *)
(* bucket has, never before frozenUntil, or is refused, never before its   *)
(* own deadline.  There is no lazy refill, no sleeping, no waking and no   *)
(* lock here: TmdbBudget has those, and implements this module.            *)
(***************************************************************************)
EXTENDS Integers

CONSTANTS Callers,      \* the tasks that share the bucket
          Deadlines,    \* how long a caller is ready to wait, in ticks
          Whole,        \* the credit one call costs
          Rate,         \* the credit that accrues in one tick
          Capacity,     \* the most credit the bucket holds
          MaxTime       \* bound: the clock stops here

VARIABLES now,          \* the clock
          avail,        \* the credit in the bucket at this instant
          frozenUntil,  \* no call is granted before this instant
          status,       \* caller -> idle, waiting, granted or refused
          giveUp        \* caller -> the instant it gives up

vars == <<now, avail, frozenUntil, status, giveUp>>

LesserOf(a, b) == IF a <= b THEN a ELSE b

Init ==
    /\ now = 0
    /\ avail = Capacity
    /\ frozenUntil = 0
    /\ status = [c \in Callers |-> "idle"]
    /\ giveUp = [c \in Callers |-> 0]

Tick ==
    /\ now < MaxTime
    /\ now' = now + 1
    /\ avail' = LesserOf(avail + Rate, Capacity)
    /\ UNCHANGED <<frozenUntil, status, giveUp>>

Ask(c) ==
    /\ status[c] = "idle"
    /\ \E d \in Deadlines :
          /\ now + d <= MaxTime
          /\ giveUp' = [giveUp EXCEPT ![c] = now + d]
    /\ status' = [status EXCEPT ![c] = "waiting"]
    /\ UNCHANGED <<now, avail, frozenUntil>>

Grant(c) ==
    /\ status[c] = "waiting"
    /\ now >= frozenUntil
    /\ avail >= Whole
    /\ avail' = avail - Whole
    /\ status' = [status EXCEPT ![c] = "granted"]
    /\ UNCHANGED <<now, frozenUntil, giveUp>>

Refuse(c) ==
    /\ status[c] = "waiting"
    /\ now >= giveUp[c]
    /\ status' = [status EXCEPT ![c] = "refused"]
    /\ UNCHANGED <<now, avail, frozenUntil, giveUp>>

\* The caller is answered and done with it, or withdraws while it waits.
Leave(c) ==
    /\ status[c] # "idle"
    /\ status' = [status EXCEPT ![c] = "idle"]
    /\ giveUp' = [giveUp EXCEPT ![c] = 0]
    /\ UNCHANGED <<now, avail, frozenUntil>>

\* The call a caller was granted came back with a 429.
Freeze(c) ==
    /\ status[c] = "granted"
    /\ frozenUntil' \in frozenUntil .. MaxTime
    /\ status' = [status EXCEPT ![c] = "idle"]
    /\ giveUp' = [giveUp EXCEPT ![c] = 0]
    /\ UNCHANGED <<now, avail>>

Answer(c) == Grant(c) \/ Refuse(c)

Next ==
    \/ Tick
    \/ \E c \in Callers : Ask(c) \/ Answer(c) \/ Leave(c) \/ Freeze(c)

\* A caller that waits is answered, if it does not withdraw.
Spec == Init /\ [][Next]_vars /\ \A c \in Callers : WF_vars(Answer(c))
=============================================================================
