----------------------------- MODULE TmdbBudget -----------------------------
(***************************************************************************)
(* tmdb_budget.rs: the token bucket every TMDB call of the process goes    *)
(* through.  Time is a clock of ticks (the timer's resolution); a token is *)
(* an f64 in the code and a whole number of units here, Whole units making *)
(* one token, so that a token can be partly there.                         *)
(*                                                                         *)
(* acquire() is a task that alternates critical sections on the mutex with *)
(* a sleep raced against a Notify.  Its control is pc:                     *)
(*   idle      not in acquire                                              *)
(*   attempt   at the head of the loop, about to take the lock             *)
(*   computed  out of the lock, holding sleep_for: nothing counts it down  *)
(*             yet, and no notification reaches the task                   *)
(*   armed     the timer runs, the Notified future is not created yet:     *)
(*             notify_waiters does not reach it                            *)
(*   sleeping  in select!, on the timer and on the Notified future         *)
(*   notified  in select!, the Notified future is ready                    *)
(*   granted   acquire returned Granted, the caller makes its TMDB call    *)
(*   expired   acquire returned DeadlineExceeded                           *)
(*   noting    inside note_429, between Instant::now() and the lock        *)
(*   notifying inside note_429, out of the lock, about to wake the waiters *)
(* A local of a call that has returned is 0.                               *)
(***************************************************************************)
EXTENDS Integers

CONSTANTS Callers,      \* the tasks that share the bucket
          Deadlines,    \* the deadlines they pass to acquire, in ticks
          RetryAfters,  \* the pauses a 429 may ask for, in ticks
          Whole,        \* units in one token
          Rate,         \* units that accrue in one tick (refill_per_sec)
          Capacity,     \* the bucket's ceiling, in units
          MaxTime,      \* bound: no deadline, pause or timer lies beyond it
          Marks         \* where the window RateBound looks at may start

ASSUME DeadlinesAssumption == Deadlines \subseteq Nat
ASSUME RetryAftersAssumption == RetryAfters \subseteq Nat
ASSUME WholeAssumption == Whole \in Nat \ {0}
ASSUME RateAssumption == Rate \in Nat
ASSUME CapacityAssumption == Capacity \in Nat
ASSUME MaxTimeAssumption == MaxTime \in Nat
ASSUME MarksAssumption == Marks \subseteq Nat

VARIABLES now,           \* Instant::now()
          tokens,        \* BucketState.tokens, in units
          last_refill,   \* BucketState.last_refill
          paused_until,  \* BucketState.paused_until
          pc,            \* caller -> where it is, see above
          give_up_at,    \* caller -> acquire's give_up_at
          sleep_for,     \* caller -> how long acquire is going to sleep
          wake_at,       \* caller -> the instant its timer fires
          until,         \* caller -> note_429's until
          mark,          \* history: an instant chosen at the start
          winGrants,     \* history: tokens granted at or after mark
          frozenUntil,   \* history: the latest end of a pause asked for so far
          late           \* history: caller -> the ticks that passed between its
                         \* last critical section and the start of its timer

bucket == <<tokens, last_refill, paused_until>>
timer == <<sleep_for, wake_at, late>>
history == <<mark, winGrants, frozenUntil>>
vars == <<now, bucket, pc, give_up_at, timer, until, history>>

\* paused_until's None.
None == -1

Waiting == {"attempt", "computed", "armed", "sleeping", "notified"}
PCs == Waiting \cup {"idle", "granted", "expired", "noting", "notifying"}

LesserOf(a, b) == IF a <= b THEN a ELSE b
GreaterOf(a, b) == IF a >= b THEN a ELSE b

\* The timer rounds a wait up to the next tick.
CeilDiv(a, b) == (a + b - 1) \div b

-----------------------------------------------------------------------------
(* BucketState                                                             *)

\* BucketState::refill(): the tokens there are once `t` is credited.
RefilledUncapped(t) == tokens + Rate * (t - last_refill)
Refilled(t) == LesserOf(tokens + Rate * (t - last_refill), Capacity)

\* A pause whose end has come is cleared under the lock.
PauseNow == IF now >= paused_until THEN None ELSE paused_until

\* note_429() extends a pause and never shortens it.
PauseOverwritten(u) == u
PauseExtended(u) ==
    IF paused_until # None /\ paused_until > u THEN paused_until ELSE u

\* How long acquire sleeps: to the end of the pause or to the next whole
\* token, and never past its own deadline.
WaitForFullToken(left, have) ==
    LesserOf(left, IF PauseNow # None THEN PauseNow - now
                   ELSE IF Rate > 0 THEN CeilDiv(Whole, Rate)
                   ELSE left)
Wait(left, have) ==
    LesserOf(left, IF PauseNow # None THEN PauseNow - now
                   ELSE IF Rate > 0 THEN CeilDiv(Whole - have, Rate)
                   ELSE left)

-----------------------------------------------------------------------------
(* TmdbBudget                                                              *)

\* TmdbBudget::new(): the bucket starts full.
Init ==
    /\ now = 0
    /\ tokens = Capacity
    /\ last_refill = 0
    /\ paused_until = None
    /\ pc = [c \in Callers |-> "idle"]
    /\ give_up_at = [c \in Callers |-> 0]
    /\ sleep_for = [c \in Callers |-> 0]
    /\ wake_at = [c \in Callers |-> 0]
    /\ late = [c \in Callers |-> 0]
    /\ until = [c \in Callers |-> 0]
    /\ mark \in Marks
    /\ winGrants = 0
    /\ frozenUntil = 0

\* Time may pass anywhere, also between the lock and the sleep it was computed
\* for.  Bound: not so much there that the timer would end after the clock.
Tick ==
    /\ now < MaxTime
    /\ \A c \in Callers : pc[c] = "computed" => now + sleep_for[c] < MaxTime
    /\ now' = now + 1
    /\ late' = [c \in Callers |->
                  IF pc[c] = "computed" THEN late[c] + 1 ELSE late[c]]
    /\ UNCHANGED <<bucket, pc, give_up_at, sleep_for, wake_at, until, history>>

\* acquire() is called.
Acquire(c) ==
    /\ pc[c] = "idle"
    /\ \E d \in Deadlines :
          /\ now + d <= MaxTime
          /\ give_up_at' = [give_up_at EXCEPT ![c] = now + d]
    /\ pc' = [pc EXCEPT ![c] = "attempt"]
    /\ UNCHANGED <<now, bucket, timer, until, history>>

\* The critical section grants: not paused, and a whole token is there.
GrantUnchecked(c) ==
    /\ pc[c] = "attempt"
    /\ PauseNow = None
    /\ tokens' = Refilled(now) - Whole
    /\ last_refill' = now
    /\ paused_until' = None
    /\ pc' = [pc EXCEPT ![c] = "granted"]
    /\ winGrants' = IF now >= mark THEN winGrants + 1 ELSE winGrants
    /\ UNCHANGED <<now, give_up_at, timer, until, mark, frozenUntil>>

Grant(c) ==
    /\ pc[c] = "attempt"
    /\ PauseNow = None
    /\ Refilled(now) >= Whole
    /\ tokens' = Refilled(now) - Whole
    /\ last_refill' = now
    /\ paused_until' = None
    /\ pc' = [pc EXCEPT ![c] = "granted"]
    /\ winGrants' = IF now >= mark THEN winGrants + 1 ELSE winGrants
    /\ UNCHANGED <<now, give_up_at, timer, until, mark, frozenUntil>>

\* What a critical section that does not grant leaves in the bucket: a bucket
\* that is not paused is refilled, a paused one is left as it is.
SettleRestamped ==
    /\ paused_until' = PauseNow
    /\ tokens' = IF PauseNow = None THEN Refilled(now) ELSE tokens
    /\ last_refill' = now

Settle ==
    /\ paused_until' = PauseNow
    /\ IF PauseNow = None
       THEN tokens' = Refilled(now) /\ last_refill' = now
       ELSE UNCHANGED <<tokens, last_refill>>

NoGrant(c) ==
    /\ pc[c] = "attempt"
    /\ PauseNow # None \/ Refilled(now) < Whole

\* The critical section gives up: the deadline has passed.
Expire(c) ==
    /\ NoGrant(c)
    /\ now >= give_up_at[c]
    /\ Settle
    /\ pc' = [pc EXCEPT ![c] = "expired"]
    /\ UNCHANGED <<now, give_up_at, timer, until, history>>

\* The critical section computes how long to sleep.
Compute(c) ==
    /\ NoGrant(c)
    /\ now < give_up_at[c]
    /\ Settle
    /\ sleep_for' = [sleep_for EXCEPT
          ![c] = Wait(give_up_at[c] - now, Refilled(now))]
    /\ pc' = [pc EXCEPT ![c] = "computed"]
    /\ UNCHANGED <<now, give_up_at, wake_at, late, until, history>>

\* sleep(sleep_for), after the lock is released: the timer starts now.
Arm(c) ==
    /\ pc[c] = "computed"
    /\ wake_at' = [wake_at EXCEPT ![c] = now + sleep_for[c]]
    /\ sleep_for' = [sleep_for EXCEPT ![c] = 0]
    /\ pc' = [pc EXCEPT ![c] = "armed"]
    /\ UNCHANGED <<now, bucket, give_up_at, late, until, history>>

\* notified() creates the Notified future: from here a notification reaches it.
Listen(c) ==
    /\ pc[c] = "armed"
    /\ pc' = [pc EXCEPT ![c] = "sleeping"]
    /\ UNCHANGED <<now, bucket, give_up_at, timer, until, history>>

\* select! returns, on the timer or on the notification.  A waiter whose
\* deadline has passed gives up without looking at the bucket again.
WakeOnNotifyOnly(c) ==
    /\ pc[c] = "notified"
    /\ pc' = [pc EXCEPT ![c] = IF now >= give_up_at[c] THEN "expired" ELSE "attempt"]
    /\ wake_at' = [wake_at EXCEPT ![c] = 0]
    /\ late' = [late EXCEPT ![c] = 0]
    /\ UNCHANGED <<now, bucket, give_up_at, sleep_for, until, history>>

Wake(c) ==
    /\ \/ pc[c] = "sleeping" /\ now >= wake_at[c]
       \/ pc[c] = "notified"
    /\ pc' = [pc EXCEPT ![c] = IF now >= give_up_at[c] THEN "expired" ELSE "attempt"]
    /\ wake_at' = [wake_at EXCEPT ![c] = 0]
    /\ late' = [late EXCEPT ![c] = 0]
    /\ UNCHANGED <<now, bucket, give_up_at, sleep_for, until, history>>

\* acquire's future is dropped before it resolves, or its answer is used up:
\* the call it paid for came back, or the caller degraded without one.
Leave(c) ==
    /\ pc[c] \in {"attempt", "sleeping", "notified", "granted", "expired"}
    /\ pc' = [pc EXCEPT ![c] = "idle"]
    /\ give_up_at' = [give_up_at EXCEPT ![c] = 0]
    /\ wake_at' = [wake_at EXCEPT ![c] = 0]
    /\ late' = [late EXCEPT ![c] = 0]
    /\ UNCHANGED <<now, bucket, sleep_for, until, history>>

\* The call a caller was granted came back with a 429: note_429() reads the
\* clock before it takes the lock.
Note429(c) ==
    /\ pc[c] = "granted"
    /\ \E r \in RetryAfters :
          /\ now + r <= MaxTime
          /\ until' = [until EXCEPT ![c] = now + r]
    /\ pc' = [pc EXCEPT ![c] = "noting"]
    /\ UNCHANGED <<now, bucket, give_up_at, timer, history>>

\* note_429() has the lock: it pauses the bucket.
Pause(c) ==
    /\ pc[c] = "noting"
    /\ paused_until' = PauseExtended(until[c])
    /\ frozenUntil' = GreaterOf(frozenUntil, until[c])
    /\ pc' = [pc EXCEPT ![c] = "notifying"]
    /\ give_up_at' = [give_up_at EXCEPT ![c] = 0]
    /\ until' = [until EXCEPT ![c] = 0]
    /\ UNCHANGED <<now, tokens, last_refill, timer, mark, winGrants>>

\* notify_waiters(), after the lock is released, wakes every waiter that has a
\* Notified future by now.
Notify(c) ==
    /\ pc[c] = "notifying"
    /\ pc' = [d \in Callers |->
                 IF d = c THEN "idle"
                 ELSE IF pc[d] = "sleeping" THEN "notified" ELSE pc[d]]
    /\ UNCHANGED <<now, bucket, give_up_at, timer, until, history>>

Run(c) == Grant(c) \/ Expire(c) \/ Compute(c) \/ Arm(c) \/ Listen(c) \/ Wake(c)

Next ==
    \/ Tick
    \/ \E c \in Callers :
          Acquire(c) \/ Run(c) \/ Leave(c)
             \/ Note429(c) \/ Pause(c) \/ Notify(c)

\* The clock advances, however busy the tasks keep the bound of Tick, and the
\* executor polls every task that can run.
Fairness == SF_vars(Tick) /\ \A c \in Callers : WF_vars(Run(c))

Spec == Init /\ [][Next]_vars /\ Fairness

-----------------------------------------------------------------------------
(* Properties                                                              *)

\* Every variable stays in its type: in particular the bucket never holds less
\* than nothing or more than its capacity, and is never refilled for a time
\* that has not passed yet.
TypeOK ==
    /\ now \in 0 .. MaxTime
    /\ tokens \in 0 .. Capacity
    /\ last_refill \in 0 .. now
    /\ paused_until \in {None} \cup (0 .. MaxTime)
    /\ pc \in [Callers -> PCs]
    /\ give_up_at \in [Callers -> 0 .. MaxTime]
    /\ sleep_for \in [Callers -> 0 .. MaxTime]
    /\ wake_at \in [Callers -> 0 .. MaxTime]
    /\ late \in [Callers -> Nat]
    /\ \A c \in Callers : pc[c] = "computed" => now + sleep_for[c] <= MaxTime
    /\ until \in [Callers -> 0 .. MaxTime]
    /\ mark \in Marks
    /\ winGrants \in Nat
    /\ frozenUntil \in 0 .. MaxTime

\* The budget's purpose: from any instant on (mark is arbitrary), the calls
\* granted are at most the burst and what the rate has brought since, whatever
\* the callers, the pauses and the withdrawals were before or are meanwhile.
RateBound ==
    now >= mark => winGrants * Whole <= Capacity + Rate * (now - mark)

\* No token is granted before the end of any pause a 429 asked for, in whatever
\* order the 429s reach the lock ("freezes *all* grants").
GrantRespectsPause ==
    [][\A c \in Callers :
          pc[c] # "granted" /\ pc'[c] = "granted" => now >= frozenUntil]_vars

\* Whether acquire would grant at instant t if nobody else came first.
GrantableAt(t) ==
    /\ paused_until = None \/ t >= paused_until
    /\ Refilled(t) >= Whole

\* The instant a waiter's critical section meant it to wake at.
Due(c) ==
    CASE pc[c] = "computed" -> now - late[c] + sleep_for[c]
      [] pc[c] \in {"armed", "sleeping"} -> wake_at[c] - late[c]
      [] OTHER -> 0

\* A waiter oversleeps, past its deadline or past the first instant it could have
\* had a token, by no more than its task was held up between the lock and the
\* start of the timer: the sleep itself was not too long when it was computed,
\* and nothing that happens until the wake, a notification missed in between
\* included, makes it so.
SleepNotTooLong ==
    \A c \in Callers :
        /\ Due(c) <= give_up_at[c]
        /\ \A t \in now .. Due(c) - 1 : ~GrantableAt(t)

\* Every acquire that is called returns (or is dropped).
EveryAcquireReturns ==
    \A c \in Callers : pc[c] \in Waiting ~> pc[c] \notin Waiting

\* The lazily refilled bucket with its sleeping callers is, step for step, the
\* bucket TokenBucket describes, which is refilled at every tick.
Status ==
    [c \in Callers |->
        IF pc[c] \in Waiting THEN "waiting"
        ELSE IF pc[c] = "expired" THEN "refused"
        ELSE IF pc[c] \in {"idle", "notifying"} THEN "idle" ELSE "granted"]

Promise == INSTANCE TokenBucket WITH
               avail <- Refilled(now), status <- Status, giveUp <- give_up_at

KeepsPromise == Promise!Spec
=============================================================================
