--------------------------- MODULE TmdbBudgetProofs ---------------------------
(***************************************************************************)
(* Theorems about TmdbBudget, for every set of callers, every rate, burst, *)
(* deadline and Retry-After.                                               *)
(*                                                                         *)
(* RateBound and GrantRespectsPause are not inductive: each needs what     *)
(* links the bucket's lazy state to the instants it stands for (RateInv,   *)
(* PauseInv).  SleepNotTooLong is inductive as it stands, on top of TypeOK. *)
(***************************************************************************)
EXTENDS TmdbBudget, TLAPS

\* At the last refill the calls granted in the window and the tokens left fit
\* into the burst and what the rate had brought by then.  A bucket last refilled
\* before the window began has granted nothing in it.
RateInv ==
    IF last_refill < mark
    THEN winGrants = 0
    ELSE winGrants * Whole + tokens <= Capacity + Rate * (last_refill - mark)

\* A bucket that is not paused owes no pause.  One that is paused is paused for
\* long enough, unless every pause asked for is over anyway: a 429 that waited
\* for the lock may leave an end that has already passed.
PauseInv ==
    \/ frozenUntil <= now
    \/ paused_until # None /\ frozenUntil <= paused_until

ConstantsOK ==
    /\ Deadlines \subseteq Nat
    /\ RetryAfters \subseteq Nat
    /\ Whole \in Nat \ {0}
    /\ Rate \in Nat
    /\ Capacity \in Nat
    /\ MaxTime \in Nat
    /\ Marks \subseteq Nat

\* What is assumed of the constants, under one name.
LEMMA Assumptions == ConstantsOK
BY DeadlinesAssumption, RetryAftersAssumption, WholeAssumption, RateAssumption,
   CapacityAssumption, MaxTimeAssumption, MarksAssumption DEF ConstantsOK

-----------------------------------------------------------------------------
(* The operators                                                           *)

\* The wait for a whole token is at least a tick, and one tick less would not
\* bring it.
LEMMA CeilDivTight ==
    ASSUME NEW a \in Nat \ {0}, NEW b \in Nat \ {0}
    PROVE  /\ CeilDiv(a, b) \in Nat \ {0}
           /\ \A k \in Nat : k < CeilDiv(a, b) => b * k < a
<1> DEFINE q == CeilDiv(a, b)
<1>1. q \in Int /\ b * q <= a + b - 1 /\ a + b - 1 < b * q + b
  BY Z3 DEF CeilDiv
<1>2. q > 0
  <2>1. SUFFICES ASSUME q <= 0 PROVE FALSE
    BY <1>1
  <2>2. b * q <= 0
    BY <1>1, <2>1
  <2>3. QED
    BY <1>1, <2>2
<1>3. ASSUME NEW k \in Nat, k < q
      PROVE  b * k < a
  <2>1. b * (k + 1) <= b * q
    BY <1>1, <1>3
  <2>2. b * (k + 1) = b * k + b
    OBVIOUS
  <2>3. QED
    BY <1>1, <2>1, <2>2
<1>4. QED
  BY <1>1, <1>2, <1>3

\* More time never means fewer tokens.
LEMMA RateMonotone ==
    ASSUME NEW r \in Nat, NEW s \in Nat, NEW t \in Nat, s <= t
    PROVE  r * s \in Nat /\ r * t \in Nat /\ r * s <= r * t
           /\ r * t = r * s + r * (t - s)
OBVIOUS

\* A refill keeps the bucket within its capacity, loses nothing, and a bucket
\* refilled now holds what it holds.
LEMMA RefilledBounds ==
    ASSUME TypeOK
    PROVE  /\ \A t \in Nat : t >= last_refill => Refilled(t) \in tokens .. Capacity
           /\ Refilled(last_refill) = tokens
<1>1. ASSUME NEW t \in Nat, t >= last_refill
      PROVE  Rate * (t - last_refill) \in Nat
  BY <1>1, Assumptions DEF TypeOK, ConstantsOK
<1>2. Rate * (last_refill - last_refill) = 0
  BY Assumptions DEF TypeOK, ConstantsOK
<1>3. QED
  BY <1>1, <1>2, Assumptions DEF TypeOK, ConstantsOK, Refilled, LesserOf

\* acquire's sleep is not negative and ends by its deadline.
LEMMA WaitBounds ==
    ASSUME TypeOK, NEW left \in Nat, NEW have \in Nat,
           PauseNow # None \/ have < Whole
    PROVE  Wait(left, have) \in 0 .. left
<1>1. CASE PauseNow # None
  BY <1>1 DEF TypeOK, Wait, LesserOf, PauseNow, None
<1>2. CASE PauseNow = None /\ Rate > 0
  <2>1. Whole - have \in Nat \ {0} /\ Rate \in Nat \ {0}
    BY <1>2, Assumptions DEF ConstantsOK
  <2>2. CeilDiv(Whole - have, Rate) \in Nat
    BY <2>1, CeilDivTight
  <2>3. QED
    BY <1>2, <2>2 DEF Wait, LesserOf
<1>3. CASE PauseNow = None /\ ~(Rate > 0)
  BY <1>3 DEF Wait, LesserOf
<1>4. QED
  BY <1>1, <1>2, <1>3

-----------------------------------------------------------------------------
(* Type correctness                                                        *)

\* The bucket starts in its type.
LEMMA TypeAtStart == Init => TypeOK
BY Assumptions DEF ConstantsOK, Init, TypeOK, PCs, Waiting, None

\* One step keeps every variable in its type.
LEMMA TypeStep ==
    ASSUME TypeOK, [Next]_vars
    PROVE  TypeOK'
<1> USE Assumptions DEF ConstantsOK
<1> USE DEF PCs, Waiting
<1>1. Refilled(now) \in tokens .. Capacity
  BY RefilledBounds DEF TypeOK
<1>2. PauseNow \in {None} \cup (0 .. MaxTime)
  BY DEF TypeOK, PauseNow, None
<1>3. CASE Tick
  BY <1>3 DEF Tick, TypeOK, bucket, history
<1>4. ASSUME NEW c \in Callers, Acquire(c) PROVE TypeOK'
  BY <1>4 DEF Acquire, TypeOK, bucket, timer, history
<1>5. ASSUME NEW c \in Callers, Grant(c) PROVE TypeOK'
  BY <1>1, <1>5 DEF Grant, TypeOK, timer
<1>6. ASSUME NEW c \in Callers, Expire(c) PROVE TypeOK'
  BY <1>1, <1>2, <1>6 DEF Expire, Settle, TypeOK, timer, history
<1>7. ASSUME NEW c \in Callers, Compute(c) PROVE TypeOK'
  <2> DEFINE s == Wait(give_up_at[c] - now, Refilled(now))
  <2>1. s \in 0 .. MaxTime /\ now + s <= MaxTime
    <3>1. give_up_at[c] - now \in Nat /\ give_up_at[c] \in 0 .. MaxTime
      BY <1>7 DEF Compute, TypeOK
    <3>2. s \in 0 .. (give_up_at[c] - now)
      BY <1>1, <1>7, <3>1, WaitBounds DEF Compute, NoGrant, TypeOK
    <3>3. QED
      BY <3>1, <3>2 DEF TypeOK
  <2>2. sleep_for' = [sleep_for EXCEPT ![c] = s]
    BY <1>7 DEF Compute
  <2> HIDE DEF s
  <2>3. QED
    BY <1>1, <1>2, <1>7, <2>1, <2>2 DEF Compute, Settle, TypeOK, history
<1>8. ASSUME NEW c \in Callers, Arm(c) PROVE TypeOK'
  BY <1>8 DEF Arm, TypeOK, bucket, history
<1>9. ASSUME NEW c \in Callers, Listen(c) PROVE TypeOK'
  BY <1>9 DEF Listen, TypeOK, bucket, timer, history
<1>10. ASSUME NEW c \in Callers, Wake(c) PROVE TypeOK'
  BY <1>10 DEF Wake, TypeOK, bucket, history
<1>11. ASSUME NEW c \in Callers, Leave(c) PROVE TypeOK'
  BY <1>11 DEF Leave, TypeOK, bucket, history
<1>12. ASSUME NEW c \in Callers, Note429(c) PROVE TypeOK'
  BY <1>12 DEF Note429, TypeOK, bucket, timer, history
<1>13. ASSUME NEW c \in Callers, Pause(c) PROVE TypeOK'
  <2>1. PauseExtended(until[c]) \in 0 .. MaxTime
    BY DEF TypeOK, PauseExtended, None
  <2>2. QED
    BY <1>13, <2>1 DEF Pause, TypeOK, timer, GreaterOf
<1>14. ASSUME NEW c \in Callers, Notify(c) PROVE TypeOK'
  BY <1>14 DEF Notify, TypeOK, bucket, timer, history
<1>15. CASE UNCHANGED vars
  BY <1>15 DEF vars, bucket, timer, history, TypeOK
<1>16. QED
  BY <1>3, <1>4, <1>5, <1>6, <1>7, <1>8, <1>9, <1>10, <1>11, <1>12, <1>13, <1>14,
     <1>15 DEF Next, Run

\* Every variable keeps its type; the bucket stays between empty and full.
THEOREM TypeCorrect == Spec => []TypeOK
<1>1. Init => TypeOK
  BY TypeAtStart
<1>2. TypeOK /\ [Next]_vars => TypeOK'
  BY TypeStep
<1>3. QED
  BY <1>1, <1>2, PTL DEF Spec

-----------------------------------------------------------------------------
(* The rate                                                                *)

\* A critical section that refills the bucket keeps the account RateInv keeps:
\* the credit is at most what the rate brought, and a window that begins after
\* the last refill begins with at most a full bucket.
LEMMA RefillKeepsAccount ==
    ASSUME TypeOK, RateInv
    PROVE  now >= mark =>
              winGrants * Whole + Refilled(now) <= Capacity + Rate * (now - mark)
<1> USE Assumptions DEF ConstantsOK, TypeOK
<1>1. Refilled(now) <= tokens + Rate * (now - last_refill) /\ Refilled(now) <= Capacity
      /\ Refilled(now) \in Nat
  BY RefilledBounds DEF Refilled, LesserOf
<1>2. CASE last_refill < mark
  <2>1. winGrants * Whole = 0
    BY <1>2 DEF RateInv
  <2>2. ASSUME now >= mark PROVE Rate * (now - mark) \in Nat
    BY <2>2
  <2>3. QED
    BY <1>1, <2>1, <2>2
<1>3. CASE last_refill >= mark
  <2>1. Rate * (now - mark)
           = Rate * (last_refill - mark) + Rate * (now - last_refill)
    <3>1. last_refill - mark \in Nat /\ now - mark \in Nat
          /\ last_refill - mark <= now - mark
      BY <1>3
    <3>2. QED
      BY <3>1, RateMonotone
  <2>2. winGrants * Whole + tokens <= Capacity + Rate * (last_refill - mark)
    BY <1>3 DEF RateInv
  <2>3. QED
    BY <1>1, <2>1, <2>2
<1>4. QED
  BY <1>2, <1>3

\* One step keeps the account.
LEMMA RateInvStep ==
    ASSUME TypeOK, RateInv, [Next]_vars
    PROVE  RateInv'
<1> USE Assumptions DEF ConstantsOK, TypeOK
<1>1. now >= mark =>
         winGrants * Whole + Refilled(now) <= Capacity + Rate * (now - mark)
  BY RefillKeepsAccount
<1>2. ASSUME NEW c \in Callers, Grant(c) PROVE RateInv'
  <2>1. CASE now >= mark
    <3>1. (winGrants + 1) * Whole = winGrants * Whole + Whole
      OBVIOUS
    <3>2. Refilled(now) \in Nat /\ winGrants * Whole \in Nat
      BY RefilledBounds
    <3>3. QED
      BY <1>1, <1>2, <2>1, <3>1, <3>2 DEF Grant, RateInv
  <2>2. CASE now < mark
    BY <1>2, <2>2 DEF Grant, RateInv
  <2>3. QED
    BY <2>1, <2>2
<1>3. ASSUME Settle, UNCHANGED <<now, history>> PROVE RateInv'
  <2>1. CASE PauseNow = None
    <3>1. now < mark => winGrants = 0
      BY DEF RateInv
    <3>2. QED
      BY <1>1, <1>3, <2>1, <3>1 DEF Settle, RateInv, history
  <2>2. CASE PauseNow # None
    BY <1>3, <2>2 DEF Settle, RateInv, history
  <2>3. QED
    BY <2>1, <2>2
<1>4. ASSUME UNCHANGED <<tokens, last_refill, mark, winGrants>> PROVE RateInv'
  BY <1>4 DEF RateInv
<1>5. QED
  BY <1>2, <1>3, <1>4 DEF Next, Run, vars, bucket, history, Tick, Acquire, Expire,
     Compute, Arm, Listen, Wake, Leave, Note429, Pause, Notify

\* The account starts with a full bucket.
LEMMA RateInvAtStart == Init => RateInv
BY Assumptions DEF Init, RateInv, ConstantsOK

\* The account bounds the calls granted so far.
LEMMA RateInvBounds ==
    ASSUME TypeOK, RateInv
    PROVE  RateBound
<1> SUFFICES ASSUME now >= mark
             PROVE  winGrants * Whole <= Capacity + Rate * (now - mark)
  BY DEF RateBound
<1>1. Refilled(now) \in Nat
  BY RefilledBounds, Assumptions DEF TypeOK, ConstantsOK
<1>2. winGrants * Whole \in Nat /\ Rate * (now - mark) \in Int
  BY Assumptions DEF TypeOK, ConstantsOK
<1>3. QED
  BY <1>1, <1>2, RefillKeepsAccount, Assumptions DEF ConstantsOK

\* From any instant on, the calls granted never exceed the burst plus what the
\* rate brought since.
THEOREM RateBoundHolds == Spec => []RateBound
<1>1. Init => RateInv
  BY RateInvAtStart
<1>2. TypeOK /\ RateInv /\ [Next]_vars => RateInv'
  BY RateInvStep
<1>3. TypeOK /\ RateInv => RateBound
  BY RateInvBounds
<1>4. QED
  BY <1>1, <1>2, <1>3, TypeCorrect, PTL DEF Spec

-----------------------------------------------------------------------------
(* The pause                                                               *)

\* One step keeps the link between the bucket's pause and the 429s.
LEMMA PauseInvStep ==
    ASSUME TypeOK, PauseInv, [Next]_vars
    PROVE  PauseInv'
<1> USE Assumptions DEF ConstantsOK, TypeOK, PauseInv
<1>1. CASE Tick
  BY <1>1 DEF Tick, bucket, history
<1>2. ASSUME NEW c \in Callers, Grant(c) PROVE PauseInv'
  BY <1>2 DEF Grant, PauseNow
<1>3. ASSUME Settle, UNCHANGED <<now, history>> PROVE PauseInv'
  BY <1>3 DEF Settle, PauseNow, history
<1>4. ASSUME NEW c \in Callers, Pause(c) PROVE PauseInv'
  BY <1>4 DEF Pause, PauseExtended, GreaterOf, None
<1>5. ASSUME UNCHANGED <<now, paused_until, frozenUntil>> PROVE PauseInv'
  BY <1>5
<1>6. QED
  BY <1>1, <1>2, <1>3, <1>4, <1>5 DEF Next, Run, vars, bucket, history, Acquire,
     Expire, Compute, Arm, Listen, Wake, Leave, Note429, Notify

\* At the start no pause is owed.
LEMMA PauseInvAtStart == Init => PauseInv
BY DEF Init, PauseInv

\* A grant waits for the end of every pause asked for.
LEMMA GrantAfterPause ==
    ASSUME TypeOK, PauseInv, [Next]_vars, NEW c \in Callers,
           pc[c] # "granted", pc'[c] = "granted"
    PROVE  now >= frozenUntil
<1>1. Grant(c)
  BY DEF Next, Run, vars, Tick, Acquire, Grant, Expire, Compute, Arm, Listen,
     Wake, Leave, Note429, Pause, Notify, TypeOK
<1>2. PauseNow = None
  BY <1>1 DEF Grant
<1>3. QED
  BY <1>2 DEF PauseNow, PauseInv, TypeOK

\* The link holds at all times.
LEMMA PauseLinked == Spec => []PauseInv
<1>1. Init => PauseInv
  BY PauseInvAtStart
<1>2. TypeOK /\ PauseInv /\ [Next]_vars => PauseInv'
  BY PauseInvStep
<1>3. QED
  BY <1>1, <1>2, TypeCorrect, PTL DEF Spec

\* No token is granted before the end of any pause a 429 asked for.
THEOREM PauseRespected == Spec => GrantRespectsPause
<1> DEFINE Respects == \A c \in Callers :
               pc[c] # "granted" /\ pc'[c] = "granted" => now >= frozenUntil
<1>1. TypeOK /\ PauseInv /\ [Next]_vars => [Respects]_vars
  BY GrantAfterPause
<1>2. QED
  BY <1>1, TypeCorrect, PauseLinked, PTL DEF Spec, GrantRespectsPause

-----------------------------------------------------------------------------
(* The sleep                                                               *)

\* Refilling now and again at t gives what refilling once at t gives.
LEMMA RefilledCompose ==
    ASSUME TypeOK, NEW t \in Nat, t >= now
    PROVE  LesserOf(Refilled(now) + Rate * (t - now), Capacity) = Refilled(t)
<1> USE Assumptions DEF ConstantsOK, TypeOK
<1>1. /\ Rate * (now - last_refill) \in Nat
      /\ Rate * (t - now) \in Nat
      /\ Rate * (t - last_refill)
            = Rate * (now - last_refill) + Rate * (t - now)
  <2>1. now - last_refill \in Nat /\ t - last_refill \in Nat
        /\ now - last_refill <= t - last_refill
        /\ (t - last_refill) - (now - last_refill) = t - now
    OBVIOUS
  <2>2. QED
    BY <2>1, RateMonotone
<1>2. QED
  BY <1>1 DEF Refilled, LesserOf

\* A critical section that does not grant changes nothing for the instants to
\* come: neither when the pause ends nor how many tokens there will be.
LEMMA SettleSame ==
    ASSUME TypeOK, Settle, UNCHANGED now, NEW t \in Nat, t >= now
    PROVE  GrantableAt(t)' = GrantableAt(t) /\ Refilled(t)' = Refilled(t)
<1>1. Refilled(t)' = Refilled(t)
  <2>1. CASE PauseNow = None
    BY <2>1, RefilledCompose DEF Settle, Refilled
  <2>2. CASE PauseNow # None
    BY <2>2 DEF Settle, Refilled
  <2>3. QED
    BY <2>1, <2>2
<1>2. (paused_until = None \/ t >= paused_until)' = (paused_until = None \/ t >= paused_until)
  BY DEF Settle, PauseNow, TypeOK, None
<1>3. QED
  BY <1>1, <1>2 DEF GrantableAt

\* A grant leaves fewer tokens for every instant to come.
LEMMA GrantLeavesFewer ==
    ASSUME TypeOK, NEW c \in Callers, Grant(c), NEW t \in Nat, t >= now
    PROVE  GrantableAt(t)' => GrantableAt(t)
<1> USE Assumptions DEF ConstantsOK, TypeOK
<1>1. Refilled(t)' <= Refilled(t)
  <2>1. Refilled(now) \in Nat /\ Rate * (t - now) \in Nat
    BY RefilledBounds
  <2>2. Refilled(t)' = LesserOf(Refilled(now) - Whole + Rate * (t - now), Capacity)
    BY DEF Grant, Refilled
  <2>3. QED
    BY <2>1, <2>2, RefilledCompose DEF LesserOf
<1>2. paused_until = None \/ t >= paused_until
  BY DEF Grant, PauseNow
<1>3. Refilled(t)' \in Int /\ Refilled(t) \in Int
  <2>1. Refilled(t) \in Int
    BY RefilledBounds
  <2>2. Refilled(now) \in Nat /\ Rate * (t - now) \in Nat
    BY RefilledBounds
  <2>3. QED
    BY <2>1, <2>2 DEF Grant, Refilled, LesserOf
<1>4. QED
  BY <1>1, <1>2, <1>3 DEF GrantableAt

\* A pause leaves fewer instants.
LEMMA PauseLeavesFewer ==
    ASSUME TypeOK, NEW c \in Callers, Pause(c), NEW t \in Nat
    PROVE  GrantableAt(t)' => GrantableAt(t)
BY DEF Pause, PauseExtended, GrantableAt, Refilled, TypeOK, None

\* The wait the critical section computes: no instant before its end can grant.
LEMMA WaitIsQuiet ==
    ASSUME TypeOK, NEW c \in Callers, Compute(c), NEW t \in Nat, t >= now,
           t < now + Wait(give_up_at[c] - now, Refilled(now))
    PROVE  ~GrantableAt(t)
<1> USE Assumptions DEF ConstantsOK, TypeOK
<1>1. CASE PauseNow # None
  BY <1>1 DEF Wait, LesserOf, PauseNow, GrantableAt
<1>2. CASE PauseNow = None /\ Rate > 0
  <2>1. Refilled(now) \in Nat /\ Refilled(now) < Whole
    BY <1>2, RefilledBounds DEF Compute, NoGrant
  <2>2. t - now < CeilDiv(Whole - Refilled(now), Rate)
    <3>1. CeilDiv(Whole - Refilled(now), Rate) \in Nat
      BY <1>2, <2>1, CeilDivTight
    <3>2. give_up_at[c] - now \in Int
      BY DEF Compute
    <3>3. QED
      BY <1>2, <3>1, <3>2 DEF Wait, LesserOf
  <2>3. Rate * (t - now) < Whole - Refilled(now)
    BY <1>2, <2>1, <2>2, CeilDivTight
  <2>4. Rate * (t - now) \in Int
    OBVIOUS
  <2>5. Refilled(t) < Whole
    BY <2>1, <2>3, <2>4, RefilledCompose DEF LesserOf
  <2>6. QED
    BY <2>1, <2>5, RefilledBounds DEF GrantableAt
<1>3. CASE PauseNow = None /\ Rate = 0
  <2>1. Refilled(now) \in Nat /\ Refilled(now) < Whole
    BY <1>3, RefilledBounds DEF Compute, NoGrant
  <2>2. Rate * (t - now) = 0
    BY <1>3
  <2>3. Refilled(t) < Whole
    BY <2>1, <2>2, RefilledCompose DEF LesserOf
  <2>4. QED
    BY <2>3, RefilledBounds DEF GrantableAt
<1>4. QED
  BY <1>1, <1>2, <1>3

\* One step keeps every sleep short enough.
LEMMA SleepNotTooLongStep ==
    ASSUME TypeOK, SleepNotTooLong, [Next]_vars
    PROVE  SleepNotTooLong'
<1> USE Assumptions DEF ConstantsOK
<1> SUFFICES ASSUME NEW d \in Callers
             PROVE  /\ Due(d)' <= give_up_at'[d]
                    /\ \A t \in now' .. Due(d)' - 1 : ~GrantableAt(t)'
  BY DEF SleepNotTooLong
<1> DEFINE Goal == /\ Due(d)' <= give_up_at'[d]
                   /\ \A t \in now' .. Due(d)' - 1 : ~GrantableAt(t)'
           Timed == pc[d] \in {"computed", "armed", "sleeping"}
           Fewer == \A t \in Nat : t >= now /\ GrantableAt(t)' => GrantableAt(t)
<1>1. Due(d) \in Int /\ Due(d) <= give_up_at[d]
      /\ \A t \in now .. Due(d) - 1 : ~GrantableAt(t)
  BY DEF SleepNotTooLong, TypeOK, Due
<1>2. ASSUME pc'[d] \notin {"computed", "armed", "sleeping"}, give_up_at'[d] \in Nat,
             now' \in Nat
      PROVE  Goal
  BY <1>2 DEF Due
<1>3. ASSUME Due(d)' = Due(d), give_up_at'[d] = give_up_at[d], now' = now, Fewer
      PROVE  Goal
  BY <1>1, <1>3 DEF TypeOK
<1>4. give_up_at' \in [Callers -> Nat] /\ now' \in Nat
  BY TypeStep DEF TypeOK
<1>5. ASSUME UNCHANGED bucket
      PROVE  \A t \in Nat : GrantableAt(t)' = GrantableAt(t)
  BY <1>5 DEF bucket, GrantableAt, Refilled
<1>6. CASE Tick
  <2>1. Due(d)' = Due(d) /\ give_up_at' = give_up_at /\ now' = now + 1
    BY <1>6 DEF Tick, Due, TypeOK
  <2>2. UNCHANGED bucket
    BY <1>6 DEF Tick
  <2>3. QED
    BY <1>1, <1>5, <2>1, <2>2 DEF TypeOK
<1>7. ASSUME NEW c \in Callers, Acquire(c) \/ Arm(c) \/ Listen(c) \/ Wake(c) \/ Leave(c)
                                   \/ Note429(c) \/ Notify(c)
      PROVE  Goal
  <2>1. UNCHANGED <<now, bucket>>
    BY <1>7 DEF Acquire, Arm, Listen, Wake, Leave, Note429, Notify
  <2>2. CASE pc'[d] \in {"computed", "armed", "sleeping"}
    <3>1. Due(d)' = Due(d) /\ give_up_at'[d] = give_up_at[d]
      <4>1. CASE Arm(c)
        BY <2>2, <4>1 DEF Arm, Due, TypeOK
      <4>2. CASE Acquire(c) \/ Note429(c)
        BY <2>2, <4>2 DEF Acquire, Note429, Due, timer, TypeOK
      <4>3. CASE Listen(c) \/ Notify(c)
        BY <2>2, <4>3 DEF Listen, Notify, Due, timer, TypeOK
      <4>4. CASE Wake(c) \/ Leave(c)
        BY <2>2, <4>4 DEF Wake, Leave, Due, TypeOK
      <4>5. QED
        BY <1>7, <4>1, <4>2, <4>3, <4>4
    <3>2. QED
      BY <1>3, <1>5, <2>1, <3>1
  <2>3. QED
    BY <1>2, <1>4, <2>2
<1>8. ASSUME NEW c \in Callers, Grant(c) \/ Expire(c) \/ Pause(c), Fewer
      PROVE  Goal
  <2>1. CASE pc'[d] \in {"computed", "armed", "sleeping"}
    <3>1. Due(d)' = Due(d) /\ give_up_at'[d] = give_up_at[d] /\ now' = now
      BY <1>8, <2>1 DEF Grant, Expire, Pause, Due, timer, TypeOK
    <3>2. QED
      BY <1>3, <1>8, <3>1
  <2>2. QED
    BY <1>2, <1>4, <2>1
<1>9. ASSUME NEW c \in Callers, Compute(c)
      PROVE  Goal
  <2>1. Settle /\ UNCHANGED <<now, give_up_at>>
    BY <1>9 DEF Compute
  <2>2. CASE d # c
    <3>1. Due(d)' = Due(d)
      BY <1>9, <2>2 DEF Compute, Due, TypeOK
    <3>2. QED
      BY <1>3, <2>1, <3>1, SettleSame
  <2>3. CASE d = c
    <3> DEFINE s == Wait(give_up_at[c] - now, Refilled(now))
    <3>1. s \in 0 .. (give_up_at[c] - now)
      <4>1. give_up_at[c] - now \in Nat
        BY <1>9 DEF Compute, TypeOK
      <4>2. Refilled(now) \in Nat
        BY RefilledBounds DEF TypeOK
      <4>3. QED
        BY <1>9, <4>1, <4>2, WaitBounds DEF Compute, NoGrant
    <3>2. pc'[c] = "computed" /\ sleep_for'[c] = s /\ late' = late
      BY <1>9 DEF Compute, TypeOK
    <3> HIDE DEF s
    <3>3. Due(c)' = now - late[c] + s /\ Due(c)' <= now + s
      BY <2>1, <3>1, <3>2 DEF Due, TypeOK
    <3>4. \A t \in now .. now + s - 1 : ~GrantableAt(t)'
      <4>1. SUFFICES ASSUME NEW t \in now .. now + s - 1
                     PROVE  ~GrantableAt(t)'
        OBVIOUS
      <4>2. t \in Nat /\ t >= now /\ t < now + s
        BY <3>1 DEF TypeOK
      <4>3. ~GrantableAt(t)
        BY <1>9, <4>2, WaitIsQuiet DEF s
      <4>4. QED
        BY <2>1, <4>2, <4>3, SettleSame
    <3>5. QED
      BY <2>1, <2>3, <3>1, <3>3, <3>4 DEF TypeOK
  <2>4. QED
    BY <2>2, <2>3
<1>10. CASE UNCHANGED vars
  <2>1. Due(d)' = Due(d) /\ UNCHANGED <<now, give_up_at, bucket>>
    BY <1>10 DEF vars, timer, Due
  <2>2. QED
    BY <1>3, <1>5, <2>1
<1>11. QED
  <2>1. ASSUME NEW c \in Callers, Grant(c) PROVE Fewer
    BY <2>1, GrantLeavesFewer
  <2>2. ASSUME NEW c \in Callers, Expire(c) PROVE Fewer
    BY <2>2, SettleSame DEF Expire
  <2>3. ASSUME NEW c \in Callers, Pause(c) PROVE Fewer
    BY <2>3, PauseLeavesFewer
  <2>4. QED
    BY <1>6, <1>7, <1>8, <1>9, <1>10, <2>1, <2>2, <2>3 DEF Next, Run

\* Nobody sleeps at the start.
LEMMA NoSleepAtStart == Init => SleepNotTooLong
<1> SUFFICES ASSUME Init, NEW c \in Callers
             PROVE  /\ Due(c) <= give_up_at[c]
                    /\ \A t \in now .. Due(c) - 1 : ~GrantableAt(t)
  BY DEF SleepNotTooLong
<1>1. Due(c) = 0 /\ give_up_at[c] = 0 /\ now = 0
  BY DEF Init, Due
<1>2. QED
  BY <1>1

\* No sleep is computed too long, and none becomes too long: a waiter oversleeps
\* by no more than the time its task lost between the lock and the timer.
THEOREM SleepNotTooLongHolds == Spec => []SleepNotTooLong
<1>1. Init => SleepNotTooLong
  BY NoSleepAtStart
<1>2. TypeOK /\ SleepNotTooLong /\ [Next]_vars => SleepNotTooLong'
  BY SleepNotTooLongStep
<1>3. QED
  BY <1>1, <1>2, TypeCorrect, PTL DEF Spec

-----------------------------------------------------------------------------
(* The promise                                                             *)

\* Every step of the lazy bucket is a step of the bucket TokenBucket describes,
\* or leaves it as it is.
LEMMA PromiseStep ==
    ASSUME TypeOK, PauseInv, [Next]_vars
    PROVE  [Promise!Next]_(Promise!vars)
<1> USE Assumptions DEF ConstantsOK
<1> USE DEF Promise!vars
<1>1. Refilled(now) \in 0 .. Capacity
  BY RefilledBounds DEF TypeOK
<1>2. ASSUME UNCHANGED <<now, bucket>> PROVE UNCHANGED Refilled(now)
  BY <1>2 DEF bucket, Refilled
<1>3. CASE Tick
  <2>1. Refilled(now)' = LesserOf(Refilled(now) + Rate, Capacity)
    <3>1. LesserOf(Refilled(now) + Rate * ((now + 1) - now), Capacity) = Refilled(now + 1)
      <4>1. now + 1 \in Nat /\ now + 1 >= now
        BY DEF TypeOK
      <4>2. QED
        BY <4>1, RefilledCompose
    <3>2. Rate * ((now + 1) - now) = Rate
      BY DEF TypeOK
    <3>3. Refilled(now)' = Refilled(now + 1)
      BY <1>3 DEF Tick, bucket, Refilled
    <3>4. QED
      BY <3>1, <3>2, <3>3
  <2>2. Promise!Tick
    BY <1>3, <2>1 DEF Tick, Promise!Tick, Promise!LesserOf, LesserOf, Status,
       bucket, history
  <2>3. QED
    BY <2>2 DEF Promise!Next
<1>4. ASSUME NEW c \in Callers, Acquire(c) PROVE Promise!Ask(c)
  <2>1. UNCHANGED Refilled(now)
    BY <1>2, <1>4 DEF Acquire
  <2>2. Status' = [Status EXCEPT ![c] = "waiting"]
    BY <1>4 DEF Acquire, Status, Waiting, TypeOK
  <2>3. Status[c] = "idle"
    BY <1>4 DEF Acquire, Status, Waiting
  <2>4. QED
    BY <1>4, <2>1, <2>2, <2>3 DEF Acquire, Promise!Ask, history
<1>5. ASSUME NEW c \in Callers, Grant(c) PROVE Promise!Grant(c)
  <2>1. Refilled(now)' = Refilled(now) - Whole
    <3>1. Rate * (now - now) = 0
      BY DEF TypeOK
    <3>2. QED
      BY <1>1, <1>5, <3>1 DEF Grant, Refilled, LesserOf
  <2>2. Status' = [Status EXCEPT ![c] = "granted"]
    BY <1>5 DEF Grant, Status, Waiting, TypeOK
  <2>3. Status[c] = "waiting"
    BY <1>5 DEF Grant, Status, Waiting
  <2>4. now >= frozenUntil
    BY <1>5 DEF Grant, PauseNow, PauseInv, TypeOK
  <2>5. QED
    BY <1>5, <2>1, <2>2, <2>3, <2>4 DEF Grant, Promise!Grant
<1>6. ASSUME NEW c \in Callers, Expire(c) PROVE Promise!Refuse(c)
  <2>1. UNCHANGED Refilled(now)
    BY <1>6, SettleSame DEF Expire, TypeOK
  <2>2. Status' = [Status EXCEPT ![c] = "refused"]
    BY <1>6 DEF Expire, NoGrant, Status, Waiting, TypeOK
  <2>3. Status[c] = "waiting"
    BY <1>6 DEF Expire, NoGrant, Status, Waiting
  <2>4. QED
    BY <1>6, <2>1, <2>2, <2>3 DEF Expire, Promise!Refuse, history
<1>7. ASSUME NEW c \in Callers, Compute(c) PROVE UNCHANGED Promise!vars
  <2>1. UNCHANGED Refilled(now)
    BY <1>7, SettleSame DEF Compute, TypeOK
  <2>2. UNCHANGED Status
    BY <1>7 DEF Compute, NoGrant, Status, Waiting, TypeOK
  <2>3. QED
    BY <1>7, <2>1, <2>2 DEF Compute, history
<1>8. ASSUME NEW c \in Callers, Arm(c) \/ Listen(c) PROVE UNCHANGED Promise!vars
  <2>1. UNCHANGED Status
    BY <1>8 DEF Arm, Listen, Status, Waiting, TypeOK
  <2>2. QED
    BY <1>2, <1>8, <2>1 DEF Arm, Listen, history
<1>9. ASSUME NEW c \in Callers, Wake(c) PROVE [Promise!Refuse(c)]_(Promise!vars)
  <2>1. UNCHANGED <<now, frozenUntil, give_up_at>> /\ UNCHANGED Refilled(now)
    BY <1>2, <1>9 DEF Wake, history
  <2>2. Status[c] = "waiting"
    BY <1>9 DEF Wake, Status, Waiting
  <2>3. CASE now >= give_up_at[c]
    <3>1. Status' = [Status EXCEPT ![c] = "refused"]
      BY <1>9, <2>3 DEF Wake, Status, Waiting, TypeOK
    <3>2. QED
      BY <2>1, <2>2, <2>3, <3>1 DEF Promise!Refuse
  <2>4. CASE ~(now >= give_up_at[c])
    <3>1. UNCHANGED Status
      BY <1>9, <2>4 DEF Wake, Status, Waiting, TypeOK
    <3>2. QED
      BY <2>1, <3>1
  <2>5. QED
    BY <2>3, <2>4
<1>10. ASSUME NEW c \in Callers, Leave(c) PROVE Promise!Leave(c)
  <2>1. UNCHANGED Refilled(now)
    BY <1>2, <1>10 DEF Leave
  <2>2. Status' = [Status EXCEPT ![c] = "idle"]
    BY <1>10 DEF Leave, Status, Waiting, TypeOK
  <2>3. Status[c] # "idle"
    BY <1>10 DEF Leave, Status, Waiting
  <2>4. QED
    BY <1>10, <2>1, <2>2, <2>3 DEF Leave, Promise!Leave, history
<1>11. ASSUME NEW c \in Callers, Note429(c) PROVE UNCHANGED Promise!vars
  <2>1. UNCHANGED Status
    BY <1>11 DEF Note429, Status, Waiting, TypeOK
  <2>2. QED
    BY <1>2, <1>11, <2>1 DEF Note429, history
<1>12. ASSUME NEW c \in Callers, Pause(c) PROVE Promise!Freeze(c)
  <2>1. UNCHANGED Refilled(now)
    BY <1>12 DEF Pause, Refilled
  <2>2. Status' = [Status EXCEPT ![c] = "idle"]
    BY <1>12 DEF Pause, Status, Waiting, TypeOK
  <2>3. Status[c] = "granted"
    BY <1>12 DEF Pause, Status, Waiting
  <2>4. frozenUntil' \in frozenUntil .. MaxTime
    BY <1>12 DEF Pause, GreaterOf, TypeOK
  <2>5. QED
    BY <1>12, <2>1, <2>2, <2>3, <2>4 DEF Pause, Promise!Freeze
<1>13. ASSUME NEW c \in Callers, Notify(c) PROVE UNCHANGED Promise!vars
  <2>1. UNCHANGED Status
    BY <1>13 DEF Notify, Status, Waiting, TypeOK
  <2>2. QED
    BY <1>2, <1>13, <2>1 DEF Notify, history
<1>14. CASE UNCHANGED vars
  <2>1. UNCHANGED <<Status, now, frozenUntil, give_up_at>>
    BY <1>14 DEF vars, Status, history
  <2>2. QED
    BY <1>2, <1>14, <2>1 DEF vars
<1>15. QED
  BY <1>3, <1>4, <1>5, <1>6, <1>7, <1>8, <1>9, <1>10, <1>11, <1>12, <1>13, <1>14
     DEF Next, Run, Promise!Next, Promise!Answer

\* The budget implements TokenBucket: initial states to initial states, steps to
\* steps or stutters.
THEOREM BudgetImplementsPromise ==
    Spec => Promise!Init /\ [][Promise!Next]_(Promise!vars)
<1>1. Init => Promise!Init
  <2> SUFFICES ASSUME Init PROVE Promise!Init
    OBVIOUS
  <2>1. Refilled(now) = Capacity
    BY Assumptions DEF Init, Refilled, LesserOf, ConstantsOK
  <2>2. Status = [c \in Callers |-> "idle"]
    BY DEF Init, Status, Waiting
  <2>3. QED
    BY <2>1, <2>2 DEF Init, Promise!Init
<1>2. TypeOK /\ PauseInv /\ [Next]_vars => [Promise!Next]_(Promise!vars)
  BY PromiseStep
<1>3. QED
  BY <1>1, <1>2, TypeCorrect, PauseLinked, PTL DEF Spec
=============================================================================
