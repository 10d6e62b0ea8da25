--------------------------- MODULE ClLimiterProofs --------------------------
(***************************************************************************)
(* The timer first, then what the limiter makes of it.                     *)
(*                                                                         *)
(* What the limiter drops and what it reports, for every width of the      *)
(* clock, every period and every set of messages, provided that periods    *)
(* and the time between two polls fit in half the clock's range.           *)
(*                                                                         *)
(* The invariant: while the limiter's timer runs, the wrapped difference   *)
(* is the true time since the latest offer, and less than a period and the *)
(* time since the latest poll; once it is stopped, a period has passed.    *)
(***************************************************************************)
EXTENDS ClLimiter, TLAPS

-----------------------------------------------------------------------------
(***************************************************************************)
(* For every width of the clock, the timer of cl_timer.c implements the    *)
(* timer that counts elapsed time, provided that a period and the time     *)
(* between two polls together fit in half the clock's range.               *)
(*                                                                         *)
(* The invariant behind it: a running timer is never older than its period *)
(* plus the time since the latest poll, because the poll that finds it     *)
(* expired stops it.  So its age stays in the half of the range in which   *)
(* the wrapped difference is the true one.                                 *)
(***************************************************************************)

TimerType ==
    /\ timer \in [state : {"STOPPED", "RUNNING"}, period : 0 .. MaxPeriod,
                  timestamp : Clock]
    /\ timer.state = "STOPPED" => timer.period = 0

(* The wrapped difference is bounded, and no less than the true age.       *)
AgeBounded ==
    timer.state = "RUNNING" =>
        /\ WrapSub(now, timer.timestamp) <= timer.period + gap
        /\ age <= WrapSub(now, timer.timestamp)

IInv == TypeOK /\ TimerType /\ AgeBounded

(* Arithmetic of the clock: what a step of the clock does to a difference. *)
LEMMA HalfFact == Half \in Nat /\ 2 * Half <= Word - 1
  BY ClockAssumption DEF Half

LEMMA WrapSubType ==
    ASSUME NEW t \in Clock, NEW u \in Clock
    PROVE  WrapSub(t, u) \in Clock /\ WrapSub(t, u) \in Nat /\ WrapSub(t, t) = 0
  BY ClockAssumption DEF Clock, WrapSub

LEMMA WrapAddType ==
    ASSUME NEW t \in Clock, NEW d \in Nat, d < Word
    PROVE  WrapAdd(t, d) \in Clock
  BY ClockAssumption DEF Clock, WrapAdd

LEMMA WrapStep ==
    ASSUME NEW t \in Clock, NEW u \in Clock, NEW d \in Nat,
           WrapSub(t, u) + d < Word
    PROVE  WrapSub(WrapAdd(t, d), u) = WrapSub(t, u) + d
  BY ClockAssumption DEF Clock, WrapAdd, WrapSub

LEMMA InitInv == Init => IInv
<1> SUFFICES ASSUME Init
             PROVE  IInv
  OBVIOUS
<1>1. 0 \in Clock /\ 0 \in 0 .. MaxPeriod /\ 0 \in 0 .. MaxGap
      /\ 0 \in 0 .. AgeBound
  BY ClockAssumption DEF Clock
<1>2. TypeOK
  BY <1>1 DEF Init, TypeOK, cl_timer_stop
<1>3. TimerType /\ AgeBounded
  BY <1>1 DEF Init, TimerType, AgeBounded, cl_timer_stop
<1> QED BY <1>2, <1>3 DEF IInv

LEMMA NextInv ==
    ASSUME PeriodsFit, IInv, [Next]_vars
    PROVE  IInv'
<1> USE ClockAssumption DEF IInv
<1>t. /\ now \in Clock /\ gap \in 0 .. MaxGap /\ age \in 0 .. AgeBound
      /\ timer.state \in {"STOPPED", "RUNNING"}
      /\ timer.period \in 0 .. MaxPeriod
      /\ timer.timestamp \in Clock
      /\ 0 \in Clock /\ 0 .. MaxPeriod \subseteq Clock
  BY DEF TypeOK, TimerType, Clock
<1>z. \A t \in Clock : WrapSub(t, t) = 0
  BY WrapSubType
<1>1. ASSUME NEW p \in 0 .. MaxPeriod, Start(p)
      PROVE  IInv'
  BY <1>1, <1>t, <1>z
  DEF Start, cl_timer_start, TypeOK, TimerType, AgeBounded
<1>2. ASSUME NEW p \in 0 .. MaxPeriod, StartIfNotRunning(p)
      PROVE  IInv'
  <2>1. CASE timer.state = "RUNNING"
    BY <1>2, <2>1, <1>t DEF StartIfNotRunning, cl_timer_start_if_not_running,
       cl_timer_is_running, TypeOK, TimerType, AgeBounded
  <2>2. CASE timer.state = "STOPPED"
    BY <1>2, <2>2, <1>t, <1>z
    DEF StartIfNotRunning, cl_timer_start_if_not_running, cl_timer_start,
        cl_timer_is_running, TypeOK, TimerType, AgeBounded
  <2> QED BY <2>1, <2>2, <1>t
<1>3. ASSUME Restart
      PROVE  IInv'
  <2>1. CASE timer.state = "STOPPED"
    BY <1>3, <2>1, <1>t
    DEF Restart, cl_timer_restart, TypeOK, TimerType, AgeBounded
  <2>2. CASE timer.state = "RUNNING"
    BY <1>3, <2>2, <1>t, <1>z
    DEF Restart, cl_timer_restart, TypeOK, TimerType, AgeBounded
  <2> QED BY <2>1, <2>2, <1>t
<1>4. ASSUME Stop
      PROVE  IInv'
  BY <1>4, <1>t DEF Stop, cl_timer_stop, TypeOK, TimerType, AgeBounded
<1>5. ASSUME NEW d \in 1 .. MaxGap, Pass(d)
      PROVE  IInv'
  <2>1. d \in Nat /\ gap + d <= MaxGap /\ gap' = gap + d /\ gap' \in 0 .. MaxGap
    BY <1>5, <1>t DEF Pass
  <2>2. d < Word
    BY <2>1, <1>t, HalfFact DEF PeriodsFit
  <2>3. TypeOK' /\ TimerType'
    <3>1. now' \in Clock
      BY <1>5, <2>1, <2>2, <1>t, WrapAddType DEF Pass
    <3>2. age' \in 0 .. AgeBound
      BY <1>5, <2>1, <1>t DEF Pass
    <3> QED BY <3>1, <3>2, <2>1, <1>5 DEF Pass, TypeOK, TimerType
  <2>4. AgeBounded'
    <3> SUFFICES ASSUME timer.state = "RUNNING"
                 PROVE  /\ WrapSub(now', timer.timestamp) <= timer.period + gap'
                        /\ age' <= WrapSub(now', timer.timestamp)
      BY <1>5 DEF Pass, AgeBounded
    <3>1. /\ WrapSub(now, timer.timestamp) \in Nat
          /\ WrapSub(now, timer.timestamp) <= timer.period + gap
          /\ age <= WrapSub(now, timer.timestamp)
      BY <1>t, WrapSubType DEF AgeBounded, Clock
    <3>2. WrapSub(now, timer.timestamp) + d < Word
      BY <3>1, <2>1, <1>t, HalfFact DEF PeriodsFit
    <3>3. WrapSub(now', timer.timestamp) = WrapSub(now, timer.timestamp) + d
      BY <3>2, <2>1, <1>t, <1>5, WrapStep DEF Pass
    <3>4. age' <= age + d
      BY <1>5, <1>t, <2>1 DEF Pass, cl_timer_is_running
    <3> QED BY <3>1, <3>3, <3>4, <2>1, <1>t, <1>5 DEF Pass
  <2> QED BY <2>3, <2>4
<1>6. ASSUME Poll
      PROVE  IInv'
  <2>1. CASE cl_timer_is_expired(timer, now)
    BY <1>6, <2>1, <1>t
    DEF Poll, cl_timer_stop, TypeOK, TimerType, AgeBounded
  <2>2. CASE ~cl_timer_is_expired(timer, now)
    <3>1. TypeOK' /\ TimerType'
      <4>1. expired' \in BOOLEAN
        BY <1>6 DEF Poll, cl_timer_is_expired
      <4> QED BY <4>1, <1>6, <2>2, <1>t DEF Poll, TypeOK, TimerType
    <3>2. AgeBounded'
      <4> SUFFICES ASSUME timer.state = "RUNNING"
                   PROVE  /\ WrapSub(now, timer.timestamp) <= timer.period
                          /\ age <= WrapSub(now, timer.timestamp)
        BY <1>6, <2>2, <1>t DEF Poll, AgeBounded
      <4>1. /\ WrapSub(now, timer.timestamp) \in Nat
            /\ WrapSub(now, timer.timestamp) <= timer.period + gap
            /\ age <= WrapSub(now, timer.timestamp)
        BY <1>t, WrapSubType DEF AgeBounded, Clock
      <4>2. WrapSub(now, timer.timestamp) <= Half
        BY <4>1, <1>t, HalfFact DEF PeriodsFit
      <4> QED BY <4>1, <4>2, <2>2, <1>t DEF cl_timer_is_expired
    <3> QED BY <3>1, <3>2
  <2> QED BY <2>1, <2>2
<1>7. CASE UNCHANGED vars
  BY <1>7 DEF vars, TypeOK, TimerType, AgeBounded
<1> QED
  BY <1>1, <1>2, <1>3, <1>4, <1>5, <1>6, <1>7 DEF Next

(* The inductive invariant holds in every state, if the periods fit.       *)
LEMMA InvAlways ==
    ASSUME PeriodsFit
    PROVE  Spec => []IInv
<1>1. IInv /\ [Next]_vars => IInv'
  BY NextInv
<1> QED BY <1>1, InitInv, PTL DEF Spec

(* Where the periods fit, no poll leaves an overdue timer running: every   *)
(* expiry is seen by the first poll after it, wherever the clock wraps.    *)
THEOREM TimerNeverOverdue ==
    ASSUME PeriodsFit
    PROVE  Spec => []NoOverdueTimer
<1>1. IInv => NoOverdueTimer
  <2> SUFFICES ASSUME IInv, gap = 0, timer.state = "RUNNING"
               PROVE  age <= timer.period
    BY DEF NoOverdueTimer
  <2>1. /\ WrapSub(now, timer.timestamp) \in Nat
        /\ timer.period \in Nat /\ age \in Nat
    BY ClockAssumption, WrapSubType DEF IInv, TypeOK, Clock
  <2> QED BY <2>1 DEF IInv, AgeBounded
<1> QED BY <1>1, InvAlways, PTL

(* Where the periods fit, the timer with time stamps that wrap implements  *)
(* the timer that counts the time since it was started.                    *)
THEOREM TimerImplementsAbs ==
    ASSUME PeriodsFit
    PROVE  Spec => ImplementsAbs
<1>1. Init => Abs!Init
  BY DEF Init, Abs!Init, AbsTimer, Elapsed, cl_timer_stop, Abs!cl_timer_stop
<1>2. IInv /\ [Next]_vars => [Abs!Next]_(Abs!vars)
  <2> SUFFICES ASSUME IInv, [Next]_vars
               PROVE  [Abs!Next]_(Abs!vars)
    OBVIOUS
  <2> DEFINE delta == WrapSub(now, timer.timestamp)
  <2>t. /\ now \in Clock /\ gap \in 0 .. MaxGap
        /\ timer.state \in {"STOPPED", "RUNNING"}
        /\ timer.period \in 0 .. MaxPeriod /\ timer.period \in Nat
        /\ timer.timestamp \in Clock
        /\ delta \in Nat
        /\ timer.state = "STOPPED" => timer.period = 0
        /\ timer.state = "RUNNING" => delta <= timer.period + gap
    BY ClockAssumption, WrapSubType
    DEF IInv, TypeOK, TimerType, AgeBounded, Clock
  <2>z. \A t \in Clock : WrapSub(t, t) = 0
    BY WrapSubType, ClockAssumption
  <2>1. ASSUME NEW p \in 0 .. MaxPeriod, Start(p)
        PROVE  Abs!Start(p)
    <3>1. p \in Nat
      BY ClockAssumption
    <3>2. Elapsed' = 0
      BY <2>1, <2>t, <2>z, <3>1 DEF Start, cl_timer_start, Elapsed
    <3> QED
      BY <2>1, <3>2
      DEF Start, cl_timer_start, Abs!Start, Abs!cl_timer_start, AbsTimer
  <2>2. ASSUME NEW p \in 0 .. MaxPeriod, StartIfNotRunning(p)
        PROVE  Abs!StartIfNotRunning(p)
    <3>1. CASE timer.state = "RUNNING"
      BY <2>2, <3>1
      DEF StartIfNotRunning, cl_timer_start_if_not_running, AbsTimer, Elapsed,
          Abs!StartIfNotRunning, Abs!cl_timer_start_if_not_running
    <3>2. CASE timer.state = "STOPPED"
      <4>1. p \in Nat
        BY ClockAssumption
      <4>2. Elapsed' = 0
        BY <2>2, <3>2, <2>t, <2>z, <4>1
        DEF StartIfNotRunning, cl_timer_start_if_not_running, cl_timer_start,
            Elapsed
      <4> QED
        BY <2>2, <3>2, <4>2
        DEF StartIfNotRunning, cl_timer_start_if_not_running, cl_timer_start,
            Abs!StartIfNotRunning, Abs!cl_timer_start_if_not_running,
            Abs!cl_timer_start, AbsTimer
    <3> QED BY <3>1, <3>2, <2>t
  <2>3. ASSUME Restart
        PROVE  Abs!Restart
    <3>1. CASE timer.state = "STOPPED"
      BY <2>3, <3>1
      DEF Restart, cl_timer_restart, AbsTimer, Elapsed, Abs!Restart,
          Abs!cl_timer_restart
    <3>2. CASE timer.state = "RUNNING"
      <4>1. timer' = [timer EXCEPT !.timestamp = now] /\ now' = now
        BY <2>3, <3>2 DEF Restart, cl_timer_restart
      <4>2. /\ timer'.state = "RUNNING" /\ timer'.period = timer.period
            /\ timer'.timestamp = now
        BY <4>1, <3>2 DEF IInv, TimerType
      <4>3. Elapsed' = 0
        BY <4>1, <4>2, <2>t, <2>z DEF Elapsed
      <4> QED
        BY <2>3, <3>2, <4>2, <4>3
        DEF Restart, Abs!Restart, Abs!cl_timer_restart, AbsTimer
    <3> QED BY <3>1, <3>2, <2>t
  <2>4. ASSUME Stop
        PROVE  Abs!Stop
    BY <2>4 DEF Stop, cl_timer_stop, AbsTimer, Elapsed, Abs!Stop,
                Abs!cl_timer_stop
  <2>5. ASSUME NEW d \in 1 .. MaxGap, Pass(d)
        PROVE  Abs!Pass(d)
    <3>1. CASE timer.state = "STOPPED"
      BY <2>5, <3>1 DEF Pass, AbsTimer, Elapsed, Abs!Pass, Abs!TimerAdvance
    <3>2. CASE timer.state = "RUNNING"
      <4>1. d \in Nat /\ gap + d <= MaxGap /\ timer' = timer
            /\ now' = WrapAdd(now, d) /\ expired' = expired
        BY <2>5, ClockAssumption DEF Pass
      <4>2. delta + d < Word
        BY <4>1, <3>2, <2>t, HalfFact, ClockAssumption DEF PeriodsFit
      <4>3. WrapSub(now', timer.timestamp) = delta + d
        BY <4>1, <4>2, <2>t, WrapStep
      <4>4. Elapsed' = IF Elapsed + d >= timer.period THEN timer.period
                       ELSE Elapsed + d
        BY <4>1, <4>3, <3>2, <2>t DEF Elapsed
      <4> QED
        BY <4>1, <4>4, <3>2 DEF AbsTimer, Abs!Pass, Abs!TimerAdvance
    <3> QED BY <3>1, <3>2, <2>t
  <2>6. ASSUME Poll
        PROVE  Abs!Poll
    <3>1. cl_timer_is_expired(timer, now) = Abs!cl_timer_is_expired(AbsTimer)
      <4>1. CASE timer.state = "STOPPED"
        BY <4>1 DEF cl_timer_is_expired, Abs!cl_timer_is_expired, AbsTimer
      <4>2. CASE timer.state = "RUNNING"
        <5>1. delta <= Half
          BY <4>2, <2>t, HalfFact, ClockAssumption DEF PeriodsFit
        <5>2. cl_timer_is_expired(timer, now) <=> delta >= timer.period
          BY <5>1, <4>2, <2>t DEF cl_timer_is_expired
        <5>3. Elapsed >= timer.period <=> delta >= timer.period
          BY <4>2, <2>t DEF Elapsed
        <5>4. Abs!cl_timer_is_expired(AbsTimer) <=> Elapsed >= timer.period
          BY <4>2 DEF Abs!cl_timer_is_expired, AbsTimer
        <5> QED
          BY <5>2, <5>3, <5>4
          DEF cl_timer_is_expired, Abs!cl_timer_is_expired
      <4> QED BY <4>1, <4>2, <2>t
    <3>2. CASE cl_timer_is_expired(timer, now)
      BY <2>6, <3>1, <3>2
      DEF Poll, cl_timer_stop, AbsTimer, Elapsed, Abs!Poll, Abs!cl_timer_stop
    <3>3. CASE ~cl_timer_is_expired(timer, now)
      BY <2>6, <3>1, <3>3 DEF Poll, AbsTimer, Elapsed, Abs!Poll
    <3> QED BY <3>2, <3>3
  <2>7. CASE UNCHANGED vars
    BY <2>7 DEF vars, AbsTimer, Elapsed, Abs!vars
  <2> QED
    BY <2>1, <2>2, <2>3, <2>4, <2>5, <2>6, <2>7 DEF Next, Abs!Next
<1> QED BY <1>1, <1>2, InvAlways, PTL DEF Spec, ImplementsAbs, Abs!Spec

-----------------------------------------------------------------------------
(* The limiter.                                                            *)

LimiterType ==
    /\ limiter.timer \in [state : {"STOPPED", "RUNNING"},
                          period : 0 .. MaxPeriod, timestamp : Clock]
    /\ limiter = [timer |-> limiter.timer, period |-> LimiterPeriod,
                  previous_message |-> limiter.previous_message]
    /\ told \in Messages \cup {NoMessage}
    /\ quiet \in 0 .. AgeBound

(* The time since the timer was started, as far as quiet counts.           *)
LimiterAge == WrapSub(now, limiter.timer.timestamp)

WhileRunning ==
    limiter.timer.state = "RUNNING" =>
        /\ limiter.timer.period = LimiterPeriod
        /\ limiter.previous_message = told
        /\ LimiterAge <= LimiterPeriod + gap
        /\ LimiterPeriod # 0 => LimiterAge < LimiterPeriod + gap
        /\ quiet <= LimiterAge
        /\ quiet = LimiterAge \/ quiet = AgeBound

OnceStopped ==
    limiter.timer.state = "STOPPED" =>
        told = NoMessage \/ quiet >= LimiterPeriod

LInv == TypeOK /\ LimiterType /\ WhileRunning /\ OnceStopped

LEMMA LimiterInitInv == LimiterInit => LInv
<1> SUFFICES ASSUME LimiterInit
             PROVE  LInv
  OBVIOUS
<1>1. TypeOK
  BY InitInv DEF LimiterInit, IInv
<1>2. 0 \in Clock /\ 0 \in 0 .. MaxPeriod /\ 0 \in 0 .. AgeBound
  BY ClockAssumption DEF Clock
<1>3. limiter = [timer |-> cl_timer_stop, period |-> LimiterPeriod,
                 previous_message |-> 0]
  BY DEF LimiterInit, cl_limiter_init
<1>4. limiter.timer = cl_timer_stop /\ cl_timer_stop.state = "STOPPED"
  BY <1>3 DEF cl_timer_stop
<1>5. LimiterType
  BY <1>2, <1>3, <1>4 DEF LimiterInit, LimiterType, cl_timer_stop
<1>6. WhileRunning /\ OnceStopped
  BY <1>4 DEF WhileRunning, OnceStopped, LimiterInit
<1> QED BY <1>1, <1>5, <1>6 DEF LInv

(* A step of the other timer, or none, leaves the limiter and clock alone. *)
LEMMA LimiterUntouched ==
    ASSUME LInv, TypeOK', UNCHANGED <<limiterVars, now, gap>>
    PROVE  LInv'
  BY DEF LInv, LimiterType, WhileRunning, OnceStopped, LimiterAge, limiterVars

LEMMA OfferInv ==
    ASSUME LInv, NEW message \in Messages, Offer(message)
    PROVE  LInv'
<1> USE ClockAssumption, LimiterAssumption
<1>1. TypeOK' /\ now' = now /\ gap' = gap /\ now \in Clock /\ gap \in Nat
  BY DEF Offer, vars, LInv, TypeOK
<1>2. limiter.period = LimiterPeriod
  BY DEF LInv, LimiterType
<1>3. /\ limiter' = [timer |-> cl_timer_start(LimiterPeriod, now),
                     period |-> LimiterPeriod,
                     previous_message |-> limiter'.previous_message]
      /\ limiter'.previous_message =
            IF IsReported(limiter, message) THEN message
            ELSE limiter.previous_message
  BY <1>2 DEF Offer, cl_limiter_should_run_now, LInv, LimiterType
<1>4. /\ limiter'.timer = [state |-> "RUNNING", period |-> LimiterPeriod,
                           timestamp |-> now]
      /\ limiter'.timer.state = "RUNNING"
      /\ limiter'.timer.period = LimiterPeriod
      /\ limiter'.timer.timestamp = now
  BY <1>3 DEF cl_timer_start
<1>5. quiet' = 0 /\ LimiterAge' = 0 /\ 0 \in 0 .. AgeBound
  BY <1>1, <1>4, WrapSubType DEF Offer, LimiterAge
<1>6. told' = limiter'.previous_message /\ told' \in Messages \cup {NoMessage}
  <2>1. CASE IsReported(limiter, message)
    BY <2>1, <1>3 DEF Offer
  <2>2. CASE ~IsReported(limiter, message)
    <3>1. limiter.timer.state = "RUNNING"
      BY <2>2 DEF IsReported, cl_timer_is_running
    <3> QED BY <2>2, <3>1, <1>3 DEF Offer, LInv, LimiterType, WhileRunning
  <2> QED BY <2>1, <2>2
<1>7. LimiterType'
  BY <1>1, <1>3, <1>4, <1>5, <1>6 DEF LimiterType
<1>8. WhileRunning' /\ OnceStopped'
  BY <1>1, <1>4, <1>5, <1>6 DEF WhileRunning, OnceStopped
<1> QED BY <1>1, <1>7, <1>8 DEF LInv

LEMMA LimiterPeriodicInv ==
    ASSUME PeriodsFit, LInv, TypeOK', LimiterPeriodic
    PROVE  LInv'
<1> USE ClockAssumption, LimiterAssumption
<1>1. /\ now' = now /\ gap' = 0 /\ told' = told /\ quiet' = quiet
      /\ limiter' = cl_limiter_periodic(limiter, now)
  BY DEF LimiterPeriodic, Poll
<1>2. /\ now \in Clock /\ gap \in 0 .. MaxGap /\ quiet \in 0 .. AgeBound
      /\ limiter.timer.timestamp \in Clock
      /\ limiter.timer.state \in {"STOPPED", "RUNNING"}
      /\ LimiterAge \in Nat
  BY WrapSubType DEF LInv, TypeOK, LimiterType, LimiterAge, Clock
<1>3. CASE cl_timer_is_expired(limiter.timer, now)
  <2>1. limiter' = [limiter EXCEPT !.timer = cl_timer_stop]
    BY <1>1, <1>3 DEF cl_limiter_periodic
  <2>2. limiter' = [timer |-> cl_timer_stop, period |-> LimiterPeriod,
                    previous_message |-> limiter.previous_message]
    BY <2>1 DEF LInv, LimiterType
  <2>3. limiter'.timer = cl_timer_stop /\ limiter'.timer.state = "STOPPED"
    BY <2>2 DEF cl_timer_stop
  <2>4. LimiterType'
    <3>1. cl_timer_stop \in [state : {"STOPPED", "RUNNING"},
                             period : 0 .. MaxPeriod, timestamp : Clock]
      BY DEF cl_timer_stop, Clock
    <3> QED BY <2>2, <2>3, <3>1, <1>1 DEF LInv, LimiterType
  <2>5. quiet >= LimiterPeriod
    <3>1. limiter.timer.state = "RUNNING" /\ LimiterAge >= LimiterPeriod
      BY <1>2, <1>3 DEF cl_timer_is_expired, LimiterAge, LInv, WhileRunning
    <3> QED BY <3>1, <1>2 DEF LInv, WhileRunning
  <2> QED BY <2>3, <2>4, <2>5, <1>1 DEF LInv, WhileRunning, OnceStopped
<1>4. CASE ~cl_timer_is_expired(limiter.timer, now)
  <2>1. limiter' = limiter
    BY <1>1, <1>4 DEF cl_limiter_periodic, LInv, LimiterType
  <2>2. LimiterType' /\ OnceStopped' /\ LimiterAge' = LimiterAge
    BY <1>1, <2>1 DEF LInv, LimiterType, OnceStopped, LimiterAge
  <2>3. WhileRunning'
    <3> SUFFICES ASSUME limiter.timer.state = "RUNNING"
                 PROVE  LimiterAge < LimiterPeriod
      BY <1>1, <1>2, <2>1, <2>2 DEF LInv, WhileRunning
    <3>1. limiter.timer.period = LimiterPeriod /\ LimiterAge <= Half
      BY <1>2, HalfFact DEF LInv, WhileRunning, PeriodsFit
    <3> QED BY <3>1, <1>2, <1>4 DEF cl_timer_is_expired, LimiterAge
  <2> QED BY <2>2, <2>3 DEF LInv
<1> QED BY <1>3, <1>4

LEMMA TimeGoesOnInv ==
    ASSUME PeriodsFit, LInv, TypeOK', NEW d \in 1 .. MaxGap, TimeGoesOn(d)
    PROVE  LInv'
<1> USE ClockAssumption, LimiterAssumption
<1>1. /\ now' = WrapAdd(now, d) /\ gap' = gap + d /\ gap + d <= MaxGap
      /\ limiter' = limiter /\ told' = told /\ d \in Nat /\ d > 0
      /\ quiet' = IF quiet + d > AgeBound THEN AgeBound ELSE quiet + d
  BY DEF TimeGoesOn, Pass
<1>2. /\ now \in Clock /\ gap \in 0 .. MaxGap /\ quiet \in 0 .. AgeBound
      /\ limiter.timer.timestamp \in Clock
      /\ limiter.timer.state \in {"STOPPED", "RUNNING"}
      /\ LimiterAge \in Nat
  BY WrapSubType DEF LInv, TypeOK, LimiterType, LimiterAge, Clock
<1>3. LimiterType'
  BY <1>1, <1>2 DEF LInv, LimiterType
<1>4. OnceStopped'
  BY <1>1, <1>2 DEF LInv, OnceStopped
<1>5. WhileRunning'
  <2> SUFFICES ASSUME limiter.timer.state = "RUNNING"
               PROVE  WhileRunning'
    BY <1>1 DEF WhileRunning
  <2>1. LimiterAge <= LimiterPeriod + gap
    BY DEF LInv, WhileRunning
  <2>2. LimiterAge + d < Word
    BY <2>1, <1>1, <1>2, HalfFact DEF PeriodsFit
  <2>3. LimiterAge' = LimiterAge + d
    BY <2>2, <1>1, <1>2, WrapStep DEF LimiterAge
  <2> QED BY <2>3, <1>1, <1>2 DEF LInv, WhileRunning
<1> QED BY <1>3, <1>4, <1>5 DEF LInv

(* The clock and the other timer, seen alone, behave as ClTimerWrap says.  *)
LEMMA LimiterStepIsTimerStep ==
    ASSUME LimiterNext
    PROVE  [Next]_vars
  BY DEF LimiterNext, Offer, LimiterPeriodic, TimeGoesOn, OtherTimer, Next

LEMMA LimiterNextInv ==
    ASSUME PeriodsFit, IInv, LInv, [LimiterNext]_<<vars, limiterVars>>
    PROVE  IInv' /\ LInv'
<1>1. IInv'
  BY NextInv, LimiterStepIsTimerStep DEF vars
<1>2. TypeOK'
  BY <1>1 DEF IInv
<1>3. ASSUME NEW message \in Messages, Offer(message)
      PROVE  LInv'
  BY <1>3, OfferInv
<1>4. CASE LimiterPeriodic
  BY <1>1, <1>2, <1>4, LimiterPeriodicInv
<1>5. ASSUME NEW d \in 1 .. MaxGap, TimeGoesOn(d)
      PROVE  LInv'
  BY <1>2, <1>5, TimeGoesOnInv
<1>6. CASE OtherTimer
  BY <1>1, <1>2, <1>6, LimiterUntouched
  DEF OtherTimer, Start, StartIfNotRunning, Restart, Stop
<1>7. CASE UNCHANGED <<vars, limiterVars>>
  BY <1>1, <1>2, <1>7, LimiterUntouched DEF vars
<1> QED BY <1>1, <1>3, <1>4, <1>5, <1>6, <1>7 DEF LimiterNext

LEMMA LimiterInvAlways ==
    ASSUME PeriodsFit
    PROVE  LimiterSpec => [](IInv /\ LInv)
<1>1. LimiterInit => IInv /\ LInv
  BY InitInv, LimiterInitInv DEF LimiterInit
<1>2. IInv /\ LInv /\ [LimiterNext]_<<vars, limiterVars>> => IInv' /\ LInv'
  BY LimiterNextInv
<1> QED BY <1>1, <1>2, PTL DEF LimiterSpec

(* cl_limiter_should_run_now() drops nothing but a message that was the    *)
(* one reported last, and that was offered less than a period and a poll   *)
(* ago, whatever the time stamps: where the periods fit, for any messages. *)
THEOREM LimiterDropsOnlyRepeats ==
    ASSUME PeriodsFit
    PROVE  LimiterSpec => []OnlyRepeatsDropped
<1>1. LInv => OnlyRepeatsDropped
  <2> SUFFICES ASSUME LInv, NEW message \in Messages,
                      ~IsReported(limiter, message)
               PROVE  message = told /\ quiet < LimiterPeriod + MaxGap
    BY DEF OnlyRepeatsDropped
  <2>1. /\ limiter.timer.state = "RUNNING" /\ LimiterPeriod # 0
        /\ message = limiter.previous_message
    BY DEF IsReported, cl_timer_is_running, LInv, LimiterType
  <2>2. /\ LimiterAge \in Nat /\ gap \in 0 .. MaxGap /\ quiet \in Nat
        /\ LimiterPeriod \in Nat
    BY ClockAssumption, LimiterAssumption, WrapSubType
    DEF LInv, TypeOK, LimiterType, LimiterAge, Clock
  <2> QED BY <2>1, <2>2, ClockAssumption DEF LInv, WhileRunning
<1> QED BY <1>1, LimiterInvAlways, PTL

(* An error that goes on is not reported again before it has been absent   *)
(* for a period: where the periods fit, for any messages.                  *)
THEOREM LimiterNeverFloods ==
    ASSUME PeriodsFit
    PROVE  LimiterSpec => []NoFlood
<1>1. LInv => NoFlood
  <2> SUFFICES ASSUME LInv, NEW message \in Messages,
                      IsReported(limiter, message), message = told
               PROVE  quiet >= LimiterPeriod
    BY DEF NoFlood
  <2>1. quiet \in Nat /\ limiter.period = LimiterPeriod
    BY ClockAssumption DEF LInv, LimiterType
  <2>2. CASE LimiterPeriod = 0
    BY <2>1, <2>2
  <2>3. CASE LimiterPeriod # 0
    <3>1. limiter.timer.state = "STOPPED"
      BY <2>1, <2>3 DEF IsReported, cl_timer_is_running, LInv, LimiterType,
                        WhileRunning
    <3>2. told # NoMessage
      BY LimiterAssumption
    <3> QED BY <3>1, <3>2 DEF LInv, OnceStopped
  <2> QED BY <2>2, <2>3
<1> QED BY <1>1, LimiterInvAlways, PTL
=============================================================================
