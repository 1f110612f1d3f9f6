----------------------------- MODULE Debouncer -----------------------------
(***************************************************************************)
(* debounce() of @webda/utils (packages/utils/src/debounce.ts): calls are  *)
(* collapsed into an invocation on the leading edge, on the trailing edge, *)
(* or after maxWait; flush() and cancel() come in between.                 *)
(*                                                                         *)
(* Time is counted in ticks and does not go back, so that the test of a    *)
(* negative time since the last call is left out.  The event loop runs a   *)
(* timeout that is due before the clock goes on, in any order with the     *)
(* calls of that instant.  An invocation is named by the number of the     *)
(* call whose arguments it passes; func is called after every assignment,  *)
(* so that a call it makes of the debounced function is one that follows.  *)
(***************************************************************************)
EXTENDS Integers, FiniteSets

CONSTANTS
  WaitTime,    \* the second parameter of debounce
  MaxWaits,    \* the values of the maxWait option to try; 0 is "not set"
  Start,       \* the clock at the beginning, long after 0
  Duration,    \* bound: ticks of the clock
  MaxCalls     \* bound: calls of the debounced function

ASSUME DebouncerAssumption ==
  /\ WaitTime \in Nat \ {0} /\ MaxWaits \subseteq Nat /\ Start \in Nat
  /\ \A m \in MaxWaits : Start >= m + WaitTime
  /\ Duration \in Nat /\ MaxCalls \in Nat

VARIABLES
  options,     \* leading, trailing and maxWait
  now,
  timeouts,    \* what setTimeout has scheduled
  timerId,     \* the timeout debounce remembers, 0 for undefined
  lastCallTime,
  lastInvokeTime,
  lastArgs,    \* the call whose arguments are pending, 0 for none
  calls,       \* calls so far
  handled,     \* history: the last call that was passed on or cancelled; one passed
               \* on stands for the calls it replaced
  oldest       \* history: when the oldest call after that one was made

debounceVars == <<options, now, timeouts, timerId, lastCallTime, lastInvokeTime,
                  lastArgs, calls, handled, oldest>>

Undefined == 0

Clock == Start..(Start + Duration)

DebouncerTypeOK ==
  /\ options \in [leading : BOOLEAN, trailing : BOOLEAN, maxWait : MaxWaits]
  /\ now \in Clock
  /\ timeouts \subseteq [id : Nat \ {0}, at : Nat]
  /\ timerId = Undefined \/ \E t \in timeouts : t.id = timerId
  /\ lastCallTime \in Clock \union {Undefined}
  /\ lastInvokeTime \in Clock \union {Undefined}
  /\ lastArgs \in 0..calls
  /\ calls \in 0..MaxCalls
  /\ handled \in 0..calls
  /\ oldest \in Clock \union {Undefined}

DebouncerInit ==
  /\ options \in [leading : BOOLEAN, trailing : BOOLEAN, maxWait : MaxWaits]
  /\ now = Start
  /\ timeouts = {}
  /\ timerId = Undefined
  /\ lastCallTime = Undefined /\ lastInvokeTime = Undefined
  /\ lastArgs = 0 /\ calls = 0 /\ handled = 0 /\ oldest = Undefined

----------------------------------------------------------------------------
Limited == options.maxWait > 0

LimitReached == Limited /\ now - lastInvokeTime >= options.maxWait

ShouldInvoke ==
  \/ lastCallTime = Undefined
  \/ now - lastCallTime >= WaitTime
  \/ LimitReached

RemainingWait ==
  LET quiet == WaitTime - (now - lastCallTime)
      limit == options.maxWait - (now - lastInvokeTime)
  IN IF Limited /\ limit < quiet THEN limit ELSE quiet

NewId == CHOOSE i \in 1..(Cardinality(timeouts) + 1) : \A t \in timeouts : t.id # i

\* timerId = setTimeout(timerExpired, delay), with `others` still scheduled
Arm(others, delay) ==
  /\ timeouts' = others \union {[id |-> NewId, at |-> now + delay]}
  /\ timerId' = NewId

\* invokeFunc passes on the arguments of call n
Passes(n) == lastArgs' = 0 /\ lastInvokeTime' = now /\ handled' = n /\ oldest' = Undefined

Pending(n) ==
  /\ lastArgs' = n
  /\ oldest' = IF lastArgs = 0 THEN now ELSE oldest
  /\ UNCHANGED handled

\* trailingEdge; the timeout that is not the caller stays scheduled.  Without
\* `trailing` the pending arguments are dropped.
TrailingEdge ==
  /\ timerId' = Undefined
  /\ IF options.trailing /\ lastArgs # 0
     THEN Passes(lastArgs)
     ELSE lastArgs' = 0 /\ oldest' = Undefined /\ UNCHANGED <<lastInvokeTime, handled>>

----------------------------------------------------------------------------
(* The debounced function *)

Called ==
  /\ calls < MaxCalls
  /\ calls' = calls + 1
  /\ lastCallTime' = now
  /\ UNCHANGED <<options, now>>

CallOnLeadingEdge ==
  /\ Called
  /\ ShouldInvoke /\ timerId = Undefined
  /\ Arm(timeouts, WaitTime)
  /\ IF options.leading
     THEN Passes(calls')
     ELSE Pending(calls') /\ lastInvokeTime' = now

CallAtLimit ==
  /\ Called
  /\ ShouldInvoke /\ timerId # Undefined /\ Limited
  /\ Arm({t \in timeouts : t.id # timerId}, WaitTime)
  /\ Passes(calls')

\* Mutant: a call during the wait does not arm the timer
CallIsKept ==
  /\ Called
  /\ ~ShouldInvoke \/ (timerId # Undefined /\ ~Limited)
  /\ Pending(calls')
  /\ UNCHANGED <<timeouts, timerId, lastInvokeTime>>

CallIsDelayed ==
  /\ Called
  /\ ~ShouldInvoke \/ (timerId # Undefined /\ ~Limited)
  /\ Pending(calls')
  /\ IF timerId = Undefined THEN Arm(timeouts, WaitTime) ELSE UNCHANGED <<timeouts, timerId>>
  /\ UNCHANGED lastInvokeTime

\* timerExpired, for any timeout that is due: also one that flush() left behind
TimerExpires ==
  \E t \in timeouts :
    /\ t.at <= now
    /\ IF ShouldInvoke
       THEN TrailingEdge /\ timeouts' = timeouts \ {t}
       ELSE Arm(timeouts \ {t}, RemainingWait) /\ UNCHANGED <<lastArgs, lastInvokeTime, handled, oldest>>
    /\ UNCHANGED <<options, now, lastCallTime, calls>>

Flush ==
  /\ timerId # Undefined
  /\ TrailingEdge
  /\ UNCHANGED <<options, now, timeouts, lastCallTime, calls>>

Cancel ==
  /\ timeouts' = {t \in timeouts : t.id # timerId}
  /\ timerId' = Undefined
  /\ lastCallTime' = Undefined /\ lastInvokeTime' = Undefined
  /\ lastArgs' = 0 /\ handled' = calls /\ oldest' = Undefined
  /\ UNCHANGED <<options, now, calls>>

ClockTicks ==
  /\ now < Start + Duration
  /\ \A t \in timeouts : t.at > now
  /\ now' = now + 1
  /\ UNCHANGED <<options, timeouts, timerId, lastCallTime, lastInvokeTime, lastArgs, calls, handled,
                 oldest>>

DebouncerNext ==
  \/ CallOnLeadingEdge \/ CallAtLimit \/ CallIsDelayed
  \/ TimerExpires \/ Flush \/ Cancel \/ ClockTicks

DebouncerSpec == DebouncerInit /\ [][DebouncerNext]_debounceVars

----------------------------------------------------------------------------
Largest(a, b) == IF a > b THEN a ELSE b

\* A call whose arguments func has not had, nor those of a later call, and that
\* was not cancelled
Waiting == handled < calls

\* However calls, flushes, cancellations and timeouts that flush() left behind
\* interleave, no call is dropped when `trailing` is set: the arguments of the
\* last one are kept, with a timeout scheduled for them, until func has them or
\* cancel() takes them away.  They wait for at most `wait` of silence and, when
\* maxWait is set, for at most max(wait, maxWait) in all.
PassedOnInTime ==
  options.trailing /\ Waiting =>
    /\ lastArgs = calls
    /\ timeouts # {}
    /\ now <= lastCallTime + WaitTime
    /\ Limited => now <= oldest + Largest(WaitTime, options.maxWait)

\* maxWait, "Maximum time the function is allowed to be delayed before it's invoked"
DelayedAtMostMaxWait ==
  options.trailing /\ Waiting /\ Limited => now <= oldest + options.maxWait
=============================================================================
