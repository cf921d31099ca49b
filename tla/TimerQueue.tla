----------------------------- MODULE TimerQueue -----------------------------
(***************************************************************************)
(* The timers of an EventLoop: runAt / runAfter / runEvery / cancelTimer,  *)
(* the timerfd, and processTimers (src/net/EventLoop.cpp).                 *)
(*                                                                         *)
(* Times are relative: an entry of timers_ carries the ticks left until it *)
(* is due, so a behaviour needs no clock bound.  One tick is the 100       *)
(* microseconds that resetTimerFd arms at least.  Entries that are already *)
(* due all have 0 ticks left; the order among them is left open, which     *)
(* covers the order multimap gives them.                                   *)
(*                                                                         *)
(* The loop thread starts and cancels timers from a handler, a closure or  *)
(* a timer callback; any other thread may call cancelTimer at any time.    *)
(***************************************************************************)
EXTENDS Naturals, FiniteSets

CONSTANTS
  Timer,  \* timer ids; nextTimerId_ never hands one out twice
  Delay   \* delays and intervals, in ticks

ASSUME DelayAssumption == Delay \subseteq Nat \ {0}

VARIABLES
  pc,        \* where the loop thread is
  started,   \* timer id -> its kind, for the ids handed out
  interval,  \* timer id -> interval of runEvery, 0 for the others
  timers,    \* timers_
  expired,   \* expiredTimers_ still to be called
  current,   \* the set holding the timer whose wrapper is on the stack
  tokens,    \* keys of timerCancelTokens_
  cancelled, \* ids whose token was set
  armed,     \* the timerfd runs or has expired unread
  fdLeft,    \* ticks until it expires
  reported,  \* epoll_wait returned the timerfd, handleTimerRead not yet called
  final,     \* history: ids cancelled by the loop thread itself
  late       \* history: id -> callbacks begun after cancelTimer returned

timerVars == <<pc, started, interval, timers, expired, current, tokens, cancelled,
          armed, fdLeft, reported, final, late>>

Kind == {"no", "once", "every"}
Pc == {"idle",   \* outside processTimers
       "next",   \* in processTimers, before the next expired callback
       "call",   \* in a wrapper that found its token clear
       "body",   \* in the user's callback
       "after",  \* in the wrapper, the user's callback done or skipped
       "requeue"} \* in runEvery's wrapper, about to reschedule

Entry == [id : Timer, left : Nat]

TimerTypeOK ==
  /\ pc \in Pc
  /\ started \in [Timer -> Kind]
  /\ interval \in [Timer -> Delay \cup {0}]
  /\ timers \in SUBSET Entry
  /\ expired \in SUBSET Timer /\ current \in SUBSET Timer
  /\ tokens \in SUBSET Timer /\ cancelled \in SUBSET Timer
  /\ armed \in BOOLEAN /\ fdLeft \in Nat /\ reported \in BOOLEAN
  /\ final \in SUBSET Timer
  /\ late \in [Timer -> Nat]

TimerInit ==
  /\ pc = "idle"
  /\ started = [t \in Timer |-> "no"]
  /\ interval = [t \in Timer |-> 0]
  /\ timers = {} /\ expired = {} /\ current = {}
  /\ tokens = {} /\ cancelled = {}
  /\ armed = FALSE /\ fdLeft = 0 /\ reported = FALSE
  /\ final = {} /\ late = [t \in Timer |-> 0]

-----------------------------------------------------------------------------
\* resetTimerFd: never less than one tick ahead.  Setting a timerfd also
\* discards an expiration that was not read yet.
ResetTimerFd(left) ==
  /\ armed' = TRUE
  /\ fdLeft' = IF left < 1 THEN 1 ELSE left

\* Variant: the timerfd is set only for the first timer ever queued.
EmplaceNeverResets(id, left) ==
  /\ timers' = timers \cup {[id |-> id, left |-> left]}
  /\ IF timers = {}
       THEN ResetTimerFd(left)
       ELSE UNCHANGED <<armed, fdLeft>>

\* timers_.emplace, and the timerfd follows when the entry became the first.
Emplace(id, left) ==
  /\ timers' = timers \cup {[id |-> id, left |-> left]}
  /\ IF \A e \in timers : left <= e.left
       THEN ResetTimerFd(left)
       ELSE UNCHANGED <<armed, fdLeft>>

InUserCode == pc \in {"idle", "body"}

\* runAt / runAfter: a one-shot timer and its cancel token.
RunAt(id, delay) ==
  /\ InUserCode /\ started[id] = "no"
  /\ started' = [started EXCEPT ![id] = "once"]
  /\ tokens' = tokens \cup {id}
  /\ Emplace(id, delay)
  /\ UNCHANGED <<pc, interval, expired, current, cancelled, reported, final, late>>

RunEvery(id, delay) ==
  /\ InUserCode /\ started[id] = "no"
  /\ started' = [started EXCEPT ![id] = "every"]
  /\ interval' = [interval EXCEPT ![id] = delay]
  /\ tokens' = tokens \cup {id}
  /\ Emplace(id, delay)
  /\ UNCHANGED <<pc, expired, current, cancelled, reported, final, late>>

\* cancelTimer sets the token, once; it leaves timers_ and expiredTimers_
\* alone.  A second call, or one for a timer that is over, finds no token.
CancelTimer(id) ==
  /\ id \in tokens
  /\ cancelled' = cancelled \cup {id}
  /\ tokens' = tokens \ {id}
  /\ UNCHANGED <<pc, started, interval, timers, expired, current, armed,
                 fdLeft, reported, late>>

CancelInLoop(id) ==
  /\ InUserCode
  /\ CancelTimer(id)
  /\ final' = final \cup {id}

CancelElsewhere(id) ==
  /\ CancelTimer(id)
  /\ UNCHANGED final

\* Time passes, also while a callback runs.
Tick ==
  /\ (armed /\ fdLeft > 0) \/ \E e \in timers : e.left > 0
  /\ timers' = {[e EXCEPT !.left = IF @ = 0 THEN 0 ELSE @ - 1] : e \in timers}
  /\ fdLeft' = IF armed /\ fdLeft > 0 THEN fdLeft - 1 ELSE fdLeft
  /\ UNCHANGED <<pc, started, interval, expired, current, tokens, cancelled,
                 armed, reported, final, late>>

\* epoll_wait reports the expired timerfd; handlers of other channels of the
\* same batch may run before handleTimerRead.
Poll ==
  /\ pc = "idle" /\ ~reported /\ armed /\ fdLeft = 0
  /\ reported' = TRUE
  /\ UNCHANGED <<pc, started, interval, timers, expired, current, tokens,
                 cancelled, armed, fdLeft, final, late>>

\* The first loop of processTimers: what is due moves to expiredTimers_.
CollectExpired ==
  /\ expired' = {e.id : e \in {d \in timers : d.left = 0}}
  /\ timers' = {e \in timers : e.left > 0}

\* handleTimerRead enters processTimers.  Its read does not fail: a re-arm would
\* discard the expiration, but a timer started after the timerfd expired comes
\* behind the one that is due.
HandleTimerRead ==
  /\ pc = "idle" /\ reported /\ fdLeft = 0
  /\ reported' = FALSE
  /\ armed' = FALSE
  /\ CollectExpired
  /\ pc' = "next"
  /\ UNCHANGED <<started, interval, current, tokens, cancelled, fdLeft, final,
                 late>>

\* Variant: the wrapper does not look at its token.
LoadTokenIgnored(id) ==
  /\ pc = "next" /\ id \in expired
  /\ expired' = expired \ {id}
  /\ current' = {id}
  /\ pc' = "call"
  /\ UNCHANGED <<started, interval, timers, tokens, cancelled, armed, fdLeft,
                 reported, final, late>>

\* A wrapper starts and loads its token.
LoadToken(id) ==
  /\ pc = "next" /\ id \in expired
  /\ expired' = expired \ {id}
  /\ current' = {id}
  /\ pc' = IF id \in cancelled THEN "after" ELSE "call"
  /\ UNCHANGED <<started, interval, timers, tokens, cancelled, armed, fdLeft,
                 reported, final, late>>

\* The token was clear: the user's callback is entered, whatever another
\* thread has done to the token since.
EnterCallback(id) ==
  /\ pc = "call" /\ id \in current
  /\ pc' = "body"
  /\ late' = IF id \in cancelled THEN [late EXCEPT ![id] = @ + 1] ELSE late
  /\ UNCHANGED <<started, interval, timers, expired, current, tokens,
                 cancelled, armed, fdLeft, reported, final>>

LeaveCallback ==
  /\ pc = "body"
  /\ pc' = "after"
  /\ UNCHANGED <<started, interval, timers, expired, current, tokens,
                 cancelled, armed, fdLeft, reported, final, late>>

\* Variant: the token is erased only when the callback ran.
EndOnceKeepsToken(id) ==
  /\ pc = "after" /\ id \in current /\ started[id] = "once"
  /\ current' = {}
  /\ pc' = "next"
  /\ UNCHANGED <<started, interval, timers, expired, tokens, cancelled, armed,
                 fdLeft, reported, final, late>>

\* The end of runAt's wrapper: the token of a one-shot timer is dropped.
EndOnce(id) ==
  /\ pc = "after" /\ id \in current /\ started[id] = "once"
  /\ tokens' = tokens \ {id}
  /\ current' = {}
  /\ pc' = "next"
  /\ UNCHANGED <<started, interval, timers, expired, cancelled, armed, fdLeft,
                 reported, final, late>>

\* Variant: a periodic timer is rescheduled whatever its token says.
ReloadTokenIgnored(id) ==
  /\ pc = "after" /\ id \in current /\ started[id] = "every"
  /\ pc' = "requeue"
  /\ UNCHANGED <<started, interval, timers, expired, current, tokens,
                 cancelled, armed, fdLeft, reported, final, late>>

\* runEvery's wrapper loads the token a second time ...
ReloadToken(id) ==
  /\ pc = "after" /\ id \in current /\ started[id] = "every"
  /\ pc' = IF id \in cancelled THEN "next" ELSE "requeue"
  /\ current' = IF id \in cancelled THEN {} ELSE current
  /\ UNCHANGED <<started, interval, timers, expired, tokens, cancelled, armed,
                 fdLeft, reported, final, late>>

\* ... and, when it was clear, schedules the next round.
Requeue(id) ==
  /\ pc = "requeue" /\ id \in current
  /\ Emplace(id, interval[id])
  /\ current' = {}
  /\ pc' = "next"
  /\ UNCHANGED <<started, interval, expired, tokens, cancelled, reported,
                 final, late>>

\* Variant: the timerfd is left as it is.
EndProcessTimersUnarmed ==
  /\ pc = "next" /\ expired = {}
  /\ pc' = "idle"
  /\ UNCHANGED <<started, interval, timers, expired, current, tokens,
                 cancelled, armed, fdLeft, reported, final, late>>

\* The end of processTimers: the timerfd is set for the first entry left.
EndProcessTimers ==
  /\ pc = "next" /\ expired = {}
  /\ \/ /\ timers = {}
        /\ UNCHANGED <<armed, fdLeft>>
     \/ \E e \in timers :
          /\ \A d \in timers : e.left <= d.left
          /\ ResetTimerFd(e.left)
  /\ pc' = "idle"
  /\ UNCHANGED <<started, interval, timers, expired, current, tokens,
                 cancelled, reported, final, late>>

-----------------------------------------------------------------------------
ProcessTimers ==
  \/ Poll \/ HandleTimerRead
  \/ \E id \in Timer : LoadToken(id) \/ EnterCallback(id) \/ EndOnce(id)
                        \/ ReloadToken(id) \/ Requeue(id)
  \/ LeaveCallback \/ EndProcessTimers

UserCall(id) ==
  \/ \E delay \in Delay : RunAt(id, delay) \/ RunEvery(id, delay)
  \/ CancelInLoop(id)

TimerNext ==
  \/ ProcessTimers
  \/ \E id \in Timer : UserCall(id) \/ CancelElsewhere(id)
  \/ Tick

TimerSpec == TimerInit /\ [][TimerNext]_timerVars

\* Time passes, and the loop thread, which epoll_wait wakes for an expired
\* timerfd, gets on with its work.  Nobody has to start or cancel a timer.
FairTimerSpec == TimerSpec /\ WF_timerVars(ProcessTimers) /\ WF_timerVars(Tick)

-----------------------------------------------------------------------------
Scheduled == {e.id : e \in timers} \cup expired

\* Outside processTimers the timerfd runs whenever a timer waits, and it is
\* never set for later than the earliest of them (or the next tick): neither
\* an earlier timer added behind a later one, nor a callback that starts
\* timers strands a timer.
TimerfdCoversTimers ==
  pc = "idle" =>
    \A e \in timers : armed /\ (fdLeft <= e.left \/ fdLeft <= 1)

\* A timer that can still fire can be cancelled, one that was cancelled or is
\* over holds no token: timerCancelTokens_ neither leaks nor loses a timer.
TokensMatchTimers ==
  tokens = (Scheduled \cup current) \ cancelled

\* After cancelTimer returns the callback begins at most once more, and not at
\* all when the loop thread itself cancelled, even if both timers expired in
\* the same round.
CancelIsFinal ==
  /\ \A id \in Timer : late[id] <= 1
  /\ \A id \in final : late[id] = 0

-----------------------------------------------------------------------------
(* The inductive invariant behind the safety properties. *)

\* A wrapper is on the stack exactly while processTimers is inside one.
OneWrapper ==
  /\ pc \in {"idle", "next"} => current = {}
  /\ pc \notin {"idle", "next"} => \E id \in Timer : current = {id}
  /\ pc = "idle" => expired = {}

\* A timer has at most one entry, so a periodic one never runs twice a round.
OneEntryPerTimer ==
  /\ \A e, d \in timers : e.id = d.id => e = d
  /\ \A e \in timers : e.id \notin expired \cup current
  /\ current \cap expired = {}

\* An id that is in use was handed out by runAt or runEvery.
OnlyStarted ==
  \A id \in Scheduled \cup current \cup cancelled : started[id] # "no"

\* Whoever found the token clear has not begun its callback late before, and
\* the loop thread did not cancel it meanwhile.
CallNotLate ==
  \A id \in Timer :
    /\ late[id] > 0 \/ id \in final => id \in cancelled
    /\ pc = "call" /\ id \in current => late[id] = 0 /\ id \notin final

TimerInv ==
  /\ TimerTypeOK /\ OneWrapper /\ OneEntryPerTimer /\ OnlyStarted /\ CallNotLate
  /\ TimerfdCoversTimers /\ TokensMatchTimers /\ CancelIsFinal

-----------------------------------------------------------------------------
(* Liveness, under FairTimerSpec. *)

\* A started timer fires unless it is cancelled first.
TimerFires ==
  \A id \in Timer : (id \in Scheduled) ~> (id \in current \/ id \in cancelled)

\* A cancelled timer leaves timers_ for good.
CancelTakesEffect ==
  \A id \in Timer : (id \in cancelled) ~> [](id \notin Scheduled)
=============================================================================
