------------------------------ MODULE EvTimer ------------------------------
(***************************************************************************)
(* Software timers, proj/os/ev_timer.c, with the list macros of utlist.h.  *)
(* Timers come from a pool (TL_ZB_TIMER_SCHEDULE, addressed by handles the *)
(* clients keep) or are static objects of their owner (ev_on_timer).  The  *)
(* main loop calls ev_timer_process, which ages the timers and runs the    *)
(* callbacks of the expired ones; a callback may itself post and cancel    *)
(* timers while the list is being walked.                                  *)
(***************************************************************************)
EXTENDS Integers, FiniteSets

CONSTANTS
  Slots,       \* pool timers: an interval of integers, searched in this order
  Statics,     \* timers that are objects of their clients
  Clients,     \* clients of the pool, each with one handle and one callback
  Nil,         \* NULL
  Careless,    \* clients whose callback returns -1 and keeps the handle
  Periods,     \* timeouts in use, in milliseconds
  TickMs,      \* ticks of a millisecond (S_TIMER_CLOCK_1US * 1000)
  MaxStep,     \* bound: ticks between two runs of ev_timer_process, callbacks included
  MaxSleep,    \* the longest sleep, in ticks: the longest period
  MaxOps       \* bound: timer operations a callback makes

Timers == Slots \cup Statics

ASSUME TimerAssumption ==
  /\ Slots \subseteq Int /\ Slots # {} /\ IsFiniteSet(Timers)
  /\ Nil \notin Timers /\ Slots \cap Statics = {}
  /\ Careless \subseteq Clients
  /\ Periods \subseteq Nat \ {0}
  /\ TickMs \in Nat \ {0} /\ MaxStep \in Nat /\ MaxOps \in Nat /\ MaxSleep \in Nat
  /\ \A p \in Periods : MaxSleep >= p * TickMs

VARIABLES
  head, next,          \* the linked list
  nearest,             \* timer_nearest
  timeout, period,     \* milliseconds left and reload value of each timer
  isRunning, used,     \* flags of each timer
  usedNum,             \* used_num of the pool
  owner,               \* cb: the client whose callback a timer runs
  handle,              \* the clients' ev_timer_event_t pointers
  age,                 \* ticks since a timer that is not running was registered
  since, remTick,      \* ticks since prevSysTick was stored, remSysTick
  pc, cur, prevHead,   \* ev_timer_executeCB: timerEvt, prev_head
  ops,                 \* operations left to the running callback
  real,                \* history: ticks since a timer was registered or, if its callback
                       \* armed it again, since that pass read the clock; up to MaxSleep
  due                  \* history: expired timers the running pass has to serve

list == <<head, next, nearest>>
tmr == <<timeout, period, isRunning, used, usedNum, owner, handle>>
clock == <<since, remTick>>
vars == <<list, tmr, clock, age, pc, cur, prevHead, ops, real, due>>

---------------------------------------------------------------------------
(* List macros of utlist.h, on explicit pointers *)

\* timers reachable from h, a pointer
Walk(h, nx) ==
  LET reach[n \in 0 .. Cardinality(Timers)] ==
        IF n = 0 THEN {h} \ {Nil}
        ELSE LET r == reach[n - 1] IN r \cup ({nx[t] : t \in r} \ {Nil})
  IN reach[Cardinality(Timers) - 1]
InList == Walk(head, next)

\* LIST_DELETE: the removed element keeps its own next pointer.
DeleteHead(h, nx, t) == IF h = t THEN nx[t] ELSE h
DeleteNext(h, nx, t) ==
  [x \in Timers |-> IF h # t /\ x \in Walk(h, nx) /\ nx[x] = t THEN nx[t] ELSE nx[x]]

\* ev_timer_nearestUpdate: the first timer of the list with the least timeout
Before(nx, x, y) == y \in Walk(nx[x], nx)
Nearest(h, nx, to) ==
  IF h = Nil THEN Nil
  ELSE CHOOSE t \in Walk(h, nx) :
         \A x \in Walk(h, nx) \ {t} :
           to[t] < to[x] \/ (to[t] = to[x] /\ Before(nx, t, x))

---------------------------------------------------------------------------
(* Operations of the clients.  They run with interrupts disabled. *)

\* A client acts from the main loop, or from the callback that is running.
ClientTurn == \/ pc = "idle" /\ UNCHANGED ops
              \/ pc = "cb" /\ ops > 0 /\ ops' = ops - 1

\* ev_on_timer, but for its branch for a timer that is in the list already: every
\* caller of the repository first makes sure that it is not, for a slot is fresh
\* and ota_queryStart asks ev_timer_exist.
Arm(t, ms) ==
  /\ period' = [period EXCEPT ![t] = ms]
  /\ timeout' = [timeout EXCEPT ![t] = ms]
  /\ age' = [age EXCEPT ![t] = IF isRunning[t] THEN @ ELSE 0]
  /\ real' = [real EXCEPT ![t] = 0]
  /\ next' = [next EXCEPT ![t] = head]
  /\ head' = t
  /\ nearest' = Nearest(t, next', timeout')

OnTimer(t, ms) ==
  /\ ClientTurn /\ t \notin InList
  /\ Arm(t, ms)
  /\ UNCHANGED <<isRunning, used, usedNum, owner, handle, clock, pc, cur, prevHead, due>>

\* Mutant: used_num is not decremented.
UnonKeepsCount(t) ==
  /\ isRunning' = [isRunning EXCEPT ![t] = FALSE]
  /\ used' = [used EXCEPT ![t] = IF t \in Slots THEN FALSE ELSE @]
  /\ head' = DeleteHead(head, next, t)
  /\ next' = DeleteNext(head, next, t)
  /\ nearest' = Nearest(head', next', timeout)
  /\ due' = due \ {t}
  /\ UNCHANGED usedNum

\* ev_unon_timer with ev_timer_poolDelUpdate
Unon(t) ==
  /\ isRunning' = [isRunning EXCEPT ![t] = FALSE]
  /\ used' = [used EXCEPT ![t] = IF t \in Slots THEN FALSE ELSE @]
  /\ usedNum' = IF t \in Slots /\ used[t] THEN usedNum - 1 ELSE usedNum
  /\ head' = DeleteHead(head, next, t)
  /\ next' = DeleteNext(head, next, t)
  /\ nearest' = Nearest(head', next', timeout)
  /\ due' = due \ {t}

UnonTimer(t) ==
  /\ ClientTurn /\ t \in InList /\ t # cur
  /\ Unon(t)
  /\ UNCHANGED <<timeout, period, owner, handle, clock, age, pc, cur, prevHead, real>>

\* ev_timer_taskPost: the first free slot of the pool, if there is one.
Post(c, ms) ==
  /\ ClientTurn /\ handle[c] = Nil
  /\ IF usedNum >= Cardinality(Slots)
     THEN UNCHANGED <<list, timeout, period, used, usedNum, owner, handle, age, real>>
     ELSE \E t \in Slots :
            /\ ~used[t] /\ \A x \in Slots : x < t => used[x]
            /\ used' = [used EXCEPT ![t] = TRUE] /\ usedNum' = usedNum + 1
            /\ owner' = [owner EXCEPT ![t] = c]
            /\ handle' = [handle EXCEPT ![c] = t]
            /\ Arm(t, ms)
  /\ UNCHANGED <<isRunning, clock, pc, cur, prevHead, due>>

\* Mutant: the handle of a cancelled timer is kept.
CancelKeepsHandle(c) ==
  /\ ClientTurn /\ handle[c] # Nil /\ (pc = "cb" => handle[c] # cur)
  /\ used[handle[c]]
  /\ Unon(handle[c])
  /\ UNCHANGED <<timeout, period, owner, handle, clock, age, pc, cur, prevHead, real>>

\* ev_timer_taskCancel.  No callback of the repository cancels its own timer.
\* Nothing happens, and the handle stays, when its slot is not in use.
Cancel(c) ==
  /\ ClientTurn /\ handle[c] # Nil /\ (pc = "cb" => handle[c] # cur)
  /\ IF used[handle[c]]
     THEN Unon(handle[c]) /\ handle' = [handle EXCEPT ![c] = Nil]
     ELSE UNCHANGED <<list, isRunning, used, usedNum, handle, due>>
  /\ UNCHANGED <<timeout, period, owner, clock, age, pc, cur, prevHead, real>>

---------------------------------------------------------------------------
(* ev_timer_process *)

\* the history, which need not tell ages beyond the longest period apart
Capped(n) == IF n > MaxSleep THEN MaxSleep ELSE n
RealPlus(t, n) == IF t \notin InList THEN 0 ELSE Capped(real[t] + n)

\* Time passes in the main loop, in a callback and between callbacks.
Tick(n) ==
  /\ since + n <= MaxStep
  /\ since' = since + n
  /\ age' = [t \in Timers |-> IF isRunning[t] \/ t \notin InList THEN 0 ELSE age[t] + n]
  /\ real' = [t \in Timers |-> RealPlus(t, n)]
  /\ UNCHANGED <<list, tmr, remTick, pc, cur, prevHead, ops, due>>

\* ev_timer_update: a running timer is aged by the time since the last run, one
\* that was just registered by the time since it was registered.
Elapsed(t, ms, more) ==
  IF isRunning[t] THEN ms ELSE (age[t] + more) \div TickMs

\* Aging by ms milliseconds, more ticks after the last Tick.
Update(ms, more) ==
  /\ timeout' = [t \in Timers |->
        IF t \notin InList THEN timeout[t]
        ELSE IF timeout[t] > Elapsed(t, ms, more)
             THEN timeout[t] - Elapsed(t, ms, more) ELSE 0]
  /\ isRunning' = [t \in Timers |-> isRunning[t] \/ t \in InList]
  /\ age' = [t \in Timers |-> 0]

Process ==
  /\ pc = "idle" /\ since > 0
  /\ LET ms == (since \div TickMs) + (remTick + (since % TickMs)) \div TickMs
     IN /\ since' = 0 /\ remTick' = (remTick + (since % TickMs)) % TickMs
        /\ IF ms = 0
           THEN UNCHANGED <<timeout, isRunning, age, pc, cur, prevHead, due>>
           ELSE /\ Update(ms, 0)
                /\ pc' = "walk" /\ cur' = head /\ prevHead' = head
                /\ due' = {t \in InList : timeout'[t] = 0}
  /\ UNCHANGED <<list, period, used, usedNum, owner, handle, ops, real>>

\* Mutant: the system tick of the last run is not moved past the sleep.
WakeKeepsTick(n) ==
  IF n \div TickMs = 0
  THEN /\ since + n <= MaxStep /\ since' = since + n
       /\ age' = [t \in Timers |-> IF isRunning[t] \/ t \notin InList THEN 0 ELSE age[t] + n]
       /\ UNCHANGED <<timeout, isRunning>>
  ELSE Update(n \div TickMs, n) /\ since' = since + n

\* drv_pm_wakeupTimeUpdate after n ticks: whole milliseconds are taken off the
\* timers and the count to the next run starts anew; a shorter sleep is left
\* to that run, for the system tick went on.
Wake(n) ==
  IF n \div TickMs = 0
  THEN /\ since + n <= MaxStep /\ since' = since + n
       /\ age' = [t \in Timers |-> IF isRunning[t] \/ t \notin InList THEN 0 ELSE age[t] + n]
       /\ UNCHANGED <<timeout, isRunning>>
  ELSE Update(n \div TickMs, n) /\ since' = 0

\* drv_pm_lowPowerEnter with a timer running: the device sleeps until
\* timer_nearest is due, or a pad wakes it earlier.  Without a timer it goes
\* to deep sleep and starts from Init.
Sleep(n) ==
  /\ pc = "idle" /\ nearest # Nil
  /\ n \in 1 .. timeout[nearest] * TickMs
  /\ Wake(n)
  /\ real' = [t \in Timers |-> RealPlus(t, n)]
  /\ UNCHANGED <<list, period, used, usedNum, owner, handle, remTick, pc, cur, prevHead, ops, due>>

\* ev_timer_executeCB: one timer of the walk
WalkOn ==
  /\ pc = "walk" /\ cur # Nil /\ timeout[cur] > 0
  /\ cur' = next[cur]
  /\ UNCHANGED <<list, tmr, clock, age, pc, prevHead, ops, real, due>>

Call ==
  /\ pc = "walk" /\ cur # Nil /\ timeout[cur] = 0
  /\ pc' = "cb" /\ ops' = MaxOps /\ due' = due \ {cur}
  /\ UNCHANGED <<list, tmr, clock, age, cur, prevHead, real>>

\* Mutant: the walk starts again at the head the pass began with.
AdvanceOldHead ==
  IF prevHead # head' THEN cur' = prevHead /\ prevHead' = head'
  ELSE cur' = next'[cur] /\ UNCHANGED prevHead

\* Mutant: the walk ends when the callback changed the head of the list.
AdvanceStops ==
  IF prevHead # head' THEN cur' = Nil /\ prevHead' = head'
  ELSE cur' = next'[cur] /\ UNCHANGED prevHead

\* The walk starts again when the callback changed the head of the list.
Advance ==
  IF prevHead # head' THEN cur' = head' /\ prevHead' = head'
  ELSE cur' = next'[cur] /\ UNCHANGED prevHead

\* The callback returns 0 or a new period: the timer is armed again.  It counts
\* as running, so the next pass ages it by all the time since this one read the
\* clock, what the callbacks have taken by now included.
CbAgain(ms) ==
  /\ pc = "cb" /\ ms \in Periods
  /\ period' = [period EXCEPT ![cur] = ms]
  /\ timeout' = [timeout EXCEPT ![cur] = ms]
  /\ real' = [real EXCEPT ![cur] = Capped(since)]
  /\ UNCHANGED list /\ Advance
  /\ pc' = "walk" /\ ops' = 0
  /\ UNCHANGED <<isRunning, used, usedNum, owner, handle, clock, age, due>>

\* The callback returns -1: the timer is removed.  A careful client has set
\* its handle to NULL in the callback.
CbStop ==
  /\ pc = "cb"
  /\ Unon(cur) /\ Advance
  /\ handle' = [c \in Clients |-> IF handle[c] = cur /\ owner[cur] = c /\ c \notin Careless
                                  THEN Nil ELSE handle[c]]
  /\ pc' = "walk" /\ ops' = 0
  /\ UNCHANGED <<timeout, period, owner, clock, age, real>>

\* Mutant: timer_nearest is not updated after the callbacks.
PassDoneStale ==
  /\ pc = "walk" /\ cur = Nil
  /\ pc' = "idle" /\ prevHead' = Nil
  /\ UNCHANGED <<list, tmr, clock, age, cur, ops, real, due>>

PassDone ==
  /\ pc = "walk" /\ cur = Nil
  /\ nearest' = Nearest(head, next, timeout)
  /\ pc' = "idle" /\ prevHead' = Nil
  /\ UNCHANGED <<head, next, tmr, clock, age, cur, ops, real, due>>

---------------------------------------------------------------------------
Init ==
  /\ head = Nil /\ nearest = Nil /\ next = [t \in Timers |-> Nil]
  /\ timeout = [t \in Timers |-> 0] /\ period = [t \in Timers |-> 0]
  /\ isRunning = [t \in Timers |-> FALSE] /\ used = [t \in Timers |-> FALSE]
  /\ usedNum = 0 /\ owner = [t \in Timers |-> Nil]
  /\ handle = [c \in Clients |-> Nil]
  /\ age = [t \in Timers |-> 0] /\ real = [t \in Timers |-> 0]
  /\ since = 0 /\ remTick = 0
  /\ pc = "idle" /\ cur = Nil /\ prevHead = Nil /\ ops = 0 /\ due = {}

Next ==
  \/ \E t \in Statics, ms \in Periods : OnTimer(t, ms)
  \/ \E t \in Statics : UnonTimer(t)
  \/ \E c \in Clients, ms \in Periods : Post(c, ms)
  \/ \E c \in Clients : Cancel(c)
  \/ \E n \in 1 .. MaxStep : Tick(n)
  \/ \E n \in 1 .. MaxSleep : Sleep(n)
  \/ Process \/ WalkOn \/ Call \/ CbStop \/ PassDone
  \/ \E ms \in Periods : CbAgain(ms)

Spec == Init /\ [][Next]_vars

---------------------------------------------------------------------------
(* Properties *)

\* Types of the state.
TypeOK ==
  /\ head \in Timers \cup {Nil} /\ next \in [Timers -> Timers \cup {Nil}]
  /\ nearest \in Timers \cup {Nil} /\ cur \in Timers \cup {Nil}
  /\ handle \in [Clients -> Slots \cup {Nil}]
  /\ usedNum \in 0 .. Cardinality(Slots) /\ remTick \in 0 .. TickMs - 1
  /\ due \subseteq Timers

\* The list and the pool agree through every nesting of callbacks: a slot is
\* used exactly while it is in the list, used_num counts the used ones, and
\* the list ends (no timer is its own successor).
PoolSound ==
  /\ \A t \in Slots : used[t] <=> t \in InList
  /\ usedNum = Cardinality({t \in Slots : used[t]})
  /\ \A t \in InList : t \notin Walk(next[t], next)

\* The walk, which follows next pointers a callback may have changed, only
\* ever calls a timer that is in the list: nothing cancelled fires.
NothingCancelledFires == pc = "cb" => cur \in InList

\* A pass over the list serves every timer that had expired when it began and
\* was not cancelled meanwhile, although callbacks insert and remove timers.
NoneSkipped == pc = "walk" /\ cur = Nil => due = {}

\* A timer fires less than one millisecond before its period is over, counted from
\* its registration (curSysTick) or, for a timer its callback armed again, from
\* the moment ev_timer_process stored prevSysTick for that pass: callbacks that
\* take long bring the next expiry nearer by the time the pass had taken when the
\* callback returned, and by no more, whatever they post and however the device
\* sleeps and carries over ticks.
NotEarly ==
  pc = "walk" => \A t \in due : real[t] > (period[t] - 1) * TickMs

\* the nearest timer is in the list and at most slack ms from the least
NearestWithin(slack) ==
  IF head = Nil THEN nearest = Nil
  ELSE /\ nearest \in InList
       /\ \A t \in InList : timeout[nearest] <= timeout[t] + slack

\* The most a wake-up, which does not look for timer_nearest again, can leave it
\* from the least: a timer that was registered since the last aging is aged by
\* its own time, that of one turn of the main loop and of the ticks it carried
\* over, where the others are aged by the sleep.
Slack == (MaxStep + 2 * (TickMs - 1)) \div TickMs

\* timer_nearest, which decides how long the device sleeps, is a timer with the
\* least time left whenever a pass ended or a timer was added or removed; a
\* wake-up leaves it within Slack of the least, however often the device sleeps.
NearestIsLeast ==
  [][pc' = "idle" => IF pc = "walk" \/ list' # list THEN NearestWithin(0)'
                     ELSE NearestWithin(Slack)']_vars

\* ev_timer_taskCancel works on a pointer its client kept.  A timer that leaves
\* the pool outside a callback was cancelled by the client that posted it: that
\* client held the pointer and has lost it.  Nobody else cancels it through a
\* pointer to a slot that has been given out again.
CancelsOwn ==
  [][\A t \in Slots : pc = "idle" /\ used[t] /\ ~used'[t]
       => handle[owner[t]] = t /\ handle'[owner[t]] = Nil]_vars
=============================================================================
