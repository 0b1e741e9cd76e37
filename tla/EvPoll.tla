------------------------------- MODULE EvPoll -------------------------------
(***************************************************************************)
(* The event loop: glib's main loop, which runs sofia-sip, polls with      *)
(* evpoll, which runs the timers and descriptors of libosmocore.           *)
(*                                                                         *)
(* Times are counted down, in the unit of a timeval's microsecond; Off is  *)
(* a timer that is not scheduled, or a select that blocks for ever.        *)
(***************************************************************************)
EXTENDS Integers, FiniteSetsExt

CONSTANTS Timer,        \* the osmo_timers: conn.reconnect and those of the legs
          UsPerMs,      \* scaled down from 1000
          MsPerSec,     \* scaled down from 1000
          MaxDelay      \* bound on the time a timer is scheduled for

ASSUME ScaleAssumption == {UsPerMs, MsPerSec, MaxDelay} \subseteq Nat \ {0}

VARIABLES
    pc,         \* "glib" before, "select" in, "done" after evpoll
    sleep,      \* in select: the time left until it times out
    timers,     \* time left until each timer expires
    source,     \* time left until glib has a source to dispatch (sofia-sip's timers)
    osmo_fd,    \* a descriptor of libosmocore (the MNCC socket, the VTY) is ready
    glib_fd,    \* a descriptor of glib (a SIP socket) is ready
    revents     \* evpoll has told glib so

vars == <<pc, sleep, timers, source, osmo_fd, glib_fd, revents>>

Off   == -1
Delay == {Off} \cup 0 .. MaxDelay

\* mncc_connection_start has scheduled the reconnect timer for now.
Init == /\ pc = "glib"
        /\ sleep = Off
        /\ timers \in {[u \in Timer |-> IF u = t THEN 0 ELSE Off] : t \in Timer}
        /\ source = Off
        /\ osmo_fd = FALSE
        /\ glib_fd = FALSE
        /\ revents = FALSE

-----------------------------------------------------------------------------
(* Timevals.                                                               *)

UsPerSec == UsPerMs * MsPerSec

timeval(us) == [sec |-> us \div UsPerSec, usec |-> us % UsPerSec]
Us(tv) == tv.sec * UsPerSec + tv.usec

\* timercmp(a, b, <)
Earlier(a, b) == a.sec < b.sec \/ (a.sec = b.sec /\ a.usec < b.usec)

\* External (glib): the timeout in milliseconds, rounded up; -1 without a source.
GlibTimeout == IF source = Off THEN -1 ELSE (source + UsPerMs - 1) \div UsPerMs

\* External (libosmocore): osmo_timers_prepare and osmo_timers_nearest.
Scheduled == {t \in Timer : timers[t] # Off}
Nearest   == timeval(Min({timers[t] : t \in Scheduled}))

\* Mutant: -1 taken literally.
SelectTime_forever(timeout) ==
    LET poll_tv == [sec |-> timeout \div MsPerSec, usec |-> (timeout % MsPerSec) * UsPerMs]
    IN  IF timeout = 0 THEN 0 ELSE
        IF timeout = -1 THEN Off ELSE
        IF Scheduled = {} \/ Earlier(poll_tv, Nearest) THEN Us(poll_tv) ELSE Us(Nearest)

\* Mutant: milliseconds that are not converted.
SelectTime_ms(timeout) ==
    LET poll_tv == [sec |-> timeout \div MsPerSec, usec |-> timeout % MsPerSec]
    IN  IF timeout = 0 THEN 0 ELSE
        IF timeout = -1 THEN IF Scheduled = {} THEN Off ELSE Us(Nearest) ELSE
        IF Scheduled = {} \/ Earlier(poll_tv, Nearest) THEN Us(poll_tv) ELSE Us(Nearest)

\* The tv that evpoll hands to select for glib's timeout.
SelectTime(timeout) ==
    LET poll_tv == [sec |-> timeout \div MsPerSec, usec |-> (timeout % MsPerSec) * UsPerMs]
    IN  IF timeout = 0 THEN 0 ELSE
        IF timeout = -1 THEN IF Scheduled = {} THEN Off ELSE Us(Nearest) ELSE
        IF Scheduled = {} \/ Earlier(poll_tv, Nearest) THEN Us(poll_tv) ELSE Us(Nearest)

-----------------------------------------------------------------------------
(* The loop.                                                               *)

Due == {t \in Timer : timers[t] = 0}

\* Handlers schedule and delete timers, if any ran.
TimersAfter(ran) ==
    {f \in [Timer -> Delay] : \A t \in Timer : f[t] = timers[t] \/ (ran /\ f[t] # 0)}

\* evpoll up to select.
EnterSelect == /\ pc = "glib"
               /\ pc' = "select"
               /\ sleep' = SelectTime(GlibTimeout)
               /\ UNCHANGED <<timers, source, osmo_fd, glib_fd, revents>>

\* A signal interrupts select: evpoll returns without firing timers or dispatching.
SelectInterrupted == /\ pc = "select"
                     /\ pc' = "done"
                     /\ sleep' = Off
                     /\ UNCHANGED <<timers, source, osmo_fd, glib_fd, revents>>

\* select times out or finds a descriptor ready.
Awake == pc = "select" /\ (sleep = 0 \/ osmo_fd \/ glib_fd)

\* Mutant: evpoll that also returns early when select has timed out (rc <= 0).
SelectReturns_early ==
    /\ Awake
    /\ pc' = "done"
    /\ sleep' = Off
    /\ timers' \in IF osmo_fd \/ glib_fd
                   THEN {f \in TimersAfter(TRUE) : \A t \in Due : f[t] # 0}
                   ELSE {timers}
    /\ osmo_fd' = FALSE
    /\ revents' = glib_fd
    /\ UNCHANGED <<source, glib_fd>>

\* Mutant: evpoll that leaves libosmocore's descriptors for the next time if glib's are
\* ready too.
SelectReturns_glib_first ==
    /\ Awake
    /\ pc' = "done"
    /\ sleep' = Off
    /\ timers' \in {f \in TimersAfter(Due # {}) : \A t \in Due : f[t] # 0}
    /\ osmo_fd' = (osmo_fd /\ glib_fd)
    /\ revents' = glib_fd
    /\ UNCHANGED <<source, glib_fd>>

\* The due timers fire, the handlers of libosmocore's descriptors run, and glib learns of
\* its own descriptors.  The handlers may hand work to sofia-sip.
SelectReturns ==
    LET ran == Due # {} \/ osmo_fd
    IN  /\ Awake
        /\ pc' = "done"
        /\ sleep' = Off
        /\ timers' \in {f \in TimersAfter(ran) : \A t \in Due : f[t] # 0}
        /\ source' \in IF ran THEN {source, 0} ELSE {source}
        /\ osmo_fd' = FALSE
        /\ revents' = glib_fd
        /\ UNCHANGED glib_fd

\* External (glib): the sources that are due and the SIP sockets it was told of are
\* dispatched.
GlibDispatch ==
    LET ran == source = 0 \/ revents
    IN  /\ pc = "done"
        /\ pc' = "glib"
        /\ timers' \in TimersAfter(ran)
        /\ source' \in IF ran THEN Delay \ {0} ELSE {source}
        /\ glib_fd' = (glib_fd /\ ~revents)
        /\ revents' = FALSE
        /\ UNCHANGED <<sleep, osmo_fd>>

\* Time passes, also while handlers run.
Less(d) == IF d > 0 THEN d - 1 ELSE d
Tick == /\ sleep'  = Less(sleep)
        /\ timers' = [t \in Timer |-> Less(timers[t])]
        /\ source' = Less(source)
        /\ UNCHANGED <<pc, osmo_fd, glib_fd, revents>>

\* External: a message of the MSC or a line of the VTY arrives; a SIP message arrives.
OsmoReady == osmo_fd' = TRUE /\ UNCHANGED <<pc, sleep, timers, source, glib_fd, revents>>
GlibReady == glib_fd' = TRUE /\ UNCHANGED <<pc, sleep, timers, source, osmo_fd, revents>>

Next == \/ EnterSelect \/ SelectInterrupted \/ SelectReturns \/ GlibDispatch
        \/ Tick \/ OsmoReady \/ GlibReady

\* The loop goes on, time passes, and not every select is interrupted by a signal.
Spec == /\ Init /\ [][Next]_vars
        /\ WF_vars(EnterSelect) /\ WF_vars(GlibDispatch) /\ WF_vars(Tick)
        /\ SF_vars(SelectReturns)

-----------------------------------------------------------------------------
(* Properties.                                                             *)

\* The time glib waits for, with the milliseconds rounded up.
Waits == {timers[t] : t \in Scheduled}
             \cup (IF source = Off THEN {} ELSE {source + UsPerMs - 1})

\* While it waits for descriptors the process never sleeps past the next timer of either
\* library, over the carry from microseconds to seconds and the three kinds of timeout.
NeverOversleeps == pc = "select" => \A w \in Waits : sleep # Off /\ sleep <= w

\* Nor does it wake up for nothing: select times out only when a timer of libosmocore or
\* a source of glib is due.
NeverSpins == pc = "select" /\ sleep = 0 => Due # {} \/ source = 0

\* An expired timer fires, however the handlers of the two libraries reschedule timers and
\* signals interrupt the loop: what the fairness of cmd_timeout and mncc_reconnect rests on.
TimersFire == \A t \in Timer : timers[t] = 0 ~> timers[t] # 0

\* A message on the MNCC socket is read, also while SIP messages keep arriving, and a SIP
\* message while messages keep arriving on the MNCC socket.
SocketServed == (osmo_fd ~> ~osmo_fd) /\ (glib_fd ~> ~glib_fd)
=============================================================================
