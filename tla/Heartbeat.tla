------------------------------ MODULE Heartbeat -----------------------------
(***************************************************************************)
(* Heartbeats between nanoprobes (clientlib/hbsender.c, hblistener.c and   *)
(* the heartbeat functions of nanoprobe.c): who sends to whom, who listens *)
(* for whom, and what is reported to the CMA.  The CMA's orders arrive in  *)
(* any order; its ring is in HbRing.                                       *)
(*                                                                         *)
(* The unit of time is the second.  A GLib timer fires in the second it is *)
(* due, and a heartbeat arrives in the second it was sent, or never: Tick  *)
(* waits for both.  Within a second everything interleaves.                *)
(***************************************************************************)
EXTENDS Integers, FiniteSets, SequencesExt

CONSTANTS
    Node,           \* nanoprobes, by address
    Interval,       \* CONFIGNAME_INTERVAL: between two heartbeats
    Warntime,       \* CONFIGNAME_WARNTIME: a heartbeat this late is reported
    Deadtime,       \* CONFIGNAME_TIMEOUT: a peer silent for longer is dead
    MartianTimeout, \* MARTIAN_TIMEOUT: after such a silence martians are counted anew
    MartianPeriod,  \* one in so many martians is reported (10)
    MaxEvent        \* bound: orders of the CMA, heartbeats lost, processes stopped

ASSUME TimesAssumption ==
    /\ {Interval, Warntime, Deadtime, MartianTimeout} \subseteq Nat
    /\ 0 < Interval /\ Interval < Warntime /\ Warntime < Deadtime
    /\ Interval <= MartianTimeout
    /\ MartianPeriod \in Nat /\ MartianPeriod > 2

VARIABLES
    run,       \* [Node -> "up", "stopping" (nano_shutting_down) or "down"]
    senders,   \* [Node -> _hb_senders, a sequence of HbSender]
    listeners, \* [Node -> _hb_listeners, a function from addresses to HbListener]
    intercepts,\* [Node -> does the transport's dispatch table name an HbListener for heartbeats?]
    checks,    \* [Node -> GLib timers that call _hblistener_gsourcefunc]
    martians,  \* [Node -> recent_martian_count and the age of the last martian]
    air,       \* heartbeats on their way: [src, dst] -> how many
    told,      \* history: [Node -> [Node -> what the CMA was told last of that peer]]
    gap,       \* history: [Node -> listened to peers whose heartbeats were interrupted since the last]
    events     \* how much of MaxEvent has been used

vars == <<run, senders, listeners, intercepts, checks, martians, air, told, gap, events>>

-----------------------------------------------------------------------------
(* HbSender and HbListener.                                                *)

\* due: seconds until the timer of the sender fires
HbSender == [sendaddr : Node, due : 0..Interval]

\* age: seconds since nexttime and warntime were set.  They are in the past when
\* it exceeds Deadtime and Warntime; no more is ever asked of it.
HbListener == [timedout : BOOLEAN, age : 0..(Deadtime + 2)]

\* Mutant: the timer of a sender is one too slow at first.
NewSenderLate(addr) == [sendaddr |-> addr, due |-> Interval + 1]

NewSender(addr) == [sendaddr |-> addr, due |-> Interval]

NewListener == [timedout |-> FALSE, age |-> 0]

Emit(bag, src, dst, k) == [bag EXCEPT ![<<src, dst>>] = @ + k]

\* hbsender_stopsend: the first sender to that address sends once more and goes.
StopSend(n, addr) ==
    LET mine == {i \in DOMAIN senders[n] : senders[n][i].sendaddr = addr}
    IN  IF mine = {} THEN [senders |-> senders[n], sent |-> 0]
        ELSE [senders |-> RemoveAt(senders[n], CHOOSE i \in mine : \A j \in mine : i <= j),
              sent |-> 1]

\* hbsender_new: it sends at once.  A sender to the same address stays.
StartSend(n, addr) == [senders |-> <<NewSender(addr)>> \o senders[n], sent |-> 1]

\* hblistener_new, _hblistener_addlist: an older listener for the address goes.
Listen(n, addr) == [x \in DOMAIN listeners[n] \cup {addr} |->
                      IF x = addr THEN NewListener ELSE listeners[n][x]]

\* hblistener_unlisten
Unlisten(n, addr) == [x \in DOMAIN listeners[n] \ {addr} |-> listeners[n][x]]

-----------------------------------------------------------------------------
(* Reports.                                                                *)

\* nanoprobe_report_upstream: nothing is reported while shutting down.  Whether
\* the CMA is known at all is a matter of Nanoprobe.
Reports(n) == run[n] = "up"

Tell(n, addr, what) == IF Reports(n) THEN [told EXCEPT ![n][addr] = what] ELSE told

NoMartian == [count |-> 0, age |-> MartianTimeout + 1]

\* Mutant: MARTIAN_TIMEOUT is compared with microseconds.
RecountInMicroseconds(m) == IF m.age > 0 THEN 1 ELSE m.count + 1

\* recent_martian_count when one more arrives.  What counts is 1, and the remainder
\* by MartianPeriod afterwards.
Recount(m) ==
    CASE m.age > MartianTimeout -> 1
      [] m.age <= MartianTimeout /\ m.count = MartianPeriod + 1 -> 2
      [] OTHER -> m.count + 1

\* _real_martian_agent: the second of a series and every MartianPeriod-th after it
IsReportedMartian(count) == count % MartianPeriod = 2

-----------------------------------------------------------------------------
(* Actions.                                                                *)

Init ==
    /\ run = [n \in Node |-> "up"]
    /\ senders = [n \in Node |-> <<>>]
    /\ listeners = [n \in Node |-> <<>>]
    /\ intercepts = [n \in Node |-> FALSE]
    /\ checks = [n \in Node |-> [timers |-> 0, fired |-> 0]]
    /\ martians = [n \in Node |-> NoMartian]
    /\ air = [pair \in Node \X Node |-> 0]
    /\ told = [n \in Node |-> [p \in Node |-> "nothing"]]
    /\ gap = [n \in Node |-> {}]
    /\ events = 0

Eventful == events < MaxEvent /\ events' = events + 1

\* Mutant: a list that has just become empty is taken for one with a timer.
AddNoCheck(n) == checks[n]

\* _hblistener_addlist: the first listener of the list starts a timer, even if the
\* last one has not noticed yet that the list was empty meanwhile.
AddCheck(n) == IF DOMAIN listeners[n] = {} THEN [checks[n] EXCEPT !.timers = @ + 1] ELSE checks[n]

\* nanoobey_sendhb for one address; the interval is the one of the configuration.
SendHb(n, sends, addr) ==
    IF sends THEN StartSend(n, addr) ELSE [senders |-> senders[n], sent |-> 0]

\* nanoobey_sendhb, nanoobey_expecthb and nanoobey_sendexpecthb, for one address.
\* The CMA gives such an order when it holds that peer for alive.
Obey(n, sends, expects, addr) ==
    /\ run[n] = "up" /\ addr # n
    /\ Eventful
    /\ LET s == SendHb(n, sends, addr) IN
       /\ senders' = [senders EXCEPT ![n] = s.senders]
       /\ air' = Emit(air, n, addr, s.sent)
    /\ IF expects
       THEN /\ listeners' = [listeners EXCEPT ![n] = Listen(n, addr)]
            /\ intercepts' = [intercepts EXCEPT ![n] = TRUE]
            /\ checks' = [checks EXCEPT ![n] = AddCheck(n)]
            /\ told' = [told EXCEPT ![n][addr] = "nothing"]
            /\ gap' = [gap EXCEPT ![n] = @ \ {addr}]
       ELSE UNCHANGED <<listeners, intercepts, checks, told, gap>>
    /\ UNCHANGED <<run, martians>>

\* nanoobey_stopsendhb, nanoobey_stopexpecthb and nanoobey_stopsendexpecthb, which
\* are obeyed during shutdown as well.
ObeyStop(n, sends, expects, addr) ==
    /\ run[n] # "down" /\ addr # n
    /\ Eventful
    /\ LET s == IF sends THEN StopSend(n, addr) ELSE [senders |-> senders[n], sent |-> 0] IN
       /\ senders' = [senders EXCEPT ![n] = s.senders]
       /\ air' = Emit(air, n, addr, s.sent)
    /\ IF expects
       THEN /\ listeners' = [listeners EXCEPT ![n] = Unlisten(n, addr)]
            /\ told' = [told EXCEPT ![n][addr] = "nothing"]
            /\ gap' = [gap EXCEPT ![n] = @ \ {addr}]
       ELSE UNCHANGED <<listeners, told, gap>>
    /\ UNCHANGED <<run, intercepts, checks, martians>>

\* _hbsender_gsourcefunc
SendHeartbeat(n, i) ==
    /\ run[n] # "down" /\ i \in DOMAIN senders[n]
    /\ senders[n][i].due = 0
    /\ senders' = [senders EXCEPT ![n][i].due = Interval]
    /\ air' = Emit(air, n, senders[n][i].sendaddr, 1)
    /\ UNCHANGED <<run, listeners, intercepts, checks, martians, told, gap, events>>

\* Mutant: a peer that comes back keeps its old deadline.
RefreshUnlessBack(l) == IF l.timedout THEN [l EXCEPT !.timedout = FALSE] ELSE [l EXCEPT !.age = 0]

\* Mutant: the status is not set back.
RefreshNotStatus(l) == [l EXCEPT !.age = 0]

Refresh(l) == [timedout |-> FALSE, age |-> 0]

\* What _hblistener_got_frameset and its callbacks report of a peer.
Lateness(l) ==
    CASE l.timedout -> "backalive"
      [] ~l.timedout /\ l.age > Warntime -> "late"
      [] OTHER -> "nothing"

\* _hblistener_got_frameset, the proxy of all HbListeners once one was made.  Until then
\* gotnetpkt takes the heartbeat, and nobody hears of it.
GotHeartbeat(n, src) ==
    /\ air[<<src, n>>] > 0
    /\ air' = Emit(air, src, n, -1)
    /\ IF run[n] # "down" /\ src \in DOMAIN listeners[n]
       THEN LET l == listeners[n][src] IN
            /\ listeners' = [listeners EXCEPT ![n][src] = Refresh(l)]
            /\ told' = IF Lateness(l) = "nothing" THEN told ELSE Tell(n, src, Lateness(l))
            /\ gap' = [gap EXCEPT ![n] = @ \ {src}]
            /\ UNCHANGED martians
       ELSE /\ martians' = IF run[n] # "down" /\ intercepts[n]
                           THEN [martians EXCEPT ![n] = [count |-> Recount(@), age |-> 0]] ELSE martians
            /\ UNCHANGED <<listeners, told, gap>>
    /\ UNCHANGED <<run, senders, intercepts, checks, events>>

\* The step above, when it sends a FRAMESETTYPE_HBMARTIAN.
ReportMartian(n) ==
    /\ Reports(n) /\ intercepts[n]
    /\ \E src \in Node \ DOMAIN listeners[n] : GotHeartbeat(n, src)
    /\ IsReportedMartian(Recount(martians[n]))

IsSilent(l) == ~l.timedout /\ l.age > Deadtime

\* What _hblistener_gsourcefunc returns: the timer goes on, unless the list is empty.
AfterCheck(n) ==
    IF DOMAIN listeners[n] = {} THEN [checks[n] EXCEPT !.timers = @ - 1]
    ELSE [checks[n] EXCEPT !.fired = @ + 1]

\* _hblistener_gsourcefunc, once a second for each timer; one that finds the list
\* empty ends.  _real_deadtime_agent reports.
CheckTimeouts(n) ==
    /\ run[n] # "down"
    /\ checks[n].fired < checks[n].timers
    /\ LET silent == {p \in DOMAIN listeners[n] : IsSilent(listeners[n][p])} IN
       /\ listeners' = [listeners EXCEPT ![n] = [p \in DOMAIN @ |->
                           IF p \in silent THEN [@[p] EXCEPT !.timedout = TRUE] ELSE @[p]]]
       /\ told' = IF Reports(n)
                  THEN [told EXCEPT ![n] = [p \in Node |-> IF p \in silent THEN "dead" ELSE @[p]]]
                  ELSE told
       /\ checks' = [checks EXCEPT ![n] = AfterCheck(n)]
    /\ UNCHANGED <<run, senders, intercepts, martians, air, gap, events>>

\* nano_initiate_shutdown
NanoInitiateShutdown(n) ==
    /\ run[n] = "up" /\ Eventful
    /\ run' = [run EXCEPT ![n] = "stopping"]
    /\ UNCHANGED <<senders, listeners, intercepts, checks, martians, air, told, gap>>

\* nano_shutdown: hbsender_stopallsenders sends nothing, hblistener_shutdown; or
\* the process is killed.
NanoShutdown(n) ==
    /\ run[n] # "down" /\ Eventful
    /\ run' = [run EXCEPT ![n] = "down"]
    /\ senders' = [senders EXCEPT ![n] = <<>>]
    /\ listeners' = [listeners EXCEPT ![n] = <<>>]
    /\ intercepts' = [intercepts EXCEPT ![n] = FALSE]
    /\ checks' = [checks EXCEPT ![n] = [timers |-> 0, fired |-> 0]]
    /\ martians' = [martians EXCEPT ![n] = NoMartian]
    /\ told' = [told EXCEPT ![n] = [p \in Node |-> "nothing"]]
    /\ gap' = [gap EXCEPT ![n] = {}]
    /\ UNCHANGED air

\* The network loses a heartbeat.
Lose(src, dst) ==
    /\ air[<<src, dst>>] > 0 /\ Eventful
    /\ air' = Emit(air, src, dst, -1)
    /\ gap' = [gap EXCEPT ![dst] = @ \cup ({src} \cap DOMAIN listeners[dst])]
    /\ UNCHANGED <<run, senders, listeners, intercepts, checks, martians, told>>

SendsTo(n, addr) == \E i \in DOMAIN senders[n] : senders[n][i].sendaddr = addr

Older(age, limit) == IF age < limit THEN age + 1 ELSE age

\* A second passes, when all that was due in the last one has happened.
Tick ==
    /\ \A n \in Node : /\ \A i \in DOMAIN senders[n] : senders[n][i].due > 0
                       /\ checks[n].fired = checks[n].timers
    /\ \A pair \in Node \X Node : air[pair] = 0
    /\ senders' = [n \in Node |-> [i \in DOMAIN senders[n] |-> [senders[n][i] EXCEPT !.due = @ - 1]]]
    /\ listeners' = [n \in Node |-> [p \in DOMAIN listeners[n] |->
                        [listeners[n][p] EXCEPT !.age = Older(@, Deadtime + 2)]]]
    /\ checks' = [n \in Node |-> [checks[n] EXCEPT !.fired = 0]]
    /\ martians' = [n \in Node |-> [martians[n] EXCEPT !.age = Older(@, MartianTimeout + 1)]]
    /\ gap' = [n \in Node |-> gap[n] \cup {p \in DOMAIN listeners[n] : ~SendsTo(p, n)}]
    /\ UNCHANGED <<run, intercepts, air, told, events>>

Next ==
    \/ \E n, addr \in Node : \/ \E sends, expects \in BOOLEAN :
                                    /\ sends \/ expects
                                    /\ Obey(n, sends, expects, addr) \/ ObeyStop(n, sends, expects, addr)
                             \/ GotHeartbeat(n, addr) \/ Lose(n, addr)
    \/ \E n \in Node : \/ \E i \in DOMAIN senders[n] : SendHeartbeat(n, i)
                       \/ CheckTimeouts(n) \/ NanoInitiateShutdown(n) \/ NanoShutdown(n)
    \/ Tick

Spec == Init /\ [][Next]_vars

\* The main loops run, so that time passes.
TimeFairness == WF_vars(Tick \/ \E n, addr \in Node : \/ GotHeartbeat(n, addr) \/ CheckTimeouts(n)
                                                     \/ \E i \in DOMAIN senders[n] : SendHeartbeat(n, i))

FairSpec == Spec /\ TimeFairness

-----------------------------------------------------------------------------
(* Properties.                                                             *)

HbTypeOK ==
    /\ run \in [Node -> {"up", "stopping", "down"}] /\ intercepts \in [Node -> BOOLEAN]
    /\ \A n \in Node : /\ senders[n] \in Seq(HbSender)
                       /\ DOMAIN listeners[n] \subseteq Node \ {n}
                       /\ \A p \in DOMAIN listeners[n] : listeners[n][p] \in HbListener
                       /\ checks[n].fired <= checks[n].timers
                       /\ DOMAIN listeners[n] # {} => intercepts[n]

\* A listener declares its peer dead only if a heartbeat was lost or the peer
\* stopped sending since the last heartbeat came: however the orders, the timers and
\* the heartbeats of a second interleave, and however often the peer was dead before.
NoFalseDeath ==
    \A n \in Node : \A p \in DOMAIN listeners[n] : listeners[n][p].timedout => p \in gap[n]

\* A peer that is silent for Deadtime is declared dead within the second that
\* follows, also when the list of listeners became empty and was filled again.
DeadIsNoticed ==
    \A n \in Node : run[n] # "down" =>
        \A p \in DOMAIN listeners[n] : listeners[n][p].timedout \/ listeners[n][p].age <= Deadtime + 1

\* What the CMA heard last of a peer agrees with its listener: a death is reported,
\* and the peer's return cancels it.
CmaIsTold ==
    \A n \in Node : run[n] = "up" =>
        \A p \in DOMAIN listeners[n] : listeners[n][p].timedout <=> told[n][p] = "dead"

\* A heartbeat comes to a nanoprobe that intercepts heartbeats and expects none of that peer.
Unexpected(n, p) ==
    /\ run[n] = "up" /\ intercepts[n] /\ p \notin DOMAIN listeners[n]
    /\ run[p] # "down" /\ SendsTo(p, n)

\* Heartbeats nobody expects, at intervals of MARTIAN_TIMEOUT at most, are reported to the
\* CMA again and again, so that it can stop the sender: from the first EXPECTHB of the
\* nanoprobe on, also when it expects heartbeats of nobody any more.
MartianIsReported ==
    \A n, p \in Node : <>[]Unexpected(n, p) => []<><<ReportMartian(n)>>_vars
=============================================================================
