--------------------------- MODULE DeviceScheduler ---------------------------
(***************************************************************************)
(* When a device synchronises: the timers of createSyncHandle on the       *)
(* desktop (apps/desktop/src/data/syncStore.ts) and of FieldSync on the    *)
(* phone (apps/mobile/src/state/sync.ts), the cycles they start, which     *)
(* nothing keeps apart, and the full resynchronisation.  A cycle is a      *)
(* sequence of awaits over the cursor and the records of the device.  The  *)
(* queue of edits is empty: OfflineSync is about pushing.                  *)
(***************************************************************************)
EXTENDS Naturals, FiniteSets

CONSTANTS
    Cyc,          \* slots for the cycles in progress
    MaxFeed       \* changes in the server's feed

VARIABLES
    platform,     \* "desktop" or "phone"
    started, timer, nudger,   \* the handle runs; its two timeouts are armed
    statsWait,    \* start() calls of the phone that are still reading the statistics
    token,        \* the session has an access token
    cyc,          \* [Cyc -> [at, kind, pos]]
    have,         \* changes of the feed the device's records show
    pullCursor,   \* the stored cursor
    feedEnd,      \* the last change of the server
    crossed       \* a wipe and another cycle's pull overlapped, or the app died in a wipe

schedVars == <<platform, started, timer, nudger, statsWait, token, cyc, have, pullCursor,
               feedEnd, crossed>>
timers == <<started, timer, nudger, statsWait>>

NoCycle == [at |-> "idle", kind |-> "none", pos |-> 0]

SchedInit ==
    /\ platform \in {"desktop", "phone"}
    /\ started = FALSE /\ timer = FALSE /\ nudger = FALSE /\ statsWait = 0
    /\ token = TRUE
    /\ cyc = [c \in Cyc |-> NoCycle]
    /\ have = {} /\ pullCursor = 0 /\ feedEnd = 0 /\ crossed = FALSE

-----------------------------------------------------------------------------
(* The handle                                                              *)

\* The desktop arms the timer at once ...
StartDesktop ==
    /\ platform = "desktop" /\ ~started
    /\ started' = TRUE /\ timer' = TRUE
    /\ UNCHANGED <<platform, nudger, statsWait, token, cyc, have, pullCursor, feedEnd>>
\* ... and the phone when it has read its statistics, started or not by then.
StartPhone ==
    /\ platform = "phone" /\ ~started /\ statsWait < 2
    /\ started' = TRUE /\ statsWait' = statsWait + 1
    /\ UNCHANGED <<platform, timer, nudger, token, cyc, have, pullCursor, feedEnd>>
StatsRead ==
    /\ statsWait > 0
    /\ statsWait' = statsWait - 1 /\ timer' = TRUE
    /\ UNCHANGED <<platform, started, nudger, token, cyc, have, pullCursor, feedEnd>>

StopHandle ==
    /\ started' = FALSE /\ timer' = FALSE /\ nudger' = FALSE
    /\ UNCHANGED <<platform, statsWait, token, cyc, have, pullCursor, feedEnd>>

\* Mutant: the nudge takes the place of the heartbeat.
NudgeInstead ==
    /\ started /\ nudger' = TRUE /\ timer' = FALSE
    /\ UNCHANGED <<platform, started, statsWait, token, cyc, have, pullCursor, feedEnd>>
\* A nudge replaces the nudge before it.
NudgeHandle ==
    /\ started /\ nudger' = TRUE
    /\ UNCHANGED <<platform, started, timer, statsWait, token, cyc, have, pullCursor, feedEnd>>

Begin(c, kind, at) == cyc' = [cyc EXCEPT ![c] = [at |-> at, kind |-> kind, pos |-> 0]]

\* The heartbeat: run() returns at once without a token, and schedule() arms it again.
TimerFires(c) ==
    /\ timer /\ cyc[c].at = "idle"
    /\ IF token THEN timer' = FALSE /\ Begin(c, "timer", "read") ELSE UNCHANGED <<timer, cyc>>
    /\ UNCHANGED <<platform, started, nudger, statsWait, token, have, pullCursor, feedEnd>>
NudgeFires(c) ==
    /\ nudger /\ cyc[c].at = "idle"
    /\ nudger' = FALSE
    /\ IF token THEN Begin(c, "nudge", "read") ELSE UNCHANGED cyc
    /\ UNCHANGED <<platform, started, timer, statsWait, token, have, pullCursor, feedEnd>>

\* The button: run() on the phone, the bare client.syncOnce() on the desktop.
SyncNow(c) ==
    /\ cyc[c].at = "idle" /\ (platform = "phone" => token)
    /\ Begin(c, "now", "read")
    /\ UNCHANGED <<platform, timers, token, have, pullCursor, feedEnd>>

\* The phone's "pull all": wipe, cursor to zero, pull.
ForceFullResync(c) ==
    /\ platform = "phone" /\ cyc[c].at = "idle"
    /\ Begin(c, "full", "wipe")
    /\ UNCHANGED <<platform, timers, token, have, pullCursor, feedEnd>>

-----------------------------------------------------------------------------
(* A cycle                                                                 *)

To(c, at, pos) == cyc' = [cyc EXCEPT ![c].at = at, ![c].pos = pos]
\* What is left of a cycle that has nothing more to write: its statistics.
Over(c) == To(c, "stats", 0)

ReadCursor(c) ==
    /\ cyc[c].at = "read"
    /\ To(c, "pull", pullCursor)
    /\ UNCHANGED <<platform, timers, token, have, pullCursor, feedEnd>>

\* A page is applied, and the next one asked for when the server has more.
PullPage(c) ==
    /\ cyc[c].at = "pull" /\ cyc[c].pos < feedEnd
    /\ have' = have \cup {cyc[c].pos + 1}
    /\ To(c, IF cyc[c].pos + 1 < feedEnd THEN "pull" ELSE "save", cyc[c].pos + 1)
    /\ UNCHANGED <<platform, timers, token, pullCursor, feedEnd>>
PullNothing(c) ==
    /\ cyc[c].at = "pull" /\ cyc[c].pos = feedEnd
    /\ To(c, "save", cyc[c].pos)
    /\ UNCHANGED <<platform, timers, token, have, pullCursor, feedEnd>>
SaveCursor(c) ==
    /\ cyc[c].at = "save"
    /\ pullCursor' = cyc[c].pos
    /\ Over(c)
    /\ UNCHANGED <<platform, timers, token, have, feedEnd>>

\* Mutant: the records are wiped with the cursor where it was.
ResyncKeepsCursor(c) ==
    /\ cyc[c].at = "pull" /\ cyc[c].pos > 0
    /\ IF platform = "desktop" /\ cyc[c].kind # "now" THEN To(c, "wipe", 0) ELSE Over(c)
    /\ UNCHANGED <<platform, timers, token, have, pullCursor, feedEnd>>
\* The server may ask a cursor that is not zero to start over: the client stores zero,
\* and only the desktop's run() then wipes the records.
ResyncAsked(c) ==
    /\ cyc[c].at = "pull" /\ cyc[c].pos > 0
    /\ pullCursor' = 0
    /\ IF platform = "desktop" /\ cyc[c].kind # "now" THEN To(c, "wipe", 0) ELSE Over(c)
    /\ UNCHANGED <<platform, timers, token, have, feedEnd>>

\* wipeRemoteRecords: the last write of a desktop's cycle, the first of the phone's.
Wipe(c) ==
    /\ cyc[c].at = "wipe"
    /\ have' = {}
    /\ IF cyc[c].kind = "full" THEN To(c, "zero", 0) ELSE Over(c)
    /\ UNCHANGED <<platform, timers, token, pullCursor, feedEnd>>
ZeroCursor(c) ==
    /\ cyc[c].at = "zero"
    /\ pullCursor' = 0
    /\ To(c, "read", 0)
    /\ UNCHANGED <<platform, timers, token, have, feedEnd>>

\* No network, or an answer that never comes: the cycle ends where it is.
CycleFails(c) ==
    /\ cyc[c].at = "pull"
    /\ Over(c)
    /\ UNCHANGED <<platform, timers, token, have, pullCursor, feedEnd>>

\* run() ends, and a cycle of the heartbeat arms it again, stopped or not by then.
CycleEnds(c) ==
    /\ cyc[c].at = "stats"
    /\ timer' = (timer \/ cyc[c].kind = "timer")
    /\ cyc' = [cyc EXCEPT ![c] = NoCycle]
    /\ UNCHANGED <<platform, started, nudger, statsWait, token, have, pullCursor, feedEnd>>

-----------------------------------------------------------------------------
(* The world                                                               *)

ServerChanges ==
    /\ feedEnd < MaxFeed
    /\ feedEnd' = feedEnd + 1
    /\ UNCHANGED <<platform, timers, token, cyc, have, pullCursor>>

SessionToken ==
    /\ token' = ~token
    /\ UNCHANGED <<platform, timers, cyc, have, pullCursor, feedEnd>>

\* The app is closed: only the store is left.
AppDies ==
    /\ started' = FALSE /\ timer' = FALSE /\ nudger' = FALSE /\ statsWait' = 0
    /\ cyc' = [c \in Cyc |-> NoCycle]
    /\ UNCHANGED <<platform, token, have, pullCursor, feedEnd>>

CycleSteps(c) ==
    \/ ReadCursor(c) \/ PullPage(c) \/ PullNothing(c) \/ SaveCursor(c)
    \/ ResyncAsked(c) \/ Wipe(c) \/ ZeroCursor(c) \/ CycleFails(c) \/ CycleEnds(c)

Wiping(c) == cyc[c].at \in {"wipe", "zero"}
Pulling(c) == cyc[c].at \in {"pull", "save"}
DiesInWipe == \E c \in Cyc : cyc[c].at = "zero" /\ cyc'[c].at = "idle"
Crossing == \E c, d \in Cyc : Wiping(c) /\ Pulling(d)

SchedNext ==
    /\ \/ StartDesktop \/ StartPhone \/ StatsRead \/ StopHandle \/ NudgeHandle
       \/ \E c \in Cyc : \/ TimerFires(c) \/ NudgeFires(c) \/ SyncNow(c) \/ ForceFullResync(c)
                         \/ CycleSteps(c)
       \/ ServerChanges \/ SessionToken \/ AppDies
    /\ crossed' = (crossed \/ DiesInWipe \/ Crossing')

SchedSpec == SchedInit /\ [][SchedNext]_schedVars

-----------------------------------------------------------------------------
(* Properties                                                              *)

\* A started device never stops synchronising: its heartbeat is armed, or a cycle that
\* will arm it is running, whatever nudges, stops and restarts came before
\* (syncStore.ts:106-111, mobile state/sync.ts:110-115).
HeartbeatNeverStops ==
    started => \/ timer
               \/ statsWait > 0
               \/ \E c \in Cyc : cyc[c].kind = "timer" /\ cyc[c].at # "idle"

\* The device shows every change its cursor claims, through resynchronisations, lost
\* answers and deaths of the app (client.ts:416-448), so no change is skipped for ever.
\* The exceptions are a wipe that overlaps another cycle's pull, and the moment between
\* the wipe and the zero cursor on the phone, if the app dies there.
CursorIsHonest ==
    \/ crossed
    \/ \E c \in Cyc : cyc[c].at = "zero"
    \/ 1..pullCursor \subseteq have
=============================================================================
