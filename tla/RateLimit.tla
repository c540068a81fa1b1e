------------------------------- MODULE RateLimit -------------------------------
(***************************************************************************)
(* The fixed-window limiter in front of /chat, /agent and /agent/confirm   *)
(* (api/rate_limit.py).  enforce_rate_limit is a plain def, and FastAPI    *)
(* runs such a dependency in a thread of its pool: checks interleave       *)
(* wherever one reads or writes what another may have changed, and         *)
(* nothing locks _windows.  A check reads the clock, then the window, then *)
(* answers and counts.                                                     *)
(*                                                                         *)
(* Time is counted in ticks, TicksPerSecond of them make a second, so that *)
(* the rounding of Retry-After shows.                                      *)
(***************************************************************************)
EXTENDS Integers, Sequences, FiniteSets

CONSTANTS
    Users,           \* resolved user ids
    Checks,          \* the threads of the pool that may run a check
    Nobody,          \* the user of a thread that runs none
    Limit,           \* rate_limit_requests
    WindowSeconds,   \* rate_limit_window_seconds
    TicksPerSecond,  \* resolution of time.monotonic
    MaxTime,         \* bound: ticks the clock makes
    MaxAdmitted      \* bound: a user with so many admitted requests sends no more

\* A limit of 0 would refuse everybody for ever, a window of 0 nobody.
ASSUME LimitAssumption == Limit \in Nat \ {0}
ASSUME TimeAssumption ==
    WindowSeconds \in Nat \ {0} /\ TicksPerSecond \in Nat \ {0}
ASSUME BoundAssumption == MaxTime \in Nat /\ MaxAdmitted \in Nat
ASSUME NobodyAssumption == Nobody \notin Users

VARIABLES
    now,        \* time.monotonic
    windows,    \* _windows: start and count; a count of 0 is a user not in the dict
    checking,   \* what the threads are at: "idle", or the next thing to do
    caller,     \* the user a thread checks
    clock,      \* the time it read
    window,     \* the window it goes by
    log,        \* history: the requests this process admitted, each with its window
    promises,   \* history: the times at which refused users were told to come back,
                \* as long as nothing of theirs was admitted since
    overlapped  \* history: users two of whose checks were under way at once

threadVars == <<checking, caller, clock, window>>
limiterVars == <<now, windows, threadVars, log, promises, overlapped>>

Window == WindowSeconds * TicksPerSecond
Windows == [start : 0 .. MaxTime, count : 0 .. Limit]
NoWindow == [start |-> 0, count |-> 0]

LimiterTypeOK ==
    /\ now \in 0 .. MaxTime
    /\ windows \in [Users -> Windows]
    /\ checking \in [Checks -> {"idle", "read", "answer"}]
    /\ caller \in [Checks -> Users \union {Nobody}]
    /\ \A k \in Checks : caller[k] = Nobody <=> checking[k] = "idle"
    /\ clock \in [Checks -> 0 .. MaxTime]
    /\ window \in [Checks -> Windows]
    /\ log \in [Users -> Seq([at : 0 .. MaxTime, start : 0 .. MaxTime])]
    /\ promises \in [Users -> SUBSET Nat]
    /\ overlapped \subseteq Users

LimiterInit ==
    /\ now = 0
    /\ windows = [u \in Users |-> NoWindow]
    /\ checking = [k \in Checks |-> "idle"]
    /\ caller = [k \in Checks |-> Nobody]
    /\ clock = [k \in Checks |-> 0]
    /\ window = [k \in Checks |-> NoWindow]
    /\ log = [u \in Users |-> <<>>]
    /\ promises = [u \in Users |-> {}]
    /\ overlapped = {}

--------------------------------------------------------------------------------
\* time.monotonic().
ReadClock(k, u) ==
    /\ checking[k] = "idle" /\ Len(log[u]) < MaxAdmitted
    /\ checking' = [checking EXCEPT ![k] = "read"]
    /\ caller' = [caller EXCEPT ![k] = u]
    /\ clock' = [clock EXCEPT ![k] = now]
    /\ overlapped' = overlapped \union {v \in {u} : \E j \in Checks : caller[j] = v}
    /\ UNCHANGED <<now, windows, window, log, promises>>

Over(k) == windows[caller[k]].count = 0 \/ clock[k] - windows[caller[k]].start >= Window

\* Mutant: a new window begins with the old window's start.
CurrentStale(k) == [windows[caller[k]] EXCEPT !.count = IF Over(k) THEN 0 ELSE @]

\* Mutant: a new window begins with the old window's count.
CurrentUncleared(k) == [windows[caller[k]] EXCEPT !.start = IF Over(k) THEN clock[k] ELSE @]

\* The window the request falls into.
Current(k) == IF Over(k) THEN [start |-> clock[k], count |-> 0] ELSE windows[caller[k]]

\* _windows.get, and what follows from it without another look.
ReadWindow(k) ==
    /\ checking[k] = "read"
    /\ checking' = [checking EXCEPT ![k] = "answer"]
    /\ window' = [window EXCEPT ![k] = Current(k)]
    /\ UNCHANGED <<now, windows, caller, clock, log, promises, overlapped>>

EndCheck(k) ==
    /\ checking' = [checking EXCEPT ![k] = "idle"]
    /\ caller' = [caller EXCEPT ![k] = Nobody]
    /\ clock' = [clock EXCEPT ![k] = 0]
    /\ window' = [window EXCEPT ![k] = NoWindow]

\* The count goes back with one more in it, whatever was counted since it was read.
Admit(k) ==
    /\ checking[k] = "answer" /\ window[k].count < Limit
    /\ windows' = [windows EXCEPT ![caller[k]] = [window[k] EXCEPT !.count = @ + 1]]
    /\ log' = [log EXCEPT ![caller[k]] = Append(@, [at |-> clock[k], start |-> window[k].start])]
    /\ promises' = [promises EXCEPT ![caller[k]] = {}]
    /\ EndCheck(k)
    /\ UNCHANGED <<now, overlapped>>

AboutToRefuse(k) == checking[k] = "answer" /\ window[k].count >= Limit

\* Nothing of the user was counted since the thread read the window.
UpToDate(k) == windows[caller[k]] = window[k]

\* Mutant: the remaining time is rounded down.
RetryAfterRoundedDown(k) == (Window - (clock[k] - window[k].start)) \div TicksPerSecond

\* The seconds in the Retry-After header.
RetryAfter(k) == (Window - (clock[k] - window[k].start)) \div TicksPerSecond + 1

Refuse(k) ==
    /\ AboutToRefuse(k)
    /\ promises' =
          IF UpToDate(k)
            THEN [promises EXCEPT ![caller[k]] = @ \union {clock[k] + TicksPerSecond * RetryAfter(k)}]
            ELSE promises
    /\ EndCheck(k)
    /\ UNCHANGED <<now, windows, log, overlapped>>

Tick ==
    /\ now < MaxTime
    /\ now' = now + 1
    /\ UNCHANGED <<windows, threadVars, log, promises, overlapped>>

\* The windows are in memory; the clients keep what they were told.
LimiterRestart ==
    /\ windows' = [u \in Users |-> NoWindow]
    /\ checking' = [k \in Checks |-> "idle"]
    /\ caller' = [k \in Checks |-> Nobody]
    /\ clock' = [k \in Checks |-> 0]
    /\ window' = [k \in Checks |-> NoWindow]
    /\ log' = [u \in Users |-> <<>>]
    /\ overlapped' = {}
    /\ UNCHANGED <<now, promises>>

LimiterNext ==
    \/ \E k \in Checks, u \in Users : ReadClock(k, u)
    \/ \E k \in Checks : ReadWindow(k) \/ Admit(k) \/ Refuse(k)
    \/ Tick
    \/ LimiterRestart

LimiterSpec == LimiterInit /\ [][LimiterNext]_limiterVars

--------------------------------------------------------------------------------
(***************************************************************************)
(* What a fixed window promises about any stretch of time to a user whose  *)
(* requests come one after the other: a burst before the end of a window   *)
(* and one after it are 2 * Limit requests, and the next one comes more    *)
(* than a window's length after the first of them.  The checks of other    *)
(* users may interleave with theirs as they like (_check_and_increment,    *)
(* "even with multiple concurrent requests from different users").         *)
(***************************************************************************)
BurstBound ==
    \A u \in Users \ overlapped : \A i \in 1 .. Len(log[u]) - 2 * Limit :
        log[u][i + 2 * Limit].at - log[u][i].at > Window

(***************************************************************************)
(* Whoever waits as long as the Retry-After header of a 429 said is not    *)
(* refused again, unless another request of the same user was counted in   *)
(* between, however the user's checks overlap; a restart does not break    *)
(* the promise (enforce_rate_limit).                                       *)
(***************************************************************************)
RetryAfterKept ==
    \A k \in Checks : AboutToRefuse(k) /\ UpToDate(k) =>
        \A p \in promises[caller[k]] : clock[k] < p

(***************************************************************************)
(* Nobody is refused early: a 429 means that Limit requests were admitted  *)
(* in the window it speaks of.  Overlapping checks lose counts, they never *)
(* invent any (_check_and_increment).                                      *)
(***************************************************************************)
AdmittedIn(entries, start) == Cardinality({i \in 1 .. Len(entries) : entries[i].start = start})

RefusedOnlyAtLimit ==
    \A k \in Checks : AboutToRefuse(k) =>
        AdmittedIn(log[caller[k]], window[k].start) >= Limit

(***************************************************************************)
(* What the docstrings promise: a 429 "once rate_limit_requests is         *)
(* exceeded within rate_limit_window_seconds", with no lock because "no    *)
(* other request's coroutine can interleave" (rate_limit.py:26-30, 42-43). *)
(* The code does not keep it: two checks of one user that read the window  *)
(* before either has counted are both admitted by the same count.          *)
(***************************************************************************)
LimitPerWindow ==
    \A u \in Users : \A i \in 1 .. Len(log[u]) :
        AdmittedIn(log[u], log[u][i].start) <= Limit
================================================================================
