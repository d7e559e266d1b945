--------------------------- MODULE TokenLifecycle ---------------------------
(***************************************************************************)
(* client.cpp: how the client gets its two tokens, keeps them fresh, caches*)
(* them in a file, and pauses the streamer while it does.  The code runs   *)
(* first in connect(), on the application's thread, and then in the token  *)
(* checker, the thread of a Timer; never in both at once.                  *)
(*                                                                         *)
(* Time is `now`, in units of the caller's choice.  Only waiting takes     *)
(* time: for the timer, for an HTTP response, for the user.  The streamer  *)
(* is reduced to its state; Streamer.tla has the rest of it.               *)
(***************************************************************************)
EXTENDS Integers

CONSTANTS
    AccessLife,      \* 30 minutes
    AccessMargin,    \* __access_token_update_threshold, 1 minute
    RefreshLife,     \* 7 days
    RefreshMargin,   \* __refresh_token_update_threshold, 1 hour
    Period,          \* of the token checker, 30 seconds
    MaxSync,         \* timeout of syncRequest, 5 seconds
    MaxCall,         \* assumed: longest answer of getTokens, which has no timeout
    MaxTime,         \* bound: end of time
    MaxFailures,     \* bound: failed token requests, cache files not opened
    MaxCrashes       \* bound: times the process is killed

\* What the four durations in the code must satisfy for the margins to suffice.
ASSUME TokenAssumption ==
    /\ {AccessLife, AccessMargin, RefreshLife, RefreshMargin, Period, MaxSync,
        MaxCall, MaxTime, MaxFailures, MaxCrashes} \subseteq Nat
    /\ Period + 2 * MaxSync + 2 * MaxCall <= AccessMargin
    /\ AccessMargin <= AccessLife
    /\ 2 * MaxCall <= RefreshMargin

VARIABLES
    now,
    phase,           \* of the process: see TypeOK
    pc,              \* where connect() or the token checker is
    deadline,        \* when the wait at `pc` ends at the latest
    chances,         \* left to authorize
    mem,             \* m_accessToken, m_refreshToken and their timestamps
    cacheState,      \* the cache file: absent, truncated, or complete ...
    cache,           \* ... and then what it holds
    streamer,        \* m_streamer, and its state
    pausedBy,        \* history: who paused the streamer
    via,             \* history: how the tokens in mem were obtained last
    troubled,        \* history: since then, something failed or was stalled
    unsaved,         \* history: the tokens in mem could not be cached
    failures,
    crashes,
    died             \* why the process died last

vars == <<now, phase, pc, deadline, chances, mem, cacheState, cache, streamer,
          pausedBy, via, troubled, unsaved, failures, crashes, died>>

cacheVars    == <<cacheState, cache>>
streamerVars == <<streamer, pausedBy>>
historyVars  == <<via, troubled, unsaved>>
boundVars    == <<failures, crashes>>

\* Both tokens: the timestamp the client keeps of each, and (history) the moment
\* the server issued it.
Token == [access : Nat, refresh : Nat, accessBorn : Nat, refreshBorn : Nat]
NoToken == [access |-> 0, refresh |-> 0, accessBorn |-> 0, refreshBorn |-> 0]

TypeOK ==
    /\ now \in 0..MaxTime
    /\ phase \in {"off", "connecting", "failed", "running", "stopping", "closing",
                  "closed"}
    /\ pc \in {"none", "load", "check", "pause", "request", "ask", "exchange",
               "truncate", "flush", "resume", "book", "handOn", "wait", "stuck"}
    /\ deadline \in Nat
    /\ chances \in 0..3
    /\ mem \in Token
    /\ cacheState \in {"absent", "truncated", "complete"}
    /\ cache \in Token
    /\ streamer \in {"none", "Inactive", "Active", "Paused"}
    /\ pausedBy \in {"nobody", "user", "daemon"}
    /\ via \in {"nothing", "cache", "update", "oauth"}
    /\ troubled \in BOOLEAN
    /\ unsaved \in BOOLEAN
    /\ failures \in 0..MaxFailures
    /\ crashes \in 0..MaxCrashes
    /\ died \in {"no", "corrupt_cache", "parse_error", "null_streamer"}

Init ==
    /\ now = 0
    /\ phase = "off" /\ pc = "none" /\ deadline = 0 /\ chances = 0
    /\ mem = NoToken
    /\ cacheState = "absent" /\ cache = NoToken
    /\ streamer = "none" /\ pausedBy = "nobody"
    /\ via = "nothing" /\ troubled = FALSE /\ unsaved = FALSE
    /\ failures = 0 /\ crashes = 0
    /\ died = "no"

\* The process ends, and with it all but the file (mem is not read again before
\* it is loaded or written).
Ends(why) ==
    /\ phase' = "off" /\ pc' = "none"
    /\ streamer' = "none" /\ pausedBy' = "nobody"
    /\ died' = why
    /\ UNCHANGED <<now, deadline, chances, mem, cacheVars, historyVars>>

Waits(place, length) == pc' = place /\ deadline' = now + length

-----------------------------------------------------------------------------
(***************************************************************************)
(* connect() and loadTokens                                                *)
(***************************************************************************)
Connect ==
    /\ phase \in {"off", "failed", "closed"}
    /\ phase' = "connecting"
    /\ pc' = "load"
    /\ via' = "nothing" /\ troubled' = FALSE /\ unsaved' = FALSE
    /\ died' = "no"
    /\ UNCHANGED <<now, deadline, chances, mem, cacheVars, streamerVars, boundVars>>

\* An empty file is there and good(), but parsing it throws.
LoadTokens ==
    /\ pc = "load"
    /\ \/ /\ cacheState = "complete"
          /\ mem' = cache
          /\ via' = "cache"
          /\ pc' = "check"
          /\ UNCHANGED <<now, phase, deadline, chances, cacheVars, streamerVars,
                         troubled, unsaved, boundVars, died>>
       \/ /\ cacheState = "absent"
          /\ pc' = "ask"
          /\ chances' = 3
          /\ UNCHANGED <<now, phase, deadline, mem, cacheVars, streamerVars,
                         historyVars, boundVars, died>>
       \/ /\ cacheState = "truncated"
          /\ Ends("corrupt_cache")
          /\ UNCHANGED boundVars

-----------------------------------------------------------------------------
(***************************************************************************)
(* updateTokens                                                            *)
(***************************************************************************)
NeverExpiring  == FALSE                         \* mutant: refresh token not checked
AlreadyExpired == AccessLife - (now - mem.access) < 0       \* mutant: no margin

RefreshExpiring == RefreshLife - (now - mem.refresh) < RefreshMargin
AccessExpiring  == AccessLife - (now - mem.access) < AccessMargin

\* NotRequired: connect() goes on to cache accounts and preferences, the token
\* checker to wait.
NotRequired ==
    IF phase = "connecting" THEN Waits("book", 2 * MaxSync) ELSE Waits("wait", Period)

CheckTokens ==
    /\ pc = "check"
    /\ \/ /\ RefreshExpiring
          /\ pc' = "ask"
          /\ chances' = 3
          /\ troubled' = TRUE
          /\ UNCHANGED deadline
       \/ /\ ~RefreshExpiring
          /\ AccessExpiring
          /\ IF streamer = "Active" THEN pc' = "pause" /\ UNCHANGED deadline
             ELSE Waits("request", MaxCall)
          /\ UNCHANGED <<chances, troubled>>
       \/ /\ ~RefreshExpiring
          /\ ~AccessExpiring
          /\ NotRequired
          /\ UNCHANGED <<chances, troubled>>
    /\ UNCHANGED <<now, phase, mem, cacheVars, streamerVars, via, unsaved, boundVars,
                   died>>

\* Through m_streamer, which was there when it was looked at.
PauseStreamer ==
    /\ pc = "pause"
    /\ streamer # "none"
    /\ Waits("request", MaxCall)
    /\ streamer' = IF streamer = "Active" THEN "Paused" ELSE streamer
    /\ pausedBy' = IF streamer = "Active" THEN "daemon" ELSE pausedBy
    /\ UNCHANGED <<now, phase, chances, mem, cacheVars, historyVars, boundVars, died>>

\* ~Client reset it meanwhile.
StreamerGone ==
    /\ pc \in {"pause", "resume", "handOn"}
    /\ streamer = "none"
    /\ Ends("null_streamer")
    /\ UNCHANGED boundVars

-----------------------------------------------------------------------------
(***************************************************************************)
(* getTokens, and writeTokens up to the end of its critical section.  The  *)
(* timestamps are taken when the answer is parsed, not when it was issued. *)
(***************************************************************************)
\* The refresh token keeps its timestamp ...
UpdatedForgettingAge(born) ==                   \* mutant: ... or looks new
    [access |-> now, refresh |-> now,
     accessBorn |-> born, refreshBorn |-> mem.refreshBorn]

Updated(born) ==
    [access |-> now, refresh |-> mem.refresh,
     accessBorn |-> born, refreshBorn |-> mem.refreshBorn]

\* ... and after an authorization both are new.
Authorized(born) ==
    [access |-> now, refresh |-> now, accessBorn |-> born, refreshBorn |-> born]

GetTokens ==
    \E born \in (deadline - MaxCall)..now :
        /\ born >= 0
        /\ \/ pc = "request" /\ mem' = Updated(born) /\ via' = "update"
           \/ pc = "exchange" /\ mem' = Authorized(born) /\ via' = "oauth"
        /\ pc' = "truncate"
        /\ troubled' = FALSE
        /\ UNCHANGED <<now, phase, deadline, chances, cacheVars, streamerVars,
                       unsaved, boundVars, died>>

\* No answer, or one that is not what was asked for: FailedBadData while updating,
\* another chance while authorizing.
GetTokensFails ==
    /\ failures < MaxFailures
    /\ failures' = failures + 1
    /\ troubled' = TRUE
    /\ \/ /\ pc = "request" /\ phase = "connecting"
          /\ phase' = "failed" /\ pc' = "none"
          /\ UNCHANGED deadline
       \/ /\ pc = "request" /\ phase # "connecting"
          /\ Waits("wait", Period)
          /\ UNCHANGED phase
       \/ /\ pc = "exchange"
          /\ pc' = "ask"
          /\ UNCHANGED <<phase, deadline>>
    /\ UNCHANGED <<now, chances, mem, cacheVars, streamerVars, via, unsaved, crashes,
                   died>>

\* An answer that is not JSON is an exception nobody catches.
AnswerIsNoJson ==
    /\ pc \in {"request", "exchange"}
    /\ failures < MaxFailures
    /\ failures' = failures + 1
    /\ Ends("parse_error")
    /\ UNCHANGED crashes

\* The request has no timeout.
GetTokensStalls ==
    /\ pc \in {"request", "exchange"}
    /\ failures < MaxFailures
    /\ failures' = failures + 1
    /\ pc' = "stuck"
    /\ troubled' = TRUE
    /\ UNCHANGED <<now, phase, deadline, chances, mem, cacheVars, streamerVars, via,
                   unsaved, crashes, died>>

-----------------------------------------------------------------------------
(***************************************************************************)
(* The rest of writeTokens: the file is truncated when it is opened, and   *)
(* complete only when it is closed.  updateTokens then resumes the streamer*)
(* if it is paused, whoever paused it; runOAuth does not.                  *)
(***************************************************************************)
NeverResumes == Waits("book", 2 * MaxSync)      \* mutant: streamer left paused

Cached ==
    IF via = "update" /\ streamer = "Paused" THEN pc' = "resume" /\ UNCHANGED deadline
    ELSE Waits("book", 2 * MaxSync)

OpenCache ==
    /\ pc = "truncate"
    /\ \/ /\ cacheState' = "truncated"
          /\ pc' = "flush"
          /\ unsaved' = FALSE
          /\ UNCHANGED <<deadline, failures>>
       \/ /\ failures < MaxFailures
          /\ failures' = failures + 1
          /\ unsaved' = TRUE
          /\ Cached
          /\ UNCHANGED cacheState
    /\ UNCHANGED <<now, phase, chances, mem, cache, streamerVars, via, troubled,
                   crashes, died>>

FlushStale ==                                   \* mutant: the tokens before
    /\ pc = "flush"
    /\ cacheState' = "complete"
    /\ Cached
    /\ UNCHANGED <<now, phase, chances, mem, cache, streamerVars, historyVars,
                   boundVars, died>>

FlushCache ==
    /\ pc = "flush"
    /\ cacheState' = "complete"
    /\ cache' = mem
    /\ Cached
    /\ UNCHANGED <<now, phase, chances, mem, streamerVars, historyVars, boundVars, died>>

ResumeStreamer ==
    /\ pc = "resume"
    /\ streamer # "none"
    /\ Waits("book", 2 * MaxSync)
    /\ streamer' = IF streamer = "Paused" THEN "Active" ELSE streamer
    /\ pausedBy' = IF streamer = "Paused" THEN "nobody" ELSE pausedBy
    /\ UNCHANGED <<now, phase, chances, mem, cacheVars, historyVars, boundVars, died>>

UpdateInfoOfStreamer ==                         \* mutant: streamer waited for
    /\ pc = "book"
    /\ phase = "connecting" \/ streamer # "none"
    /\ Waits("wait", Period)
    /\ IF phase = "connecting"
       THEN phase' = "running" /\ streamer' = "Inactive" /\ pausedBy' = "nobody"
       ELSE UNCHANGED <<phase, streamerVars>>
    /\ UNCHANGED <<now, chances, mem, cacheVars, historyVars, boundVars, died>>

\* updateLinkedAccounts, updateUserPreference.  connect() then starts the timer and
\* creates the streamer; the token checker looks whether there is one ...
UpdateInfo ==
    /\ pc = "book"
    /\ IF phase = "connecting"
       THEN /\ phase' = "running" /\ streamer' = "Inactive" /\ pausedBy' = "nobody"
            /\ Waits("wait", Period)
       ELSE /\ IF streamer = "none" THEN Waits("wait", Period)
               ELSE pc' = "handOn" /\ UNCHANGED deadline
            /\ UNCHANGED <<phase, streamerVars>>
    /\ UNCHANGED <<now, chances, mem, cacheVars, historyVars, boundVars, died>>

\* ... and hands on what it got.
HandOn ==
    /\ pc = "handOn"
    /\ streamer # "none"
    /\ Waits("wait", Period)
    /\ UNCHANGED <<now, phase, chances, mem, cacheVars, streamerVars, historyVars,
                   boundVars, died>>

-----------------------------------------------------------------------------
(***************************************************************************)
(* runOAuth: three chances, each as long as the user takes.                *)
(***************************************************************************)
AskAgain ==                                     \* mutant: chances not looked at
    /\ pc = "ask"
    /\ chances' = chances - 1
    /\ Waits("exchange", MaxCall)
    /\ UNCHANGED <<now, phase, mem, cacheVars, streamerVars, historyVars, boundVars,
                   died>>

AskUser ==
    /\ pc = "ask"
    /\ chances > 0
    /\ chances' = chances - 1
    /\ Waits("exchange", MaxCall)
    /\ UNCHANGED <<now, phase, mem, cacheVars, streamerVars, historyVars, boundVars,
                   died>>

NoMoreChances ==
    /\ pc = "ask"
    /\ chances = 0
    /\ IF phase = "connecting"
       THEN phase' = "failed" /\ pc' = "none" /\ UNCHANGED deadline
       ELSE Waits("wait", Period) /\ UNCHANGED phase
    /\ troubled' = TRUE
    /\ UNCHANGED <<now, chances, mem, cacheVars, streamerVars, via, unsaved, boundVars,
                   died>>

-----------------------------------------------------------------------------
(***************************************************************************)
(* The timer, ~Client, the streamer and the user                           *)
(***************************************************************************)
TimerFires ==
    /\ pc = "wait"
    /\ now >= deadline
    /\ pc' = "check"
    /\ UNCHANGED <<now, phase, deadline, chances, mem, cacheVars, streamerVars,
                   historyVars, boundVars, died>>

\* m_streamer.reset(): the pointer is null at once, then ~Streamer runs ...
ResetStreamer ==
    /\ phase = "running"
    /\ phase' = "stopping"
    /\ streamer' = "none" /\ pausedBy' = "nobody"
    /\ UNCHANGED <<now, pc, deadline, chances, mem, cacheVars, historyVars, boundVars,
                   died>>

\* ... which takes its time, or for ever (Streamer.tla, StopReturns).
StreamerDestroyed ==
    /\ phase = "stopping"
    /\ phase' = "closing"
    /\ UNCHANGED <<now, pc, deadline, chances, mem, cacheVars, streamerVars,
                   historyVars, boundVars, died>>

\* Timer::stop needs the mutex that the timer's thread holds all the while the
\* callback runs.
StopTimer ==
    /\ phase = "closing"
    /\ pc = "wait"
    /\ phase' = "closed" /\ pc' = "none"
    /\ UNCHANGED <<now, deadline, chances, mem, cacheVars, streamerVars, historyVars,
                   boundVars, died>>

\* The state of the streamer changes by itself, or the user changes it.
StreamerBecomes(from, to, by) ==
    /\ phase = "running"
    /\ streamer \in from
    /\ streamer' = to
    /\ pausedBy' = by
    /\ UNCHANGED <<now, phase, pc, deadline, chances, mem, cacheVars, historyVars,
                   boundVars, died>>

LogsIn      == StreamerBecomes({"Inactive"}, "Active", "nobody")
Disconnects == StreamerBecomes({"Active", "Paused"}, "Inactive", "nobody")
UserPauses  == StreamerBecomes({"Active"}, "Paused", "user")
UserResumes == StreamerBecomes({"Paused"}, "Active", "nobody")

Kill ==
    /\ phase # "off"
    /\ crashes < MaxCrashes
    /\ crashes' = crashes + 1
    /\ Ends("no")
    /\ UNCHANGED failures

Tick ==
    /\ now < MaxTime
    /\ pc \in {"none", "ask", "stuck", "wait", "request", "exchange", "book"}
    /\ pc \in {"wait", "request", "exchange", "book"} => now < deadline
    /\ ~(phase = "closing" /\ pc = "wait")
    /\ now' = now + 1
    /\ UNCHANGED <<phase, pc, deadline, chances, mem, cacheVars, streamerVars,
                   historyVars, boundVars, died>>

-----------------------------------------------------------------------------
TokenStep ==
    \/ LoadTokens \/ CheckTokens \/ PauseStreamer \/ StreamerGone
    \/ GetTokens \/ GetTokensFails \/ AnswerIsNoJson \/ GetTokensStalls
    \/ OpenCache \/ FlushCache \/ ResumeStreamer \/ UpdateInfo \/ HandOn
    \/ NoMoreChances

StreamerStep == LogsIn \/ Disconnects \/ UserPauses \/ UserResumes

Next ==
    \/ TokenStep \/ AskUser \/ TimerFires \/ StreamerStep
    \/ Connect \/ ResetStreamer \/ StreamerDestroyed \/ StopTimer \/ Kill
    \/ Tick

Spec == Init /\ [][Next]_vars

\* Everything but the user's answer, the calls of the application and the end of
\* ~Streamer.
FairSpec == Spec /\ WF_vars(TokenStep) /\ WF_vars(StopTimer)

-----------------------------------------------------------------------------
(***************************************************************************)
(* Properties                                                              *)
(***************************************************************************)
Honest(t) ==
    /\ t.accessBorn <= t.access /\ t.access <= t.accessBorn + MaxCall
    /\ t.refreshBorn <= t.refresh /\ t.refresh <= t.refreshBorn + MaxCall

\* However often the access token is updated, the process killed and the tokens
\* loaded from the file, each timestamp is off by one answer's delay at most.
TimestampsHonest == Honest(mem) /\ Honest(cache)

\* The access token in use never expires while the refresh token lasts and the
\* server answers: one minute covers the timer's period, connect()'s own requests
\* and two token requests.
AccessAlwaysValid ==
    phase \in {"running", "stopping", "closing"} /\ ~troubled =>
        now <= mem.accessBorn + AccessLife

\* No update is attempted with a refresh token that the server no longer knows,
\* even across restarts.
RefreshUsedAlive == pc = "request" => now <= mem.refreshBorn + RefreshLife

\* Between two checks the file holds the tokens in use, unless it could not be
\* opened: a restart goes on where the process was killed.
CacheFollowsMemory == pc = "wait" /\ ~unsaved => cacheState = "complete" /\ cache = mem

\* An update that succeeded does not leave the streamer as updateTokens paused it.
ResumedAfterUpdate ==
    pc \in {"book", "handOn", "wait"} /\ via = "update" /\ ~troubled => pausedBy # "daemon"

\* ~Client returns, unless ~Streamer does not, or the token checker waits for ever for
\* the user or for an answer; or the process ends first ("off"), killed, or because the
\* checker uses the streamer that was reset or cannot parse an answer.
Returned == phase \in {"closed", "off"}
CloseReturns ==
    phase = "stopping" ~>
        Returned \/ [](phase = "stopping") \/ [](pc \in {"ask", "stuck"})

-----------------------------------------------------------------------------
(***************************************************************************)
(* What the comments say and the code does not do (violation runs).        *)
(***************************************************************************)
\* "Token cache corrupted, please reauthorize" (loadTokens): it does not end the
\* process.
CorruptCacheReauthorizes == died # "corrupt_cache"
=============================================================================
