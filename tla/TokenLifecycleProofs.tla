------------------------ MODULE TokenLifecycleProofs ------------------------
(***************************************************************************)
(* What TokenLifecycle.tla promises for all lifetimes, margins, periods and*)
(* timeouts that satisfy TokenAssumption, and any number of failures and   *)
(* crashes.                                                                *)
(***************************************************************************)
EXTENDS TokenLifecycle, TLAPS

\* The constants are numbers.
LEMMA ConstantsAreNat ==
    /\ AccessLife \in Nat /\ AccessMargin \in Nat
    /\ RefreshLife \in Nat /\ RefreshMargin \in Nat
    /\ Period \in Nat /\ MaxSync \in Nat /\ MaxCall \in Nat
    /\ MaxTime \in Nat /\ MaxFailures \in Nat /\ MaxCrashes \in Nat
  BY TokenAssumption

-----------------------------------------------------------------------------
(***************************************************************************)
(* Type correctness is inductive as it stands.                             *)
(***************************************************************************)
\* Every step preserves the types.
LEMMA TypeInductive == TypeOK /\ [Next]_vars => TypeOK'
<1> SUFFICES ASSUME TypeOK, [Next]_vars PROVE TypeOK'
  OBVIOUS
<1> USE TokenAssumption DEF TypeOK, cacheVars, streamerVars, historyVars, boundVars
<1>1. CASE UNCHANGED vars
  BY <1>1 DEF vars
<1>2. CASE Connect
  BY <1>2 DEF Connect
<1>3. CASE LoadTokens
  BY <1>3 DEF LoadTokens, Ends
<1>4. CASE CheckTokens
  <2>1. troubled' \in BOOLEAN
    BY <1>4, Zenon DEF CheckTokens
  <2>2. deadline' \in Nat /\ chances' \in 0..3
    BY <1>4 DEF CheckTokens, NotRequired, Waits
  <2>3. pc' \in {"ask", "pause", "request", "book", "wait"}
    BY <1>4 DEF CheckTokens, NotRequired, Waits
  <2> QED
    BY <1>4, <2>1, <2>2, <2>3 DEF CheckTokens
<1>5. CASE PauseStreamer \/ ResumeStreamer
  BY <1>5 DEF PauseStreamer, ResumeStreamer, Waits
<1>6. CASE StreamerGone
  BY <1>6 DEF StreamerGone, Ends
<1>7. CASE GetTokens
  <2>1. PICK born \in (deadline - MaxCall)..now :
           /\ born >= 0
           /\ mem' = Updated(born) \/ mem' = Authorized(born)
    BY <1>7 DEF GetTokens
  <2>2. born \in Nat
    BY <2>1
  <2>3. mem' \in Token
    BY <2>1, <2>2 DEF Token, Updated, Authorized
  <2> QED
    BY <1>7, <2>3 DEF GetTokens
<1>8. CASE GetTokensFails
  BY <1>8 DEF GetTokensFails, Waits
<1>9. CASE AnswerIsNoJson
  BY <1>9 DEF AnswerIsNoJson, Ends
<1>10. CASE GetTokensStalls
  BY <1>10 DEF GetTokensStalls
<1>11. CASE OpenCache
  <2>1. deadline' \in Nat /\ pc' \in {"flush", "resume", "book"}
    BY <1>11 DEF OpenCache, Cached, Waits
  <2>2. failures' \in 0..MaxFailures
    BY <1>11 DEF OpenCache
  <2>3. unsaved' \in BOOLEAN
    BY <1>11, Zenon DEF OpenCache
  <2>4. cacheState' \in {"absent", "truncated", "complete"}
    BY <1>11 DEF OpenCache
  <2> QED
    BY <1>11, <2>1, <2>2, <2>3, <2>4 DEF OpenCache
<1>12. CASE FlushCache
  BY <1>12 DEF FlushCache, Cached, Waits
<1>13. CASE UpdateInfo \/ HandOn
  <2>1. CASE UpdateInfo
    BY <2>1 DEF UpdateInfo, Waits
  <2>2. CASE HandOn
    BY <2>2 DEF HandOn, Waits
  <2> QED
    BY <1>13, <2>1, <2>2
<1>14. CASE AskUser \/ NoMoreChances
  <2>1. CASE AskUser
    BY <2>1 DEF AskUser, Waits
  <2>2. CASE NoMoreChances
    BY <2>2 DEF NoMoreChances, Waits
  <2> QED
    BY <1>14, <2>1, <2>2
<1>15. CASE TimerFires \/ ResetStreamer \/ StreamerDestroyed \/ StopTimer
  BY <1>15 DEF TimerFires, ResetStreamer, StreamerDestroyed, StopTimer
<1>16. CASE StreamerStep
  BY <1>16 DEF StreamerStep, LogsIn, Disconnects, UserPauses, UserResumes,
               StreamerBecomes
<1>17. CASE Kill
  BY <1>17 DEF Kill, Ends
<1>18. CASE Tick
  BY <1>18 DEF Tick
<1> QED
  BY <1>1, <1>2, <1>3, <1>4, <1>5, <1>6, <1>7, <1>8, <1>9, <1>10, <1>11, <1>12,
     <1>13, <1>14, <1>15, <1>16, <1>17, <1>18 DEF Next, TokenStep

\* Every variable always has its type.
THEOREM TokenTypeCorrect == Spec => []TypeOK
<1>1. Init => TypeOK
  <2>1. NoToken \in Token
    BY DEF NoToken, Token
  <2>2. Init => troubled \in BOOLEAN /\ unsaved \in BOOLEAN
    BY Zenon DEF Init
  <2>3. Init => mem \in Token /\ cache \in Token
    BY <2>1 DEF Init
  <2> QED
    BY <2>2, <2>3, TokenAssumption DEF Init, TypeOK
<1> QED
  BY <1>1, TypeInductive, PTL DEF Spec

-----------------------------------------------------------------------------
(***************************************************************************)
(* The timestamps.  They are honest because no answer is waited for longer *)
(* than MaxCall: the second conjunct is what a step has to keep.           *)
(***************************************************************************)
Punctual == pc \in {"request", "exchange", "book", "handOn", "wait"} => now <= deadline

HonestInv == TimestampsHonest /\ Punctual

\* The fields of the tokens are numbers.
LEMMA TokenFields ==
    ASSUME NEW t \in Token
    PROVE  /\ t.access \in Nat /\ t.refresh \in Nat
           /\ t.accessBorn \in Nat /\ t.refreshBorn \in Nat
  BY DEF Token

\* Every step keeps the timestamps honest and the waits in time.
LEMMA HonestInductive == TypeOK /\ HonestInv /\ [Next]_vars => HonestInv'
<1> SUFFICES ASSUME TypeOK, HonestInv, [Next]_vars PROVE HonestInv'
  OBVIOUS
<1>1. /\ now \in Nat /\ deadline \in Nat /\ mem \in Token /\ cache \in Token
      /\ MaxCall \in Nat /\ MaxSync \in Nat /\ Period \in Nat
  BY TokenAssumption DEF TypeOK
<1>2. Honest(mem) /\ Honest(cache) /\ Punctual
  BY DEF HonestInv, TimestampsHonest
<1>3. SUFFICES Honest(mem') /\ Honest(cache') /\ Punctual'
  BY DEF HonestInv, TimestampsHonest, Honest
<1> USE DEF cacheVars, streamerVars, historyVars, boundVars, Waits
<1>4. CASE UNCHANGED vars
  BY <1>2, <1>4 DEF vars, Punctual
<1>5. CASE Connect \/ LoadTokens
  BY <1>2, <1>5 DEF Connect, LoadTokens, Ends, Punctual
<1>6. CASE CheckTokens
  BY <1>1, <1>2, <1>6 DEF CheckTokens, NotRequired, Punctual
<1>7. CASE PauseStreamer \/ ResumeStreamer
  BY <1>1, <1>2, <1>7 DEF PauseStreamer, ResumeStreamer, Punctual
<1>8. CASE GetTokens
  <2>1. now <= deadline
    BY <1>2, <1>8 DEF GetTokens, Punctual
  <2>2. PICK born \in (deadline - MaxCall)..now :
           /\ born >= 0
           /\ mem' = Updated(born) \/ mem' = Authorized(born)
    BY <1>8 DEF GetTokens
  <2>3. born <= now /\ now <= born + MaxCall /\ born \in Int
    BY <1>1, <2>1, <2>2
  <2>4. Honest(Updated(born))
    BY <1>2, <2>3 DEF Honest, Updated
  <2>5. Honest(Authorized(born))
    BY <2>3 DEF Honest, Authorized
  <2>6. Honest(mem')
    BY <2>2, <2>4, <2>5
  <2> QED
    BY <1>2, <1>8, <2>6 DEF GetTokens, Punctual
<1>9. CASE GetTokensFails
  BY <1>1, <1>2, <1>9 DEF GetTokensFails, Punctual
<1>10. CASE StreamerGone \/ AnswerIsNoJson \/ Kill
  BY <1>2, <1>10 DEF StreamerGone, AnswerIsNoJson, Kill, Ends, Punctual
<1>11. CASE GetTokensStalls
  BY <1>2, <1>11 DEF GetTokensStalls, Punctual
<1>12. CASE OpenCache
  BY <1>1, <1>2, <1>12 DEF OpenCache, Cached, Punctual
<1>13. CASE FlushCache
  BY <1>1, <1>2, <1>13 DEF FlushCache, Cached, Punctual
<1>14. CASE UpdateInfo \/ HandOn
  BY <1>1, <1>2, <1>14 DEF UpdateInfo, HandOn, Punctual
<1>15. CASE AskUser
  BY <1>1, <1>2, <1>15 DEF AskUser, Punctual
<1>16. CASE NoMoreChances
  BY <1>1, <1>2, <1>16 DEF NoMoreChances, Punctual
<1>17. CASE TimerFires \/ ResetStreamer \/ StreamerDestroyed \/ StopTimer
  BY <1>2, <1>17 DEF TimerFires, ResetStreamer, StreamerDestroyed, StopTimer, Punctual
<1>18. CASE StreamerStep
  BY <1>2, <1>18 DEF StreamerStep, LogsIn, Disconnects, UserPauses, UserResumes,
                     StreamerBecomes, Punctual
<1>19. CASE Tick
  BY <1>1, <1>2, <1>19 DEF Tick, Punctual
<1> QED
  BY <1>4, <1>5, <1>6, <1>7, <1>8, <1>9, <1>10, <1>11, <1>12, <1>13, <1>14, <1>15,
     <1>16, <1>17, <1>18, <1>19 DEF Next, TokenStep

\* So they are honest in every state of every behaviour.
LEMMA HonestAlways == Spec => [](TypeOK /\ HonestInv)
<1>1. Init => HonestInv
  <2>1. Honest(NoToken)
    BY TokenAssumption DEF Honest, NoToken
  <2> QED
    BY <2>1 DEF Init, HonestInv, TimestampsHonest, Punctual
<1> QED
  BY <1>1, HonestInductive, TokenTypeCorrect, PTL DEF Spec

\* Through any number of updates, crashes and reloads, the client's idea of how
\* old its tokens are is off by one answer's delay at most.
THEOREM TimestampsStayHonest == Spec => []TimestampsHonest
  BY HonestAlways, PTL DEF HonestInv

-----------------------------------------------------------------------------
(***************************************************************************)
(* The refresh token.  Where updateTokens is between its test and the end  *)
(* of the request, the token still lives as long as that can take.         *)
(***************************************************************************)
RefreshInv ==
    /\ pc = "pause" => now + MaxCall <= mem.refreshBorn + RefreshLife
    /\ pc = "request" => deadline <= mem.refreshBorn + RefreshLife

\* What the test of the refresh token's age tells of its true age.
LEMMA RefreshTestSuffices ==
    ASSUME TypeOK, HonestInv, ~RefreshExpiring
    PROVE  now + MaxCall <= mem.refreshBorn + RefreshLife
<1>1. /\ mem.refresh \in Nat /\ mem.refreshBorn \in Nat /\ now \in Nat
      /\ RefreshLife \in Nat /\ RefreshMargin \in Nat /\ MaxCall \in Nat
      /\ 2 * MaxCall <= RefreshMargin
  BY TokenFields, TokenAssumption DEF TypeOK
<1>2. mem.refresh <= mem.refreshBorn + MaxCall
  BY DEF HonestInv, TimestampsHonest, Honest
<1> QED
  BY <1>1, <1>2 DEF RefreshExpiring

\* Every step keeps it alive long enough.
LEMMA RefreshInductive ==
    TypeOK /\ HonestInv /\ RefreshInv /\ [Next]_vars => RefreshInv'
<1> SUFFICES ASSUME TypeOK, HonestInv, RefreshInv, [Next]_vars PROVE RefreshInv'
  OBVIOUS
<1> USE DEF RefreshInv, cacheVars, streamerVars, historyVars, boundVars, Waits
<1>1. CASE UNCHANGED vars
  BY <1>1 DEF vars
<1>2. CASE CheckTokens
  <2>1. CASE RefreshExpiring \/ ~AccessExpiring
    BY <1>2, <2>1 DEF CheckTokens, NotRequired
  <2>2. CASE ~RefreshExpiring
    <3>1. now + MaxCall <= mem.refreshBorn + RefreshLife
      BY <2>2, RefreshTestSuffices
    <3> QED
      BY <1>2, <3>1 DEF CheckTokens, NotRequired
  <2> QED
    BY <2>1, <2>2
<1>3. CASE PauseStreamer
  BY <1>3 DEF PauseStreamer
<1>4. CASE Tick
  BY <1>4 DEF Tick
<1>5. CASE StreamerStep
  BY <1>5 DEF StreamerStep, LogsIn, Disconnects, UserPauses, UserResumes,
              StreamerBecomes
<1>6. CASE ResetStreamer \/ StreamerDestroyed
  BY <1>6 DEF ResetStreamer, StreamerDestroyed
<1>7. CASE \/ Connect \/ LoadTokens \/ StreamerGone \/ GetTokens \/ GetTokensFails
           \/ AnswerIsNoJson \/ GetTokensStalls \/ OpenCache \/ FlushCache
           \/ ResumeStreamer \/ UpdateInfo \/ HandOn \/ AskUser \/ NoMoreChances
           \/ TimerFires \/ StopTimer \/ Kill
  <2>1. pc' \notin {"pause", "request"}
    BY <1>7 DEF Connect, LoadTokens, StreamerGone, GetTokens, GetTokensFails,
       AnswerIsNoJson, GetTokensStalls, OpenCache, FlushCache, ResumeStreamer,
       UpdateInfo, HandOn, AskUser, NoMoreChances, TimerFires, StopTimer, Kill, Ends,
       Cached
  <2> QED
    BY <2>1
<1> QED
  BY <1>1, <1>2, <1>3, <1>4, <1>5, <1>6, <1>7 DEF Next, TokenStep

\* updateTokens never asks for an access token with a refresh token that has
\* expired, whatever was loaded from the file and however late it was checked.
THEOREM RefreshTokenAlive == Spec => []RefreshUsedAlive
<1>1. Init => RefreshInv
  BY DEF Init, RefreshInv
<1>2. TypeOK /\ HonestInv /\ RefreshInv => RefreshUsedAlive
  <2> SUFFICES ASSUME TypeOK, HonestInv, RefreshInv, pc = "request"
               PROVE  now <= mem.refreshBorn + RefreshLife
    BY DEF RefreshUsedAlive
  <2>1. /\ now \in Nat /\ deadline \in Nat /\ mem.refreshBorn \in Nat
        /\ RefreshLife \in Nat
    BY TokenFields, TokenAssumption DEF TypeOK
  <2>2. now <= deadline /\ deadline <= mem.refreshBorn + RefreshLife
    BY DEF HonestInv, Punctual, RefreshInv
  <2> QED
    BY <2>1, <2>2
<1> QED
  BY <1>1, <1>2, RefreshInductive, HonestAlways, PTL DEF Spec

-----------------------------------------------------------------------------
(***************************************************************************)
(* The access token.  Between two checks it must outlive the next check and*)
(* the request that follows; after a write and before the first check, also*)
(* connect()'s own requests.                                               *)
(***************************************************************************)
Expiry == mem.accessBorn + AccessLife
InUse  == phase \in {"running", "stopping", "closing"}

AccessInv ==
    /\ InUse => pc \notin {"none", "load"}
    /\ InUse /\ pc \in {"ask", "exchange", "stuck"} => troubled
    /\ InUse /\ ~troubled =>
          /\ pc = "wait" => deadline + MaxCall <= Expiry
          /\ pc \in {"check", "pause"} => now + MaxCall <= Expiry
          /\ pc = "request" => deadline <= Expiry
    /\ pc \in {"truncate", "flush", "resume"} => now = mem.access
    /\ pc \in {"book", "handOn"} /\ ~troubled => deadline + Period + MaxCall <= Expiry

\* The assumption, and what the timestamps are, as numbers.
LEMMA AccessNumbers ==
    ASSUME TypeOK, HonestInv
    PROVE  /\ now \in Nat /\ deadline \in Nat
           /\ mem.access \in Nat /\ mem.accessBorn \in Nat
           /\ AccessLife \in Nat /\ AccessMargin \in Nat
           /\ Period \in Nat /\ MaxSync \in Nat /\ MaxCall \in Nat
           /\ Period + 2 * MaxSync + 2 * MaxCall <= AccessMargin
           /\ AccessMargin <= AccessLife
           /\ mem.access <= mem.accessBorn + MaxCall
<1>1. mem.access <= mem.accessBorn + MaxCall
  BY DEF HonestInv, TimestampsHonest, Honest
<1> QED
  BY <1>1, TokenFields, TokenAssumption DEF TypeOK

\* A token just written, or one that passed the test, outlives what follows.
LEMMA AccessTestSuffices ==
    ASSUME TypeOK, HonestInv
    PROVE  /\ ~AccessExpiring =>
                 /\ now + Period + MaxCall <= Expiry
                 /\ now + 2 * MaxSync + Period + MaxCall <= Expiry
           /\ now = mem.access => now + 2 * MaxSync + Period + MaxCall <= Expiry
  BY AccessNumbers DEF AccessExpiring, Expiry

\* Every step leaves it long enough to live.
LEMMA AccessInductive ==
    TypeOK /\ HonestInv /\ AccessInv /\ [Next]_vars => AccessInv'
<1> SUFFICES ASSUME TypeOK, HonestInv, AccessInv, [Next]_vars PROVE AccessInv'
  OBVIOUS
<1>0. /\ now \in Nat /\ deadline \in Nat /\ Expiry \in Nat
      /\ Period \in Nat /\ MaxSync \in Nat /\ MaxCall \in Nat
  BY AccessNumbers DEF Expiry
<1>1. Punctual
  BY DEF HonestInv
<1>2. mem' = mem => Expiry' = Expiry /\ mem'.access = mem.access
  BY DEF Expiry
<1> USE DEF AccessInv, InUse, cacheVars, streamerVars, historyVars, boundVars, Waits
<1>3. CASE UNCHANGED vars
  BY <1>2, <1>3 DEF vars
<1>4. CASE Connect \/ LoadTokens
  BY <1>4 DEF Connect, LoadTokens, Ends
<1>5. CASE CheckTokens
  <2>1. mem' = mem /\ phase' = phase /\ now' = now /\ pc = "check"
    BY <1>5 DEF CheckTokens
  <2>2. CASE RefreshExpiring /\ pc' = "ask" /\ troubled'
    BY <2>1, <2>2
  <2>3. CASE troubled' = troubled /\ pc' = "pause"
    BY <1>2, <2>1, <2>3
  <2>4. CASE troubled' = troubled /\ pc' = "request" /\ deadline' = now + MaxCall
    BY <1>0, <1>2, <2>1, <2>4
  <2>5. CASE troubled' = troubled /\ ~AccessExpiring /\ NotRequired
    <3>1. /\ now + Period + MaxCall <= Expiry
          /\ now + 2 * MaxSync + Period + MaxCall <= Expiry
      BY <2>5, AccessTestSuffices
    <3>2. CASE phase = "connecting"
      BY <1>0, <1>2, <2>1, <2>5, <3>1, <3>2 DEF NotRequired
    <3>3. CASE phase # "connecting"
      BY <1>0, <1>2, <2>1, <2>5, <3>1, <3>3 DEF NotRequired
    <3> QED
      BY <3>2, <3>3
  <2> QED
    BY <1>5, <2>2, <2>3, <2>4, <2>5 DEF CheckTokens
<1>6. CASE PauseStreamer
  BY <1>0, <1>2, <1>6 DEF PauseStreamer
<1>7. CASE StreamerGone \/ AnswerIsNoJson \/ Kill
  BY <1>7 DEF StreamerGone, AnswerIsNoJson, Kill, Ends
<1>8. CASE GetTokens
  <2>1. pc' = "truncate" /\ now' = now /\ mem'.access = now
    BY <1>8 DEF GetTokens, Updated, Authorized
  <2> QED
    BY <2>1
<1>9. CASE GetTokensFails \/ GetTokensStalls
  BY <1>9 DEF GetTokensFails, GetTokensStalls
<1>10. CASE OpenCache \/ FlushCache
  <2>1. /\ mem' = mem /\ now' = now /\ troubled' = troubled /\ now = mem.access
        /\ pc' \in {"flush", "resume", "book"}
        /\ pc' = "book" => deadline' = now + 2 * MaxSync
    BY <1>10 DEF OpenCache, FlushCache, Cached
  <2>2. now + 2 * MaxSync + Period + MaxCall <= Expiry
    BY <2>1, AccessTestSuffices
  <2> QED
    BY <1>0, <1>2, <2>1, <2>2
<1>11. CASE ResumeStreamer
  <2>1. /\ mem' = mem /\ troubled' = troubled /\ now = mem.access
        /\ pc' = "book" /\ deadline' = now + 2 * MaxSync
    BY <1>11 DEF ResumeStreamer
  <2>2. now + 2 * MaxSync + Period + MaxCall <= Expiry
    BY <2>1, AccessTestSuffices
  <2> QED
    BY <1>0, <1>2, <2>1, <2>2
<1>12. CASE UpdateInfo \/ HandOn
  <2>1. /\ mem' = mem /\ troubled' = troubled /\ pc \in {"book", "handOn"}
        /\ \/ pc' = "wait" /\ deadline' = now + Period
           \/ pc' = "handOn" /\ deadline' = deadline
    BY <1>12 DEF UpdateInfo, HandOn
  <2>2. now <= deadline
    BY <1>1, <2>1 DEF Punctual
  <2>3. ~troubled => now + Period + MaxCall <= Expiry
    BY <1>0, <2>1, <2>2
  <2> QED
    BY <1>2, <2>1, <2>3
<1>13. CASE AskUser \/ NoMoreChances
  BY <1>13 DEF AskUser, NoMoreChances
<1>14. CASE TimerFires
  <2>1. now <= deadline /\ now' = now /\ mem' = mem /\ pc = "wait"
    BY <1>1, <1>14 DEF TimerFires, Punctual
  <2> QED
    BY <1>0, <1>2, <1>14, <2>1 DEF TimerFires
<1>15. CASE ResetStreamer \/ StreamerDestroyed \/ StopTimer
  BY <1>2, <1>15 DEF ResetStreamer, StreamerDestroyed, StopTimer
<1>16. CASE StreamerStep
  BY <1>2, <1>16 DEF StreamerStep, LogsIn, Disconnects, UserPauses, UserResumes,
                     StreamerBecomes
<1>17. CASE Tick
  BY <1>2, <1>17 DEF Tick
<1> QED
  BY <1>3, <1>4, <1>5, <1>6, <1>7, <1>8, <1>9, <1>10, <1>11, <1>12, <1>13, <1>14,
     <1>15, <1>16, <1>17 DEF Next, TokenStep

\* While the server answers and the refresh token lasts, the access token that a
\* streamer or a request uses has not expired.
THEOREM AccessTokenValid == Spec => []AccessAlwaysValid
<1>1. Init => AccessInv
  BY DEF Init, AccessInv, InUse
<1>2. TypeOK /\ HonestInv /\ AccessInv => AccessAlwaysValid
  <2> SUFFICES ASSUME TypeOK, HonestInv, AccessInv, InUse, ~troubled
               PROVE  now <= Expiry
    BY DEF AccessAlwaysValid, InUse, Expiry
  <2>1. Expiry \in Nat
    BY AccessNumbers DEF Expiry
  <2>2. CASE pc \in {"wait", "request", "book", "handOn"}
    <3>1. now <= deadline
      BY <2>2 DEF HonestInv, Punctual
    <3> QED
      BY <2>1, <2>2, <3>1, AccessNumbers DEF AccessInv
  <2>3. CASE pc \in {"check", "pause"}
    BY <2>1, <2>3, AccessNumbers DEF AccessInv
  <2>4. CASE pc \in {"truncate", "flush", "resume"}
    BY <2>1, <2>4, AccessNumbers, AccessTestSuffices DEF AccessInv
  <2> QED
    BY <2>2, <2>3, <2>4 DEF AccessInv, TypeOK
<1> QED
  BY <1>1, <1>2, AccessInductive, HonestAlways, PTL DEF Spec

-----------------------------------------------------------------------------
(***************************************************************************)
(* The cache file.  It holds the tokens in use wherever the token checker  *)
(* may end its round from, and while a started client asks the user.       *)
(***************************************************************************)
Synced == ~unsaved => cacheState = "complete" /\ cache = mem

CacheInv ==
    /\ pc = "load" => phase = "connecting"
    /\ pc \in {"check", "pause", "request", "resume", "book", "handOn", "wait"} => Synced
    /\ pc \in {"ask", "exchange"} /\ phase # "connecting" => Synced

\* Every step that ends outside getTokens and writeTokens leaves file and memory
\* the same, or notes that the file could not be opened.
LEMMA CacheInductive == CacheInv /\ [Next]_vars => CacheInv'
<1> SUFFICES ASSUME CacheInv, [Next]_vars PROVE CacheInv'
  OBVIOUS
<1> USE DEF CacheInv, Synced, cacheVars, streamerVars, historyVars, boundVars, Waits
<1>1. CASE UNCHANGED vars
  BY <1>1 DEF vars
<1>2. CASE Connect
  BY <1>2 DEF Connect
<1>3. CASE LoadTokens
  <2>1. CASE pc' = "check" /\ mem' = cache /\ UNCHANGED cacheVars /\ cacheState = "complete"
    BY <1>3, <2>1 DEF LoadTokens
  <2>2. CASE pc' = "ask" /\ phase' = phase
    BY <1>3, <2>2 DEF LoadTokens
  <2>3. CASE pc' = "none"
    BY <2>3
  <2> QED
    BY <1>3, <2>1, <2>2, <2>3 DEF LoadTokens, Ends
<1>4. CASE CheckTokens
  BY <1>4 DEF CheckTokens, NotRequired
<1>5. CASE PauseStreamer \/ ResumeStreamer
  BY <1>5 DEF PauseStreamer, ResumeStreamer
<1>6. CASE StreamerGone \/ AnswerIsNoJson \/ Kill
  BY <1>6 DEF StreamerGone, AnswerIsNoJson, Kill, Ends
<1>7. CASE GetTokens \/ GetTokensStalls
  BY <1>7 DEF GetTokens, GetTokensStalls
<1>8. CASE GetTokensFails
  BY <1>8 DEF GetTokensFails
<1>9. CASE OpenCache
  <2>1. CASE pc' = "flush"
    BY <2>1
  <2>2. CASE unsaved' = TRUE
    BY <1>9, <2>2 DEF OpenCache, Cached
  <2> QED
    BY <1>9, <2>1, <2>2 DEF OpenCache
<1>10. CASE FlushCache
  BY <1>10 DEF FlushCache, Cached
<1>11. CASE UpdateInfo \/ HandOn
  BY <1>11 DEF UpdateInfo, HandOn
<1>12. CASE AskUser \/ NoMoreChances
  BY <1>12 DEF AskUser, NoMoreChances
<1>13. CASE TimerFires \/ ResetStreamer \/ StreamerDestroyed \/ StopTimer
  BY <1>13 DEF TimerFires, ResetStreamer, StreamerDestroyed, StopTimer
<1>14. CASE StreamerStep
  BY <1>14 DEF StreamerStep, LogsIn, Disconnects, UserPauses, UserResumes,
               StreamerBecomes
<1>15. CASE Tick
  BY <1>15 DEF Tick
<1> QED
  BY <1>1, <1>2, <1>3, <1>4, <1>5, <1>6, <1>7, <1>8, <1>9, <1>10, <1>11, <1>12,
     <1>13, <1>14, <1>15 DEF Next, TokenStep

\* Between two checks the file holds the tokens in use, through any number of
\* failed requests, crashes and reloads, unless it could not be opened.
THEOREM CacheKeepsUp == Spec => []CacheFollowsMemory
<1>1. Init => CacheInv
  BY DEF Init, CacheInv
<1>2. CacheInv => CacheFollowsMemory
  BY DEF CacheInv, Synced, CacheFollowsMemory
<1> QED
  BY <1>1, <1>2, CacheInductive, PTL DEF Spec

-----------------------------------------------------------------------------
(***************************************************************************)
(* The pause that updateTokens makes.  It lasts as long as the streamer    *)
(* stays paused, and an update ends it before it ends itself.              *)
(***************************************************************************)
ResumeInv ==
    /\ pausedBy = "daemon" => streamer = "Paused"
    /\ pc \in {"check", "pause", "book", "handOn", "wait"} /\ via = "update" /\ ~troubled =>
          pausedBy # "daemon"

\* Every step keeps it.
LEMMA ResumeInductive == ResumeInv /\ [Next]_vars => ResumeInv'
<1> SUFFICES ASSUME ResumeInv, [Next]_vars PROVE ResumeInv'
  OBVIOUS
<1> USE DEF ResumeInv, cacheVars, streamerVars, historyVars, boundVars, Waits
<1>1. CASE UNCHANGED vars
  BY <1>1 DEF vars
<1>2. CASE Connect \/ LoadTokens
  BY <1>2 DEF Connect, LoadTokens, Ends
<1>3. CASE CheckTokens
  <2>1. CASE troubled'
    BY <1>3, <2>1 DEF CheckTokens
  <2>2. CASE troubled' = troubled
    BY <1>3, <2>2 DEF CheckTokens
  <2> QED
    BY <1>3, <2>1, <2>2 DEF CheckTokens
<1>4. CASE PauseStreamer \/ ResumeStreamer
  BY <1>4 DEF PauseStreamer, ResumeStreamer
<1>5. CASE StreamerGone \/ AnswerIsNoJson \/ Kill
  BY <1>5 DEF StreamerGone, AnswerIsNoJson, Kill, Ends
<1>6. CASE GetTokens
  BY <1>6 DEF GetTokens
<1>7. CASE GetTokensFails \/ GetTokensStalls
  BY <1>7 DEF GetTokensFails, GetTokensStalls
<1>8. CASE OpenCache \/ FlushCache
  BY <1>8 DEF OpenCache, FlushCache, Cached
<1>9. CASE UpdateInfo \/ HandOn
  BY <1>9 DEF UpdateInfo, HandOn
<1>10. CASE AskUser \/ NoMoreChances
  BY <1>10 DEF AskUser, NoMoreChances
<1>11. CASE TimerFires \/ ResetStreamer \/ StreamerDestroyed \/ StopTimer
  BY <1>11 DEF TimerFires, ResetStreamer, StreamerDestroyed, StopTimer
<1>12. CASE StreamerStep
  BY <1>12 DEF StreamerStep, LogsIn, Disconnects, UserPauses, UserResumes,
               StreamerBecomes
<1>13. CASE Tick
  BY <1>13 DEF Tick
<1> QED
  BY <1>1, <1>2, <1>3, <1>4, <1>5, <1>6, <1>7, <1>8, <1>9, <1>10, <1>11, <1>12,
     <1>13 DEF Next, TokenStep

\* An update that succeeded does not leave the streamer as updateTokens paused it,
\* whatever the user and the connection did to the streamer meanwhile.
THEOREM UpdateResumes == Spec => []ResumedAfterUpdate
<1>1. Init => ResumeInv
  BY DEF Init, ResumeInv
<1>2. ResumeInv => ResumedAfterUpdate
  BY DEF ResumeInv, ResumedAfterUpdate
<1> QED
  BY <1>1, <1>2, ResumeInductive, PTL DEF Spec
=============================================================================
