------------------------------ MODULE UserData ------------------------------
(***************************************************************************)
(* The user preference: how client.cpp caches it, hands the part about the *)
(* streamer on to the streamer, and how streamer.cpp builds its requests   *)
(* from that copy.  Four kinds of threads take part: connect()'s, the token*)
(* checker's, the io thread, which builds login requests, and the callers  *)
(* that subscribe.  A mutex guards the client's copy and none the          *)
(* streamer's.                                                             *)
(*                                                                         *)
(* Data is known by its version: 0 is blank, and the server's goes up by   *)
(* one whenever it changes.                                                *)
(***************************************************************************)
EXTENDS Naturals, Sequences, FiniteSets, Functions

CONSTANTS
    Callers,             \* threads that subscribe
    FieldLists,          \* the lists of fields they ask for
    MaxChanges,          \* bound: changes of the data at the server
    MaxBad,              \* bound: answers that are not whole
    MaxRecord            \* bound: subscriptions

ASSUME UserDataAssumption ==
    /\ FieldLists \subseteq Seq(Nat)
    /\ MaxChanges \in Nat
    /\ MaxBad \in Nat
    /\ MaxRecord \in Nat

VARIABLES
    current,             \* environment: version of the data at the server
    bad,                 \* answers so far that were not whole
    main,                \* where connect() is
    updater,             \* where the thread that updates the preference is
    answer,              \* the version it was answered
    pref,                \* m_userPreference
    handed,              \* what getStreamerInfo returned to it
    built,               \* m_streamerInfo of the streamer being constructed
    info,                \* m_streamerInfo of the streamer
    login,               \* the last login request built
    reading,             \* what the login request being built has read so far
    at,                  \* where each caller is
    asked,               \* the list of fields each caller asked for
    fields,              \* the same list after it has been prepared
    record               \* the subscription requests built

clientVars == <<bad, main, updater, answer, pref, handed>>
loginVars  == <<login, reading>>
callerVars == <<at, asked, fields, record>>
vars == <<current, clientVars, built, info, loginVars, callerVars>>

Version == 0..(MaxChanges + 1)
Parts == {"accounts", "streamerInfo", "offers"}

\* The members of a StreamerInfo, in the order in which they are assigned: the
\* url and the ids, then the channel and the function.
Info == [ids : Version, channel : Version]
AllOf(v) == [ids |-> v, channel |-> v]

TypeOK ==
    /\ current \in Version
    /\ bad \in 0..MaxBad
    /\ main \in {"off", "update", "construct", "publish", "ready", "dead"}
    /\ updater \in {"idle", "answered", "parsed", "hand", "write"}
    /\ answer \in Version
    /\ pref \in [Parts -> Version]
    /\ handed \in Version
    /\ built \in Version
    /\ info \in Info
    /\ login \in Info
    /\ reading \in Seq(Version)
    /\ at \in [Callers -> {"idle", "build"}]
    /\ asked \in [Callers -> FieldLists \cup {<<>>}]
    /\ fields \in [Callers -> Seq(Nat)]
    /\ record \in Seq([asked : FieldLists, fields : Seq(Nat), ids : Version])
    /\ updater \in {"hand", "write"} => main \in {"ready", "dead"}

Init ==
    /\ current = 1
    /\ bad = 0
    /\ main = "off" /\ updater = "idle"
    /\ answer = 0
    /\ pref = [p \in Parts |-> 0]
    /\ handed = 0
    /\ built = 0 /\ info = AllOf(0)
    /\ login = AllOf(0) /\ reading = <<>>
    /\ at = [c \in Callers |-> "idle"]
    /\ asked = [c \in Callers |-> <<>>]
    /\ fields = [c \in Callers |-> <<>>]
    /\ record = <<>>

UpdaterAt(place) == main # "dead" /\ updater = place

\* The user, or the server, changes what the preference says.
ServerChanges ==
    /\ current <= MaxChanges
    /\ current' = current + 1
    /\ UNCHANGED <<clientVars, built, info, loginVars, callerVars>>

-----------------------------------------------------------------------------
(***************************************************************************)
(* updateUserPreference, on connect()'s thread until it has run once, and  *)
(* on the token checker's after every successful update of the tokens.     *)
(***************************************************************************)
Connect ==
    /\ main = "off"
    /\ main' = "update"
    /\ UNCHANGED <<current, bad, updater, answer, pref, handed, built, info, loginVars,
                   callerVars>>

Request ==
    /\ UpdaterAt("idle")
    /\ main # "off"
    /\ updater' = "answered"
    /\ answer' = current
    /\ UNCHANGED <<current, bad, main, pref, handed, built, info, loginVars, callerVars>>

\* Where the thread goes after an update: connect() creates the streamer next.
UpdateEnds ==
    /\ updater' = "idle"
    /\ main' = IF main = "update" THEN "construct" ELSE main

\* UserPreference::from_json assigns the three parts in this order, each whole or
\* not at all, and throws at the first that is not as it should be.
Assigned(parts, v) == [p \in Parts |-> IF p \in parts THEN v ELSE pref[p]]

AllAssigned ==
    /\ UpdaterAt("answered")
    /\ pref' = Assigned(Parts, answer)
    /\ updater' = "parsed"
    /\ UNCHANGED <<current, bad, main, answer, handed, built, info, loginVars, callerVars>>

\* The list of streamer infos may be empty.
NoInfoAssigned ==
    /\ UpdaterAt("answered")
    /\ bad < MaxBad
    /\ bad' = bad + 1
    /\ pref' = [Assigned(Parts, answer) EXCEPT !["streamerInfo"] = 0]
    /\ updater' = "parsed"
    /\ UNCHANGED <<current, main, answer, handed, built, info, loginVars, callerVars>>

\* Whatever throws ends the update there; a request that failed is answered "{}".
SomeAssigned ==
    /\ UpdaterAt("answered")
    /\ bad < MaxBad
    /\ bad' = bad + 1
    /\ \E parts \in {{}, {"accounts"}, {"accounts", "streamerInfo"}} :
           pref' = Assigned(parts, answer)
    /\ UpdateEnds
    /\ UNCHANGED <<current, answer, handed, built, info, loginVars, callerVars>>

HandToNobody ==                                 \* mutant: streamer not tested for
    /\ UpdaterAt("parsed")
    /\ updater' = "hand" /\ handed' = pref["streamerInfo"]
    /\ UNCHANGED <<current, bad, main, answer, pref, built, info, loginVars, callerVars>>

\* The streamer, if there is one yet, gets a copy ...
TestStreamer ==
    /\ UpdaterAt("parsed")
    /\ IF main = "ready"
       THEN updater' = "hand" /\ handed' = pref["streamerInfo"] /\ UNCHANGED main
       ELSE UpdateEnds /\ UNCHANGED handed
    /\ UNCHANGED <<current, bad, answer, pref, built, info, loginVars, callerVars>>

WriteChannelFirst ==                            \* mutant: ids not written first
    /\ UpdaterAt("hand")
    /\ info' = [info EXCEPT !.channel = handed]
    /\ updater' = "write"
    /\ UNCHANGED <<current, bad, main, answer, pref, handed, built, loginVars, callerVars>>

\* ... member by member.
WriteIds ==
    /\ UpdaterAt("hand")
    /\ info' = [info EXCEPT !.ids = handed]
    /\ updater' = "write"
    /\ UNCHANGED <<current, bad, main, answer, pref, handed, built, loginVars, callerVars>>

WriteNoChannel ==                               \* mutant: a member forgotten
    /\ UpdaterAt("write")
    /\ updater' = "idle"
    /\ handed' = 0
    /\ UNCHANGED <<current, bad, main, answer, pref, built, info, loginVars, callerVars>>

WriteChannel ==
    /\ UpdaterAt("write")
    /\ info' = [info EXCEPT !.channel = handed]
    /\ updater' = "idle"
    /\ handed' = 0
    /\ UNCHANGED <<current, bad, main, answer, pref, built, loginVars, callerVars>>

-----------------------------------------------------------------------------
(***************************************************************************)
(* The streamer's constructor copies what the client has, and only then is *)
(* m_streamer set.                                                         *)
(***************************************************************************)
Construct ==
    /\ main = "construct"
    /\ built' = pref["streamerInfo"]
    /\ main' = "publish"
    /\ UNCHANGED <<current, bad, updater, answer, pref, handed, info, loginVars,
                   callerVars>>

Publish ==
    /\ main = "publish"
    /\ info' = AllOf(built)
    /\ built' = 0
    /\ main' = "ready"
    /\ UNCHANGED <<current, bad, updater, answer, pref, handed, loginVars, callerVars>>

-----------------------------------------------------------------------------
(***************************************************************************)
(* constructLoginRequest, at every connection and after every refused      *)
(* login: the channel is read first, and then, in constructStreamRequest,  *)
(* the ids.                                                                *)
(***************************************************************************)
LoginReadsChannel ==
    /\ main = "ready"
    /\ reading = <<>>
    /\ reading' = <<info.channel>>
    /\ UNCHANGED <<current, clientVars, built, info, login, callerVars>>

LoginReadsIds ==
    /\ main = "ready"
    /\ reading # <<>>
    /\ login' = [ids |-> info.ids, channel |-> Head(reading)]
    /\ reading' = <<>>
    /\ UNCHANGED <<current, clientVars, built, info, callerVars>>

-----------------------------------------------------------------------------
(***************************************************************************)
(* subscribeLevelOneEquities: the list of fields is sorted, in the caller's*)
(* own vector, and Symbol put in front unless it is there.                 *)
(***************************************************************************)
Symbol == 0

\* std::sort: one of the orders in which nothing comes before something smaller.
SortingOrders(list) ==
    {p \in Bijection(DOMAIN list, DOMAIN list) :
        \A i, j \in DOMAIN list : i < j => list[p[i]] <= list[p[j]]}

Sorted(list) ==
    LET p == CHOOSE q \in SortingOrders(list) : TRUE
    IN  [i \in DOMAIN list |-> list[p[i]]]

PreparedInOrder(list) ==                        \* mutant: Symbol put at the end
    Sorted(list) \o (IF Symbol \in {list[i] : i \in DOMAIN list}
                     THEN <<>> ELSE <<Symbol>>)

Prepared(list) ==
    IF Head(Sorted(list)) = Symbol THEN Sorted(list) ELSE <<Symbol>> \o Sorted(list)

PrepareFields(c, list) ==
    /\ main = "ready"
    /\ at[c] = "idle"
    /\ Len(record) < MaxRecord
    /\ list # <<>>
    /\ fields' = [fields EXCEPT ![c] = Prepared(list)]
    /\ at' = [at EXCEPT ![c] = "build"]
    /\ UNCHANGED <<current, clientVars, built, info, loginVars, record>>

\* With a new vector, or with the one it passed before.
Subscribe(c) ==
    \/ \E list \in FieldLists :
           PrepareFields(c, list) /\ asked' = [asked EXCEPT ![c] = list]
    \/ PrepareFields(c, fields[c]) /\ UNCHANGED asked

\* The request is built, with the ids of the moment, and recorded.
BuildRequest(c) ==
    /\ main = "ready"
    /\ at[c] = "build"
    /\ record' = Append(record, [asked |-> asked[c], fields |-> fields[c],
                                 ids |-> info.ids])
    /\ at' = [at EXCEPT ![c] = "idle"]
    /\ UNCHANGED <<current, clientVars, built, info, loginVars, asked, fields>>

-----------------------------------------------------------------------------
(***************************************************************************)
(* Undefined behaviour: it may go well (the steps above) or not.           *)
(***************************************************************************)
Dies ==
    /\ main' = "dead"
    /\ UNCHANGED <<current, bad, updater, answer, pref, handed, built, info, loginVars,
                   callerVars>>

\* Strings that are read while they are assigned.
InfoRaces ==
    /\ main = "ready"
    /\ updater \in {"hand", "write"}
    /\ reading # <<>> \/ \E c \in Callers : at[c] = "build"
    /\ Dies

\* front() of a vector that never held anything reads through a null pointer.
SubscribeToNothing(c) ==
    /\ main = "ready"
    /\ at[c] = "idle"
    /\ <<>> \in FieldLists
    /\ Dies

-----------------------------------------------------------------------------
UpdateStep ==
    \/ Request \/ AllAssigned \/ NoInfoAssigned \/ SomeAssigned
    \/ TestStreamer \/ WriteIds \/ WriteChannel

MainStep == Connect \/ Construct \/ Publish

LoginStep == LoginReadsChannel \/ LoginReadsIds

CallerStep(c) == Subscribe(c) \/ BuildRequest(c) \/ SubscribeToNothing(c)

Next ==
    \/ ServerChanges \/ MainStep \/ UpdateStep \/ LoginStep \/ InfoRaces
    \/ \E c \in Callers : CallerStep(c)

Spec == Init /\ [][Next]_vars

\* The tokens are updated again and again, and with them the preference.
FairSpec == Spec /\ WF_vars(MainStep) /\ WF_vars(UpdateStep)

-----------------------------------------------------------------------------
(***************************************************************************)
(* Properties                                                              *)
(***************************************************************************)
Times(x, list) == Cardinality({i \in DOMAIN list : list[i] = x})

\* Every subscription request names the fields the streamer requires: those asked
\* for, as often as asked, in ascending order, and Symbol before all others, added
\* only if it was not asked for; also when the same vector is passed again.
FieldsAsRequired ==
    \A i \in DOMAIN record :
        LET want == record[i].asked
            got  == record[i].fields
        IN  /\ Head(got) = Symbol
            /\ \A j \in 1..(Len(got) - 1) : got[j] <= got[j + 1]
            /\ \A x \in {got[j] : j \in DOMAIN got} \cup {want[j] : j \in DOMAIN want} :
                   Times(x, got) = IF x = Symbol /\ Times(x, want) = 0
                                   THEN 1 ELSE Times(x, want)

\* No mutex guards the streamer's copy, so a login request may mix two versions of
\* it, but in one way only: the ids are never older than the channel (unless the
\* client was told there are none).  The copy is written in the order of its
\* members, and the login request reads it in the other.
TornOneWay == login.ids = 0 \/ login.channel <= login.ids

\* Whatever updates were lost, because the answer was bad or the streamer was being
\* created: client and streamer end up with what the server has.
CatchesUp ==
    <>[](\/ main = "dead"
         \/ /\ pref = [p \in Parts |-> current]
            /\ info = AllOf(current))
=============================================================================
