----------------------------- MODULE XapiEvents -----------------------------
(***************************************************************************)
(* The XAPI client of packages/xen-api/index.mjs: the connection and its   *)
(* session, which any call may renew, and the event loop that keeps a      *)
(* cache of the objects of the server up to date, _watchEvents().          *)
(*                                                                         *)
(* The server is external: it is modelled from what the client expects of  *)
(* it.  It numbers its events; event.from answers the current state of the *)
(* objects that changed after a token; a restart of the toolstack          *)
(* invalidates the sessions, makes tasks disappear and forgets deletions.  *)
(* An object is created, changes once (a task is done) and is deleted.     *)
(***************************************************************************)
EXTENDS Integers, FiniteSets

CONSTANTS
    Tasks,           \* references of the tasks
    VMs,             \* references of the other objects
    Pool,            \* reference of the pool, "done" once it holds the key of the barrier
    None,            \* no session; no number
    MaxEvents,       \* bound: events of the server
    MaxFaults,       \* bound: restarts of the toolstack, calls that fail for the
                     \* network, events lost and calls of disconnect() by the user
    MaxConnects      \* bound: calls of connect()

Refs  == Tasks \cup VMs \cup {Pool}
Types == {"task", "VM", "pool"}

Type(r) == CASE r \in Tasks -> "task" [] r \in VMs -> "VM" [] OTHER -> "pool"

\* Who uses the session: the event loop, its fetches (one per type), any other user.
Callers == Types \cup {"loop", "user"}

ASSUME XapiEventsAssumption ==
    /\ IsFiniteSet(Tasks) /\ IsFiniteSet(VMs)
    /\ Tasks \cap VMs = {} /\ Pool \notin Tasks \cup VMs
    /\ {MaxEvents, MaxFaults, MaxConnects} \subseteq Nat
    /\ None \notin Int

VARIABLES
    (* The server. *)
    db,         \* db[r]: "new" (not created yet), "live", "done" or "gone"
    stamp,      \* stamp[r]: the last event of r
    clock,      \* the last event
    forgotten,  \* deleted objects whose deletion no event will tell
    (* The connection. *)
    status,     \* _status
    session,    \* _sessionId: None, "good", or "bad" when the server ignores it
    connecting, \* connect() is pending: it is coalesced
    opening,    \* the step of _sessionOpen(), coalesced too; "no" when not running
    poolKnown,  \* _pool is set
    typesKnown, \* _types is set
    call,       \* call[c]: the state of the current call of c
    using,      \* using[c]: the session it was given
    (* The event loop. *)
    pc,
    token,      \* fromToken
    pending,    \* types that _refreshCachedRecords() still has to update
    reply,      \* the answer to event.from: objects, token and number of tasks
    cache,      \* _objectsByRef
    nTasks,     \* _nTasks: None when it is not a number (undefined, then NaN)
    watchers,   \* _taskWatchers
    barrier,    \* barrier(): "no", "waiting" or "resolved"
    (* History. *)
    mark,       \* db when barrier() was called
    unfetched,  \* types whose last fetch failed
    missed,     \* tasks deleted while the cache did not have them, whose events are skipped
    faults, connects

server     == <<db, stamp, clock, forgotten>>
connection == <<status, session, connecting, opening, poolKnown, typesKnown>>
calls      == <<call, using>>
objects    == <<cache, nTasks, watchers, barrier, mark, missed>>
loop       == <<pc, token, pending, reply, unfetched>>
bounds     == <<faults, connects>>
vars       == <<server, connection, calls, loop, objects, bounds>>

NoReply == [events |-> [r \in {} |-> "absent"], token |-> 0, tasks |-> 0]

Init ==
    /\ db \in [Refs -> {"new", "live"}]
    /\ \A r \in Refs \ Tasks : db[r] = "live"
    /\ stamp = [r \in Refs |-> 0]
    /\ clock = 0
    /\ forgotten = {}
    /\ status = "disconnected"
    /\ session = None
    /\ connecting = FALSE
    /\ opening = "no"
    /\ poolKnown = FALSE
    /\ typesKnown = FALSE
    /\ call = [c \in Callers |-> "idle"]
    /\ using = [c \in Callers |-> None]
    /\ pc = "main"
    /\ token = 0
    /\ pending = {}
    /\ reply = NoReply
    /\ cache = [r \in Refs |-> "absent"]
    /\ nTasks = None
    /\ watchers = {}
    /\ barrier = "no"
    /\ mark = db
    /\ unfetched = {}
    /\ missed = {}
    /\ faults = 0
    /\ connects = 0

-----------------------------------------------------------------------------

Fault == faults < MaxFaults /\ faults' = faults + 1

(* The server. *)

Visible(r) == IF db[r] \in {"live", "done"} THEN db[r] ELSE "absent"

\* What may become of an object.
Successors(state) ==
    CASE state = "new"  -> {"live"}
      [] state = "live" -> {"done", "gone"}
      [] state = "done" -> {"gone"}
      [] OTHER          -> {}

Change(r, state) ==
    /\ clock < MaxEvents
    /\ clock' = clock + 1
    /\ db' = [db EXCEPT ![r] = state]
    /\ stamp' = [stamp EXCEPT ![r] = clock + 1]

ServerChange(r) ==
    /\ r # Pool
    /\ \E state \in Successors(db[r]) : Change(r, state)
    /\ UNCHANGED <<forgotten, connection, calls, loop, objects, bounds>>

InFlight(c) == call[c] \in {"sent", "resent"}

\* The tasks that are deleted in state while the cache does not have them.
Unseen(state) == {t \in Tasks : state[t] = "gone" /\ cache[t] = "absent"}

\* The toolstack restarts: the calls in flight fail.
Restart(gone) ==
    /\ Fault
    /\ db' = [r \in Refs |-> IF r \in gone /\ Visible(r) # "absent" THEN "gone" ELSE db[r]]
    /\ forgotten' = {r \in Refs : db'[r] = "gone"}
    /\ session' = IF session = "good" THEN "bad" ELSE session
    /\ call' = [c \in Callers |-> IF InFlight(c) THEN "failed" ELSE call[c]]
    /\ using' = [c \in Callers |-> None]
    /\ missed' = missed \cup Unseen(db')
    /\ UNCHANGED <<stamp, clock, status, connecting, opening, poolKnown, typesKnown, loop, cache,
                   nTasks, watchers, barrier, mark, connects>>

-----------------------------------------------------------------------------
(* Connection. *)

\* The calls that wait for _sessionOpen() go on with its session, or fail with it.
Resume(ok, s) ==
    /\ call' = [c \in Callers |-> IF call[c] # "renewing" THEN call[c]
                                  ELSE IF ok /\ s # None THEN "resent" ELSE "failed"]
    /\ using' = [c \in Callers |-> IF call[c] = "renewing" THEN (IF ok THEN s ELSE None) ELSE using[c]]

\* disconnect(): the session is closed by a detached call, which the calls in
\* flight may precede (s = "good") or follow.  Only the login and the list of
\* the types are interrupted.
Disconnect ==
    \E s \in {"good", "bad"} :
        /\ status' = "disconnected"
        /\ session' = None
        /\ IF opening \in {"login", "types"}
           THEN /\ opening' = "no"
                /\ connecting' = FALSE
                /\ call' = [c \in Callers |-> IF call[c] = "renewing" THEN "failed" ELSE call[c]]
           ELSE UNCHANGED <<opening, connecting, call>>
        /\ using' = [c \in Callers |-> IF using[c] = "good" THEN s ELSE using[c]]

UserDisconnect ==
    /\ status # "disconnected"
    /\ Fault
    /\ Disconnect
    /\ UNCHANGED <<server, poolKnown, typesKnown, loop, objects, connects>>

\* _sessionOpen() begins by forgetting the session; it joins the one that runs.
OpenSession ==
    IF opening = "no" THEN opening' = "login" /\ session' = None
                      ELSE UNCHANGED <<opening, session>>

Connect ==
    /\ status = "disconnected"
    /\ ~connecting
    /\ connects < MaxConnects
    /\ connects' = connects + 1
    /\ status' = "connecting"
    /\ connecting' = TRUE
    /\ OpenSession
    /\ UNCHANGED <<server, poolKnown, typesKnown, calls, loop, objects, faults>>

\* session.login_with_password
Login ==
    /\ opening = "login"
    /\ session' = "good"
    /\ opening' = "pool"
    /\ UNCHANGED <<server, status, connecting, poolKnown, typesKnown, calls, loop, objects, bounds>>

\* _sessionOpen() succeeds: connect() does not look at the status again.
Opened ==
    /\ opening' = "no"
    /\ connecting' = FALSE
    /\ status' = IF connecting THEN "connected" ELSE status
    /\ Resume(TRUE, session)

\* pool.get_all_records, with a session that may have been closed since.
GetPool ==
    /\ opening = "pool"
    /\ session \in {"good", None}
    /\ poolKnown' = TRUE
    /\ IF poolKnown
       THEN Opened /\ UNCHANGED session
       ELSE opening' = "types" /\ UNCHANGED <<status, session, connecting, calls>>
    /\ UNCHANGED <<server, typesKnown, loop, objects, bounds>>

\* system.listMethods, the first time only.
ListTypes ==
    /\ opening = "types"
    /\ typesKnown' = TRUE
    /\ Opened
    /\ UNCHANGED <<server, session, poolKnown, loop, objects, bounds>>

\* _sessionOpen() fails: connect() disconnects, and so does a call whose error
\* is SESSION_INVALID.
OpenFails(invalid) ==
    /\ opening # "no"
    /\ IF invalid THEN opening = "pool" /\ session # "good" /\ UNCHANGED faults
                  ELSE Fault
    /\ LET disconnecting == connecting \/ (invalid /\ \E c \in Callers : call[c] = "renewing")
       IN /\ status' = IF disconnecting THEN "disconnected" ELSE status
          /\ session' = IF disconnecting THEN None ELSE session
    /\ opening' = "no"
    /\ connecting' = FALSE
    /\ Resume(FALSE, None)
    /\ UNCHANGED <<server, poolKnown, typesKnown, loop, objects, connects>>

-----------------------------------------------------------------------------
(* Calls: _sessionCall().  Without a session an assertion fails. *)

Sent == IF session = None THEN "failed" ELSE "sent"

\* The calls of C are made.
Send(C) ==
    /\ call' = [c \in Callers |-> IF c \in C THEN Sent ELSE call[c]]
    /\ using' = [c \in Callers |-> IF c \in C THEN session ELSE using[c]]

Settle(c, result) ==
    /\ call' = [call EXCEPT ![c] = result]
    /\ using' = [using EXCEPT ![c] = None]

\* event.from does not use _sessionCall(): it has no part in the following.
SessionCall(c) == InFlight(c) /\ ~(c = "loop" /\ pc = "from")

\* SESSION_INVALID the first time: the session is renewed, unless disconnected.
RenewSession(c) ==
    /\ SessionCall(c) /\ call[c] = "sent" /\ using[c] = "bad"
    /\ IF status = "disconnected"
       THEN Settle(c, "failed") /\ UNCHANGED <<opening, session>>
       ELSE Settle(c, "renewing") /\ OpenSession
    /\ UNCHANGED <<server, status, connecting, poolKnown, typesKnown, loop, objects, bounds>>

\* SESSION_INVALID the second time: disconnect().
SessionInvalid(c) ==
    /\ SessionCall(c) /\ call[c] = "resent" /\ using[c] = "bad"
    /\ IF status = "disconnected"
       THEN Settle(c, "failed") /\ UNCHANGED <<status, session, opening, connecting>>
       ELSE /\ status' = "disconnected"
            /\ session' = None
            /\ LET interrupted == opening \in {"login", "types"}
               IN /\ opening' = IF interrupted THEN "no" ELSE opening
                  /\ connecting' = (connecting /\ ~interrupted)
                  /\ call' = [d \in Callers |-> IF d = c \/ (interrupted /\ call[d] = "renewing")
                                                THEN "failed" ELSE call[d]]
            /\ using' = [using EXCEPT ![c] = None]
    /\ UNCHANGED <<server, poolKnown, typesKnown, loop, objects, bounds>>

NetworkError(c) ==
    /\ InFlight(c)
    /\ Fault
    /\ Settle(c, "failed")
    /\ UNCHANGED <<server, connection, loop, objects, connects>>

\* Any other user of the connection calls a method, and its call ends: only a
\* call that renews the session matters here.
UserCall ==
    /\ call["user"] = "idle" /\ session = "bad"
    /\ Send({"user"})
    /\ UNCHANGED <<server, connection, loop, objects, bounds>>

UserCallEnds ==
    /\ \/ call["user"] = "failed"
       \/ InFlight("user") /\ using["user"] = "good"
    /\ Settle("user", "idle")
    /\ UNCHANGED <<server, connection, loop, objects, bounds>>

-----------------------------------------------------------------------------
(* The cache. *)

\* The objects of S that exist, as they are.
Snapshot(S) == [r \in {q \in S : Visible(q) # "absent"} |-> Visible(r)]

\* Mutant: only a task that is done settles its watchers.
RemovalIgnored(records, removed) == {t \in watchers : t \in DOMAIN records => records[t] # "done"}

\* The watchers left after an update.
StillWatched(records, removed) == {t \in watchers \ removed : t \in DOMAIN records => records[t] # "done"}

\* _addRecordToCache() for the objects of records, _removeRecordFromCache() for
\* those of removed: the tasks that are done or removed settle their watchers,
\* the pool with the key of the barrier resolves it.
UpdateCache(records, removed) ==
    /\ cache' = [r \in Refs |-> IF r \in DOMAIN records THEN records[r]
                                ELSE IF r \in removed THEN "absent" ELSE cache[r]]
    /\ UNCHANGED missed
    /\ watchers' = StillWatched(records, removed)
    /\ IF barrier = "waiting" /\ Pool \in DOMAIN records /\ records[Pool] = "done"
       THEN barrier' = "resolved" /\ mark' = [r \in Refs |-> "new"]
       ELSE UNCHANGED <<barrier, mark>>

\* watchTask() on a task that exists: a task that is known to be done is not watched.
WatchTask(t) ==
    /\ pc # "dead"
    /\ Visible(t) # "absent"
    /\ cache[t] # "done"
    /\ watchers' = watchers \cup {t}
    /\ UNCHANGED <<server, connection, calls, loop, cache, nTasks, barrier, mark, missed, bounds>>

\* barrier(): its key is added to the pool.
Barrier ==
    /\ barrier = "no"
    /\ poolKnown /\ session = "good"
    /\ barrier' = "waiting"
    /\ mark' = db
    /\ Change(Pool, "done")
    /\ UNCHANGED <<forgotten, connection, calls, loop, cache, nTasks, watchers, missed, bounds>>

-----------------------------------------------------------------------------
(* The event loop.  objectsFetched is pending while pc is "main", "inject" or  *)
(* "fetch".                                                                    *)

\* event.inject: the token is computed before the objects are fetched.
Inject ==
    /\ pc = "main" /\ status = "connected"
    /\ Send({"loop"})
    /\ pc' = "inject"
    /\ UNCHANGED <<server, connection, token, pending, reply, unfetched, objects, bounds>>

\* The objects of each type are fetched in parallel: _refreshCachedRecords().
\* Without the types the loop ends with an error.
InjectAnswered ==
    /\ pc = "inject" /\ InFlight("loop") /\ using["loop"] = "good"
    /\ token' = clock
    /\ missed' = missed \cup Unseen(db)
    /\ IF typesKnown
       THEN /\ pc' = "fetch"
            /\ pending' = Types
            /\ call' = [c \in Callers |-> IF c \in Types THEN Sent
                                          ELSE IF c = "loop" THEN "idle" ELSE call[c]]
            /\ using' = [c \in Callers |-> IF c \in Types THEN session
                                           ELSE IF c = "loop" THEN None ELSE using[c]]
       ELSE pc' = "dead" /\ Settle("loop", "idle") /\ UNCHANGED pending
    /\ UNCHANGED <<server, connection, reply, unfetched, cache, nTasks, watchers, barrier, mark, bounds>>

InjectFailed ==
    /\ pc = "inject" /\ call["loop"] = "failed"
    /\ pc' = "main"
    /\ Settle("loop", "idle")
    /\ UNCHANGED <<server, connection, token, pending, reply, unfetched, objects, bounds>>

EndOfFetch(type) ==
    /\ pending' = pending \ {type}
    /\ pc' = IF pending = {type} THEN "poll" ELSE pc
    /\ Settle(type, "idle")

\* Mutant: the token is computed after the fetch.
LateToken == token' = clock

\* The token is the one that was computed before the fetch.
KeepToken == UNCHANGED token

\* <type>.get_all_records is answered: the objects that are known and not in
\* the answer are removed.  The answer is stored at once: only the loop writes
\* the cache.
FetchAnswered(type) ==
    /\ type \in pending /\ InFlight(type) /\ using[type] = "good"
    /\ LET records == Snapshot({r \in Refs : Type(r) = type})
           known   == {r \in Refs : Type(r) = type /\ cache[r] # "absent"}
       IN /\ UpdateCache(records, known \ DOMAIN records)
          /\ nTasks' = IF type = "task" THEN Cardinality(DOMAIN records) ELSE nTasks
    /\ EndOfFetch(type)
    /\ unfetched' = unfetched \ {type}
    /\ KeepToken
    /\ UNCHANGED <<server, connection, reply, bounds>>

\* "there is nothing ideal to do here, do not interrupt event handling"
FetchFailed(type) ==
    /\ type \in pending /\ call[type] = "failed"
    /\ EndOfFetch(type)
    /\ unfetched' = IF pc = "fetch" THEN unfetched \cup {type} ELSE unfetched
    /\ UNCHANGED <<server, connection, token, reply, objects, bounds>>

\* event.from, with whatever session there is.
Poll ==
    /\ pc = "poll" /\ status = "connected"
    /\ pc' = "from"
    /\ call' = [call EXCEPT !["loop"] = "sent"]
    /\ using' = [using EXCEPT !["loop"] = session]
    /\ UNCHANGED <<server, connection, token, pending, reply, unfetched, objects, bounds>>

Changed == {r \in Refs : stamp[r] > token /\ r \notin forgotten}

\* The server answers event.from: the objects that changed, as they are now.
EventsAnswered ==
    /\ pc = "from" /\ InFlight("loop") /\ using["loop"] = "good"
    /\ pc' = "answered"
    /\ reply' = [events |-> [r \in Changed |-> Visible(r)],
                  token  |-> clock,
                  tasks  |-> Cardinality({t \in Tasks : Visible(t) # "absent"})]
    /\ Settle("loop", "idle")
    /\ UNCHANGED <<server, connection, token, pending, unfetched, objects, bounds>>

\* SESSION_INVALID: everything is fetched again.
SessionLost ==
    /\ pc = "from" /\ InFlight("loop") /\ using["loop"] # "good"
    /\ pc' = "main"
    /\ Settle("loop", "idle")
    /\ UNCHANGED <<server, connection, token, pending, reply, unfetched, objects, bounds>>

\* EVENTS_LOST: the same.
EventsLost ==
    /\ pc = "from" /\ InFlight("loop") /\ using["loop"] = "good"
    /\ Fault
    /\ pc' = "main"
    /\ Settle("loop", "idle")
    /\ UNCHANGED <<server, connection, token, pending, reply, unfetched, objects, connects>>

\* Any other error: the same events are asked for again.
PollFailed ==
    /\ pc = "from"
    /\ call["loop"] = "failed" \/ (InFlight("loop") /\ using["loop"] = None)
    /\ pc' = "poll"
    /\ Settle("loop", "idle")
    /\ UNCHANGED <<server, connection, token, pending, reply, unfetched, objects, bounds>>

\* Mutant: the number of tasks is not maintained by the events.
UncountedTasks(records, removed) == nTasks

\* The tasks among these events that the cache does not have.
Appeared(records) == {t \in Tasks \cap DOMAIN records : cache[t] = "absent"}

\* Mutant: a task that is not in the cache is counted when it is removed.
CountAllRemoved(records, removed) ==
    IF nTasks = None THEN None
    ELSE nTasks + Cardinality(Appeared(records)) - Cardinality(Tasks \cap removed)

\* The number of tasks that the cache has after these events.  Nothing sets it
\* before a fetch of the tasks succeeds: ++ and -- make it NaN.
CountTasks(records, removed) ==
    IF nTasks = None THEN None
    ELSE nTasks + Cardinality(Appeared(records))
                - Cardinality({t \in Tasks \cap removed : cache[t] # "absent"})

\* Mutant: tasks that disappear are not looked for.
NeverDisappeared == FALSE

\* What is not a number differs from the number of the server.
TasksDisappeared == reply.tasks # nTasks'

\* _processEvents(), then the tasks are fetched again when their number is wrong:
\* "detect and fix disappearing tasks (e.g. when toolstack restarts)".
ProcessEvents ==
    /\ pc = "answered"
    /\ LET events  == reply.events
           removed == {r \in DOMAIN events : events[r] = "absent"}
           records == [r \in DOMAIN events \ removed |-> events[r]]
       IN /\ UpdateCache(records, removed)
          /\ nTasks' = CountTasks(records, removed)
    /\ token' = reply.token
    /\ reply' = NoReply
    /\ IF TasksDisappeared
       THEN pc' = "refresh" /\ pending' = {"task"} /\ Send({"task"})
       ELSE pc' = "poll" /\ UNCHANGED <<pending, calls>>
    /\ UNCHANGED <<server, connection, unfetched, bounds>>

-----------------------------------------------------------------------------

(* Specification. *)

Opening == Login \/ GetPool \/ ListTypes \/ OpenFails(TRUE)

SessionError(c) == RenewSession(c) \/ SessionInvalid(c)

Fetch(type) == FetchAnswered(type) \/ FetchFailed(type)

Loop ==
    \/ Inject \/ InjectAnswered \/ InjectFailed
    \/ Poll \/ EventsAnswered \/ SessionLost \/ PollFailed \/ ProcessEvents

Next ==
    \/ \E r \in Refs : ServerChange(r)
    \/ \E gone \in SUBSET Tasks : Restart(gone)
    \/ Connect \/ UserDisconnect
    \/ Opening \/ OpenFails(FALSE)
    \/ \E c \in Callers : SessionError(c) \/ NetworkError(c)
    \/ UserCall \/ UserCallEnds
    \/ \E type \in Types : Fetch(type)
    \/ Loop \/ EventsLost
    \/ \E t \in Tasks : WatchTask(t)
    \/ Barrier

\* Every call is answered or fails (_call() has a timeout), and the client runs.
Fairness ==
    /\ WF_vars(Opening)
    /\ \A c \in Callers : WF_vars(SessionError(c))
    /\ \A type \in Types : WF_vars(Fetch(type))
    /\ WF_vars(Loop)

Spec == Init /\ [][Next]_vars /\ Fairness

-----------------------------------------------------------------------------
(* Properties. *)

\* The state of the client has the types that the actions rely on; in
\* particular a call is renewing only while _sessionOpen() runs.
TypeOK ==
    /\ db \in [Refs -> {"new", "live", "done", "gone"}]
    /\ stamp \in [Refs -> 0 .. MaxEvents]
    /\ clock \in 0 .. MaxEvents
    /\ forgotten \subseteq Refs
    /\ status \in {"disconnected", "connecting", "connected"}
    /\ session \in {None, "good", "bad"}
    /\ connecting \in BOOLEAN
    /\ opening \in {"no", "login", "pool", "types"}
    /\ poolKnown \in BOOLEAN /\ typesKnown \in BOOLEAN
    /\ call \in [Callers -> {"idle", "sent", "renewing", "resent", "failed"}]
    /\ using \in [Callers -> {None, "good", "bad"}]
    /\ pc \in {"main", "inject", "fetch", "poll", "from", "answered", "refresh", "dead"}
    /\ token \in 0 .. MaxEvents
    /\ pending \subseteq Types
    /\ cache \in [Refs -> {"absent", "live", "done"}]
    /\ nTasks \in 0 .. Cardinality(Tasks) \cup {None}
    /\ watchers \subseteq Tasks
    /\ barrier \in {"no", "waiting", "resolved"}
    /\ unfetched \subseteq Types
    /\ missed \subseteq Tasks
    /\ opening = "no" => ~connecting /\ \A c \in Callers : call[c] # "renewing"

\* No change is lost between the fetch and the events: an object that the cache
\* does not have as it is on the server has an event after the token of the
\* loop, unless its type could not be fetched or the server forgot its deletion.
NoEventLost ==
    pc \notin {"main", "inject", "dead"} =>
        \A r \in Refs :
            (/\ cache[r] # Visible(r)
             /\ Type(r) \notin unfetched
             /\ r \notin forgotten
             /\ pc = "fetch" => Type(r) \notin pending)
            => stamp[r] > token

CachedTasks == {t \in Tasks : cache[t] # "absent"}

\* The number of tasks, by which the loop finds the tasks that disappeared, is
\* that of the tasks in the cache from the first fetch of the tasks that
\* succeeds on, whatever events and failed fetches follow.  Before it is not a
\* number: either the first fetch of the tasks runs, or it failed.
TasksCounted ==
    IF nTasks = None
    THEN pc \notin {"main", "inject", "dead"} =>
            "task" \in unfetched \/ (pc = "fetch" /\ "task" \in pending)
    ELSE nTasks = Cardinality(CachedTasks)

\* What r was when the barrier was called, or something later.
Reached(r) ==
    CASE mark[r] = "live" -> cache'[r] # "absent" \/ db[r] = "gone"
      [] mark[r] = "done" -> cache'[r] = "done" \/ db[r] = "gone"
      [] mark[r] = "gone" -> cache'[r] = "absent" \/ r \in forgotten
      [] OTHER -> TRUE

Resolving == barrier = "waiting" /\ barrier' = "resolved"

\* A barrier resolved by an event: every event that precedes its call is in the
\* cache, for the types that could be fetched.
BarrierByEvents ==
    [][(Resolving /\ pc = "answered") => \A r \in Refs : Type(r) \notin unfetched => Reached(r)]_vars

\* index.mjs:658: "ensure we have received all events up to this call".
BarrierWaits == [][Resolving => \A r \in Refs : Reached(r)]_vars

Online == status = "connected" /\ session # None /\ typesKnown

\* Once the server and the network are quiet, the cache becomes what the server
\* has: the tasks even when no event tells their end, the others unless their
\* deletion was forgotten; a type that could not be fetched is the exception.
CacheConverges ==
    <>[](Online => \A r \in Refs :
            Type(r) \in unfetched \/ cache[r] = Visible(r) \/ (r \notin Tasks /\ r \in forgotten))

\* No watcher waits for a task that is done or deleted, nor for one that the
\* cache had and that disappeared.  The exception is a task that the cache never
\* had, deleted before a restart or before the objects are all fetched again.
WatchersSettle ==
    <>[](Online => \A t \in watchers :
            Visible(t) = "live" \/ "task" \in unfetched \/ t \in missed)

=============================================================================
