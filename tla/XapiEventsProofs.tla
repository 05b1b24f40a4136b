-------------------------- MODULE XapiEventsProofs --------------------------
(***************************************************************************)
(* No event is lost by the loop of XapiEvents, its count of the tasks is   *)
(* right, and a barrier that an event resolves follows what precedes it:   *)
(* proofs of NoEventLost, TasksCounted, BarrierByEvents and TypeOK.        *)
(***************************************************************************)
EXTENDS XapiEvents, FiniteSetTheorems, TLAPS

USE XapiEventsAssumption

States == {"absent", "live", "done"}

\* The part of TypeOK that the proofs use, and the types of mark.
CoreTypes ==
    /\ db \in [Refs -> {"new", "live", "done", "gone"}]
    /\ mark \in [Refs -> {"new", "live", "done", "gone"}]
    /\ stamp \in [Refs -> Nat]
    /\ clock \in Nat /\ token \in Nat
    /\ forgotten \subseteq Refs
    /\ cache \in [Refs -> States]
    /\ pending \subseteq Types /\ unfetched \subseteq Types

\* The last events are in the past, an object that is deleted stays so, and the
\* pool has the key of the barrier once it is called.
ServerInv ==
    /\ \A r \in Refs : stamp[r] <= clock
    /\ token <= clock
    /\ \A r \in forgotten : db[r] = "gone"
    /\ db[Pool] \in {"live", "done"}
    /\ barrier = "no" => db[Pool] = "live"

\* An object does not come back to what it was before the barrier.
MarkInv ==
    barrier = "waiting" => \A r \in Refs :
        /\ mark[r] = "live" => db[r] # "new"
        /\ mark[r] = "done" => db[r] \in {"done", "gone"}
        /\ mark[r] = "gone" => db[r] = "gone"

\* What the cache will hold of r once the answer is processed.
After(r) == IF r \in DOMAIN reply.events THEN reply.events[r] ELSE cache[r]

\* The answer has what happened before its token, and what precedes the barrier
\* if it has its key.
ReplyInv ==
    pc = "answered" =>
        /\ reply.token \in Nat /\ token <= reply.token /\ reply.token <= clock
        /\ DOMAIN reply.events \subseteq Refs
        /\ \A r \in DOMAIN reply.events : reply.events[r] \in States
        /\ \A r \in Refs :
              After(r) # Visible(r) /\ Type(r) \notin unfetched /\ r \notin forgotten
              => stamp[r] > reply.token
        /\ Pool \in DOMAIN reply.events /\ reply.events[Pool] = "done" =>
              /\ barrier # "no"
              /\ barrier = "waiting" => \A r \in Refs : Type(r) \notin unfetched =>
                    /\ mark[r] = "live" => After(r) # "absent" \/ db[r] = "gone"
                    /\ mark[r] = "done" => After(r) = "done" \/ db[r] = "gone"
                    /\ mark[r] = "gone" => After(r) = "absent" \/ r \in forgotten

Idle == pc \notin {"fetch", "refresh"} => pending = {}

IInv == CoreTypes /\ ServerInv /\ MarkInv /\ ReplyInv /\ Idle /\ NoEventLost /\ TasksCounted

-----------------------------------------------------------------------------

LEMMA TypeProperties ==
  /\ \A r : Type(r) \in Types
  /\ \A r \in Refs : Type(r) = "task" <=> r \in Tasks
  /\ Pool \in Refs
  BY DEF Type, Types, Refs

\* A number of tasks is not None.
LEMMA CountIsNumber ==
  ASSUME NEW T \in SUBSET Tasks
  PROVE  Cardinality(T) \in 0 .. Cardinality(Tasks) /\ Cardinality(T) # None
  BY FS_Subset, FS_CardinalityType

LEMMA InitInv == Init => IInv
<1>. SUFFICES ASSUME Init PROVE IInv
  OBVIOUS
<1>1. CoreTypes
  BY DEF Init, CoreTypes, States
<1>2. ServerInv
  <2>1. Pool \in Refs \ Tasks
    BY DEF Refs
  <2>. QED BY <2>1 DEF Init, ServerInv
<1>3. MarkInv /\ ReplyInv /\ Idle /\ NoEventLost
  BY DEF Init, MarkInv, ReplyInv, Idle, NoEventLost
<1>4. TasksCounted
  BY DEF Init, TasksCounted
<1>. QED BY <1>1, <1>2, <1>3, <1>4 DEF IInv

\* What the loop and the properties see of an action of the connection.
core == <<server, mark, cache, nTasks, barrier, loop>>

LEMMA CoreUnchanged ==
  ASSUME IInv, UNCHANGED core
  PROVE  IInv'
<1>. USE DEF IInv, core, server, loop
<1>1. CoreTypes' /\ ServerInv' /\ MarkInv' /\ Idle'
  BY DEF CoreTypes, ServerInv, MarkInv, Idle
<1>2. ReplyInv'
  BY DEF ReplyInv, After, Visible
<1>3. NoEventLost' /\ TasksCounted'
  BY DEF NoEventLost, TasksCounted, CachedTasks, Visible
<1>. QED BY <1>1, <1>2, <1>3

\* The actions of the connection and of the calls.
LEMMA ConnectionSteps ==
  ASSUME \/ Connect \/ UserDisconnect \/ Opening \/ OpenFails(FALSE)
         \/ \E c \in Callers : SessionError(c) \/ NetworkError(c)
         \/ UserCall \/ UserCallEnds
         \/ \E t \in Tasks : WatchTask(t)
         \/ UNCHANGED vars
  PROVE  UNCHANGED core
<1>. USE DEF core, vars, objects
<1>1. CASE Connect \/ UserDisconnect
  BY <1>1 DEF Connect, UserDisconnect
<1>2. CASE Opening \/ OpenFails(FALSE)
  BY <1>2 DEF Opening, Login, GetPool, ListTypes, OpenFails
<1>3. CASE \E c \in Callers : SessionError(c) \/ NetworkError(c)
  BY <1>3 DEF SessionError, RenewSession, SessionInvalid, NetworkError
<1>4. CASE UserCall \/ UserCallEnds
  BY <1>4 DEF UserCall, UserCallEnds
<1>5. CASE \E t \in Tasks : WatchTask(t)
  BY <1>5 DEF WatchTask
<1>6. CASE UNCHANGED vars
  BY <1>6
<1>. QED BY <1>1, <1>2, <1>3, <1>4, <1>5, <1>6

\* An event of the server comes after every token and answer.
LEMMA ChangeInv ==
  ASSUME IInv, NEW r \in Refs, NEW state \in {"live", "done", "gone"}, Change(r, state),
         db[r] # "gone",
         r = Pool => db[Pool] = "live" /\ state = "done" /\ barrier' # "no",
         db[r] = "live" => state # "live",
         db[r] = "done" => state = "gone",
         UNCHANGED <<forgotten, cache, nTasks, loop>>,
         \/ UNCHANGED <<mark, barrier>>
         \/ barrier = "no" /\ barrier' = "waiting" /\ mark' = db
  PROVE  IInv'
<1>. USE DEF IInv, loop
<1>1. /\ clock' = clock + 1
      /\ db' \in [Refs -> {"new", "live", "done", "gone"}] /\ stamp' \in [Refs -> Nat]
      /\ db'[r] = state /\ stamp'[r] = clock + 1
      /\ \A q \in Refs : q # r => db'[q] = db[q] /\ stamp'[q] = stamp[q] /\ Visible(q)' = Visible(q)
  BY DEF Change, CoreTypes, Visible
<1>2. r \notin forgotten
  BY DEF ServerInv
<1>3. CoreTypes'
  BY <1>1 DEF CoreTypes
<1>4. ServerInv'
  BY <1>1, <1>2, TypeProperties DEF ServerInv, CoreTypes
<1>5. MarkInv'
  BY <1>1 DEF MarkInv, CoreTypes
<1>6. ReplyInv'
  <2>1. SUFFICES ASSUME pc' = "answered" PROVE ReplyInv'
    BY DEF ReplyInv
  <2>2. pc = "answered" /\ \A q \in Refs : After(q)' = After(q)
    BY <2>1 DEF After
  <2>3. /\ reply'.token \in Nat /\ token' <= reply'.token /\ reply'.token <= clock'
        /\ DOMAIN reply'.events \subseteq Refs
        /\ \A q \in DOMAIN reply'.events : reply'.events[q] \in States
    BY <1>1, <2>2 DEF ReplyInv, CoreTypes
  <2>4. ASSUME NEW q \in Refs, After(q)' # Visible(q)', Type(q) \notin unfetched', q \notin forgotten'
        PROVE  stamp'[q] > reply'.token
    <3>1. CASE q = r
      BY <1>1, <2>2, <3>1 DEF ReplyInv, CoreTypes
    <3>2. CASE q # r
      BY <1>1, <2>2, <2>4, <3>2 DEF ReplyInv
    <3>. QED BY <3>1, <3>2
  <2>5. ASSUME Pool \in DOMAIN reply'.events, reply'.events[Pool] = "done"
        PROVE  /\ barrier' # "no"
               /\ barrier' = "waiting" => \A q \in Refs : Type(q) \notin unfetched' =>
                    /\ mark'[q] = "live" => After(q)' # "absent" \/ db'[q] = "gone"
                    /\ mark'[q] = "done" => After(q)' = "done" \/ db'[q] = "gone"
                    /\ mark'[q] = "gone" => After(q)' = "absent" \/ q \in forgotten'
    <3>1. barrier # "no" /\ UNCHANGED <<mark, barrier>>
      BY <2>2, <2>5 DEF ReplyInv
    <3>2. \A q \in Refs : db[q] = "gone" => db'[q] = "gone"
      BY <1>1
    <3>. QED BY <2>2, <2>5, <3>1, <3>2 DEF ReplyInv
  <2>. QED BY <2>3, <2>4, <2>5 DEF ReplyInv
<1>7. Idle' /\ TasksCounted'
  BY DEF Idle, TasksCounted, CachedTasks
<1>8. NoEventLost'
  <2>1. SUFFICES ASSUME pc \notin {"main", "inject", "dead"}, NEW q \in Refs,
                        cache[q] # Visible(q)', Type(q) \notin unfetched, q \notin forgotten,
                        pc = "fetch" => Type(q) \notin pending
                 PROVE  stamp'[q] > token
    BY DEF NoEventLost
  <2>2. CASE q = r
    BY <1>1, <2>2 DEF ServerInv, CoreTypes
  <2>3. CASE q # r
    BY <1>1, <2>1, <2>3 DEF NoEventLost
  <2>. QED BY <2>2, <2>3
<1>. QED BY <1>3, <1>4, <1>5, <1>6, <1>7, <1>8

LEMMA ServerSteps ==
  ASSUME IInv, (\E r \in Refs : ServerChange(r)) \/ Barrier
  PROVE  IInv'
<1>. USE DEF objects
<1>1. ASSUME NEW r \in Refs, ServerChange(r) PROVE IInv'
  <2>1. PICK state \in Successors(db[r]) : Change(r, state)
    BY <1>1 DEF ServerChange
  <2>2. /\ state \in {"live", "done", "gone"} /\ db[r] # "gone" /\ r # Pool
        /\ db[r] = "live" => state # "live"
        /\ db[r] = "done" => state = "gone"
    BY <1>1, <2>1 DEF ServerChange, Successors
  <2>. QED BY <1>1, <2>1, <2>2, ChangeInv DEF ServerChange
<1>2. CASE Barrier
  <2>1. db[Pool] = "live"
    BY <1>2 DEF Barrier, IInv, ServerInv
  <2>. QED BY <1>2, <2>1, ChangeInv, TypeProperties DEF Barrier
<1>. QED BY <1>1, <1>2

\* A restart forgets the deletions, those of the tasks that disappear included.
LEMMA RestartInv ==
  ASSUME IInv, NEW gone \in SUBSET Tasks, Restart(gone)
  PROVE  IInv'
<1>. USE DEF IInv, loop
<1>1. /\ UNCHANGED <<stamp, clock, loop, cache, nTasks, barrier, mark>>
      /\ db' \in [Refs -> {"new", "live", "done", "gone"}]
      /\ forgotten' = {r \in Refs : db'[r] = "gone"}
      /\ \A r \in Refs : db'[r] = "gone" \/ db'[r] = db[r]
      /\ \A r \in Refs : db[r] = "gone" => db'[r] = "gone"
  BY DEF Restart, CoreTypes
<1>2. db'[Pool] = db[Pool]
  BY TypeProperties DEF Restart, CoreTypes
<1>3. forgotten \subseteq forgotten'
  BY <1>1 DEF ServerInv, CoreTypes
<1>4. \A r \in Refs : r \notin forgotten' => Visible(r)' = Visible(r)
  BY <1>1 DEF Visible
<1>5. CoreTypes' /\ Idle' /\ TasksCounted'
  BY <1>1 DEF CoreTypes, Idle, TasksCounted, CachedTasks
<1>6. ServerInv'
  BY <1>1, <1>2 DEF ServerInv
<1>7. MarkInv'
  BY <1>1 DEF MarkInv
<1>8. ReplyInv'
  <2>1. \A r \in Refs : After(r)' = After(r)
    BY <1>1 DEF After
  <2>. QED BY <1>1, <1>3, <1>4, <2>1 DEF ReplyInv
<1>9. NoEventLost'
  BY <1>1, <1>3, <1>4 DEF NoEventLost
<1>. QED BY <1>5, <1>6, <1>7, <1>8, <1>9

-----------------------------------------------------------------------------
(* The loop. *)

\* The fetch that ends is that of a type whose changes the cache has, or that
\* counts as not fetched.
LEMMA FetchFailedInv ==
  ASSUME IInv, NEW type \in Types, FetchFailed(type)
  PROVE  IInv'
<1>. USE DEF IInv, server, objects, bounds, EndOfFetch
<1>1. /\ type \in pending /\ pending' = pending \ {type}
      /\ pc' = IF pending = {type} THEN "poll" ELSE pc
      /\ unfetched' = IF pc = "fetch" THEN unfetched \cup {type} ELSE unfetched
      /\ UNCHANGED <<server, cache, nTasks, barrier, mark, token, reply>>
  BY DEF FetchFailed
<1>2. pc \in {"fetch", "refresh"}
  BY <1>1 DEF Idle
<1>3. CoreTypes' /\ ServerInv' /\ MarkInv' /\ Idle' /\ TasksCounted'
  BY <1>1, <1>2 DEF CoreTypes, ServerInv, MarkInv, Idle, TasksCounted, CachedTasks
<1>4. ReplyInv'
  BY <1>1, <1>2 DEF ReplyInv
<1>5. NoEventLost'
  <2>1. SUFFICES ASSUME NEW r \in Refs, cache[r] # Visible(r), Type(r) \notin unfetched',
                        r \notin forgotten, pc' = "fetch" => Type(r) \notin pending'
                 PROVE  stamp[r] > token
    BY <1>1 DEF NoEventLost, Visible
  <2>2. Type(r) \notin unfetched /\ (pc = "fetch" => Type(r) \notin pending)
    BY <1>1, <1>2, <2>1
  <2>. QED BY <1>2, <2>1, <2>2 DEF NoEventLost
<1>. QED BY <1>3, <1>4, <1>5

\* The objects of a type are fetched: the cache has them as they are.
LEMMA FetchAnsweredInv ==
  ASSUME IInv, NEW type \in Types, FetchAnswered(type)
  PROVE  IInv'
<1>. USE DEF IInv, server
<1>. DEFINE records == Snapshot({r \in Refs : Type(r) = type})
            known   == {r \in Refs : Type(r) = type /\ cache[r] # "absent"}
<1>1. /\ type \in pending /\ pending' = pending \ {type}
      /\ pc' = IF pending = {type} THEN "poll" ELSE pc
      /\ unfetched' = unfetched \ {type}
      /\ UNCHANGED <<server, token, reply>>
      /\ UpdateCache(records, known \ DOMAIN records)
      /\ nTasks' = IF type = "task" THEN Cardinality(DOMAIN records) ELSE nTasks
  BY DEF FetchAnswered, EndOfFetch, KeepToken
<1>2. pc \in {"fetch", "refresh"}
  BY <1>1 DEF Idle
<1>3. /\ DOMAIN records = {r \in Refs : Type(r) = type /\ Visible(r) # "absent"}
      /\ \A r \in DOMAIN records : records[r] = Visible(r)
  BY DEF Snapshot
<1>4. \A r \in Refs : Visible(r) \in States
  BY DEF Visible, States
<1>5. \A r \in Refs : cache'[r] = IF Type(r) = type THEN Visible(r) ELSE cache[r]
  <2>1. \A r \in Refs : cache'[r] = IF r \in DOMAIN records THEN records[r]
                                    ELSE IF r \in known \ DOMAIN records THEN "absent" ELSE cache[r]
    BY <1>1 DEF UpdateCache
  <2>. QED BY <1>3, <2>1
<1>6. \/ UNCHANGED <<barrier, mark>>
      \/ barrier = "waiting" /\ barrier' = "resolved" /\ mark' = [r \in Refs |-> "new"]
  BY <1>1 DEF UpdateCache
<1>7. CoreTypes'
  <2>1. cache' \in [Refs -> States]
    <3>1. DOMAIN cache' = Refs /\ cache' = [r \in Refs |-> cache'[r]]
      BY <1>1 DEF UpdateCache
    <3>. QED BY <3>1, <1>4, <1>5 DEF CoreTypes
  <2>. QED BY <1>1, <1>6, <2>1 DEF CoreTypes
<1>8. ServerInv' /\ MarkInv' /\ Idle'
  BY <1>1, <1>2, <1>6 DEF ServerInv, MarkInv, Idle
<1>9. ReplyInv'
  BY <1>1, <1>2 DEF ReplyInv
<1>10. NoEventLost'
  <2>1. SUFFICES ASSUME NEW r \in Refs, cache'[r] # Visible(r), Type(r) \notin unfetched',
                        r \notin forgotten, pc' = "fetch" => Type(r) \notin pending'
                 PROVE  stamp[r] > token
    BY <1>1 DEF NoEventLost, Visible
  <2>2. Type(r) # type /\ cache'[r] = cache[r]
    BY <1>5, <2>1
  <2>3. Type(r) \notin unfetched /\ (pc = "fetch" => Type(r) \notin pending)
    BY <1>1, <1>2, <2>1, <2>2
  <2>. QED BY <1>2, <2>1, <2>2, <2>3 DEF NoEventLost
<1>11. TasksCounted'
  <2>1. CASE type = "task"
    <3>1. DOMAIN records = CachedTasks'
      BY <1>3, <1>5, <2>1, TypeProperties DEF Refs, CachedTasks
    <3>2. nTasks' = Cardinality(CachedTasks') /\ nTasks' # None
      BY <1>1, <2>1, <3>1, CountIsNumber DEF CachedTasks
    <3>. QED BY <3>2 DEF TasksCounted
  <2>2. CASE type # "task"
    <3>1. \A t \in Tasks : cache'[t] = cache[t]
      BY <1>5, <2>2, TypeProperties DEF Refs
    <3>2. CachedTasks' = CachedTasks /\ nTasks' = nTasks
      BY <1>1, <2>2, <3>1 DEF CachedTasks
    <3>. QED BY <1>1, <1>2, <2>2, <3>2 DEF TasksCounted, Types
  <2>. QED BY <2>1, <2>2
<1>. QED BY <1>7, <1>8, <1>9, <1>10, <1>11

\* The server answers with the changes that follow the token: what is not in the
\* answer is in the cache.
LEMMA EventsAnsweredInv ==
  ASSUME IInv, EventsAnswered
  PROVE  IInv'
<1>. USE DEF IInv, server, objects
<1>1. /\ pc = "from" /\ pc' = "answered"
      /\ UNCHANGED <<server, token, pending, unfetched, cache, nTasks, barrier, mark>>
      /\ reply'.token = clock
      /\ reply'.events = [r \in Changed |-> Visible(r)]
  BY DEF EventsAnswered
<1>2. CoreTypes' /\ ServerInv' /\ MarkInv' /\ Idle' /\ TasksCounted'
  BY <1>1 DEF CoreTypes, ServerInv, MarkInv, Idle, TasksCounted, CachedTasks
<1>3. NoEventLost'
  BY <1>1 DEF NoEventLost, Visible
<1>4. DOMAIN reply'.events = Changed /\ \A r \in Changed : reply'.events[r] = Visible(r)
  BY <1>1
<1>5. ASSUME NEW r \in Refs, Type(r) \notin unfetched, r \notin forgotten
      PROVE  After(r)' = Visible(r)
  <2>1. CASE r \in Changed
    BY <1>4, <2>1 DEF After
  <2>2. CASE r \notin Changed
    <3>1. ~(stamp[r] > token)
      BY <1>5, <2>2 DEF Changed
    <3>2. cache[r] = Visible(r)
      BY <1>1, <1>5, <3>1 DEF NoEventLost
    <3>. QED BY <1>1, <1>4, <2>2, <3>2 DEF After
  <2>. QED BY <2>1, <2>2
<1>6. ReplyInv'
  <2>1. reply'.token \in Nat /\ token' <= reply'.token /\ reply'.token <= clock'
    BY <1>1 DEF CoreTypes, ServerInv
  <2>2. DOMAIN reply'.events \subseteq Refs /\ \A r \in DOMAIN reply'.events : reply'.events[r] \in States
    BY <1>4 DEF Changed, Visible, States
  <2>3. \A r \in Refs : Type(r) \notin unfetched' /\ r \notin forgotten' => After(r)' = Visible(r)'
    BY <1>1, <1>5 DEF Visible
  <2>4. ASSUME Pool \in DOMAIN reply'.events, reply'.events[Pool] = "done" PROVE barrier' # "no"
    BY <1>1, <1>4, <2>4 DEF ServerInv, Visible
  <2>5. ASSUME barrier' = "waiting", NEW r \in Refs, Type(r) \notin unfetched'
        PROVE  /\ mark'[r] = "live" => After(r)' # "absent" \/ db'[r] = "gone"
               /\ mark'[r] = "done" => After(r)' = "done" \/ db'[r] = "gone"
               /\ mark'[r] = "gone" => After(r)' = "absent" \/ r \in forgotten'
    <3>1. CASE r \in forgotten
      BY <1>1, <3>1 DEF ServerInv
    <3>2. CASE r \notin forgotten
      <4>1. After(r)' = Visible(r)
        BY <1>1, <1>5, <2>5, <3>2
      <4>. QED BY <1>1, <2>5, <4>1 DEF MarkInv, Visible, CoreTypes
    <3>. QED BY <3>1, <3>2
  <2>. QED BY <2>1, <2>2, <2>3, <2>4, <2>5 DEF ReplyInv
<1>. QED BY <1>2, <1>3, <1>6

\* The tasks that appear are added to the count, those that disappear removed
\* from it, by what the cache had.
LEMMA Counted ==
  ASSUME NEW Old, NEW Added, NEW Removed, IsFiniteSet(Old), IsFiniteSet(Added),
         Added \cap Old = {}, Removed \subseteq Old
  PROVE  Cardinality((Old \ Removed) \cup Added) = Cardinality(Old) + Cardinality(Added) - Cardinality(Removed)
<1>1. IsFiniteSet(Removed) /\ IsFiniteSet(Old \ Removed)
  BY FS_Subset
<1>2. Cardinality(Old) = Cardinality(Old \ Removed) + Cardinality(Removed) - Cardinality({})
  <2>1. Old = (Old \ Removed) \cup Removed /\ (Old \ Removed) \cap Removed = {}
    OBVIOUS
  <2>. QED BY <1>1, <2>1, FS_Union
<1>3. Cardinality((Old \ Removed) \cup Added)
        = Cardinality(Old \ Removed) + Cardinality(Added) - Cardinality({})
  <2>1. (Old \ Removed) \cap Added = {}
    OBVIOUS
  <2>. QED BY <1>1, <2>1, FS_Union
<1>4. /\ Cardinality({}) = 0
      /\ Cardinality(Old \ Removed) \in Nat /\ Cardinality(Removed) \in Nat /\ Cardinality(Added) \in Nat
  BY <1>1, FS_EmptySet, FS_CardinalityType
<1>. QED BY <1>2, <1>3, <1>4

LEMMA ProcessEventsInv ==
  ASSUME IInv, ProcessEvents
  PROVE  IInv'
<1>. USE DEF IInv, server
<1>. DEFINE events  == reply.events
            removed == {r \in DOMAIN events : events[r] = "absent"}
            records == [r \in DOMAIN events \ removed |-> events[r]]
<1>1. /\ pc = "answered" /\ token' = reply.token /\ UNCHANGED <<server, unfetched>>
      /\ UpdateCache(records, removed)
      /\ nTasks' = CountTasks(records, removed)
      /\ \/ pc' = "refresh" /\ pending' = {"task"}
         \/ pc' = "poll" /\ UNCHANGED pending
  BY DEF ProcessEvents
<1>2. DOMAIN records = DOMAIN events \ removed /\ \A r \in DOMAIN records : records[r] = events[r]
  OBVIOUS
<1>3. \A r \in Refs : cache'[r] = After(r)
  <2>1. \A r \in Refs : cache'[r] = IF r \in DOMAIN records THEN records[r]
                                    ELSE IF r \in removed THEN "absent" ELSE cache[r]
    BY <1>1 DEF UpdateCache
  <2>. QED BY <1>2, <2>1 DEF After
<1>4. \/ UNCHANGED <<barrier, mark>>
      \/ barrier = "waiting" /\ barrier' = "resolved" /\ mark' = [r \in Refs |-> "new"]
  BY <1>1 DEF UpdateCache
<1>5. CoreTypes'
  <2>1. cache' \in [Refs -> States]
    <3>1. cache' = [r \in Refs |-> cache'[r]]
      BY <1>1 DEF UpdateCache
    <3>2. \A r \in Refs : After(r) \in States
      BY <1>1 DEF ReplyInv, After, CoreTypes
    <3>. QED BY <1>3, <3>1, <3>2
  <2>. QED BY <1>1, <1>4, <2>1 DEF CoreTypes, ReplyInv, Types
<1>6. ServerInv' /\ MarkInv' /\ Idle' /\ ReplyInv'
  BY <1>1, <1>4 DEF ServerInv, MarkInv, Idle, ReplyInv
<1>7. NoEventLost'
  <2>1. SUFFICES ASSUME NEW r \in Refs, cache'[r] # Visible(r), Type(r) \notin unfetched, r \notin forgotten
                 PROVE  stamp[r] > token'
    BY <1>1 DEF NoEventLost, Visible
  <2>. QED BY <1>1, <1>3, <2>1 DEF ReplyInv
<1>8. TasksCounted'
  <2>. DEFINE Old     == CachedTasks
              New     == Appeared(records)
              Removed == {t \in Tasks \cap removed : cache[t] # "absent"}
  <2>1. CachedTasks' = (Old \ Removed) \cup New
    <3>1. \A t \in Tasks : t \in Refs
      BY DEF Refs
    <3>. QED BY <1>2, <1>3, <3>1 DEF After, CachedTasks, Appeared
  <2>2. IsFiniteSet(Old) /\ IsFiniteSet(New) /\ New \cap Old = {} /\ Removed \subseteq Old
    BY FS_Subset DEF CachedTasks, Appeared
  <2>3. CASE nTasks = None
    <3>1. nTasks' = None /\ "task" \in unfetched
      BY <1>1, <2>3 DEF CountTasks, TasksCounted
    <3>. QED BY <1>1, <3>1 DEF TasksCounted
  <2>4. CASE nTasks # None
    <3>1. nTasks' = Cardinality(Old) + Cardinality(New) - Cardinality(Removed)
      BY <1>1, <2>4 DEF CountTasks, TasksCounted, Appeared
    <3>. HIDE DEF Old, New, Removed
    <3>2. nTasks' = Cardinality(CachedTasks')
      BY <2>1, <2>2, <3>1, Counted
    <3>. QED BY <3>2, CountIsNumber DEF TasksCounted, CachedTasks
  <2>. QED BY <2>3, <2>4
<1>. QED BY <1>5, <1>6, <1>7, <1>8

\* The other steps of the loop leave the cache alone.
LEMMA LoopInv ==
  ASSUME IInv,
         \/ Inject \/ InjectAnswered \/ InjectFailed \/ Poll \/ SessionLost \/ PollFailed \/ EventsLost
  PROVE  IInv'
<1>. USE DEF IInv, server, objects
<1>1. ASSUME UNCHANGED <<server, token, pending, unfetched, cache, nTasks, barrier, mark>>,
             pc \notin {"fetch", "refresh", "answered"},
             \/ pc' \in {"main", "inject"}
             \/ pc' \in {"poll", "from"} /\ pc \in {"poll", "from"}
      PROVE  IInv'
  <2>1. CoreTypes' /\ ServerInv' /\ MarkInv' /\ Idle' /\ TasksCounted' /\ ReplyInv'
    BY <1>1 DEF CoreTypes, ServerInv, MarkInv, Idle, TasksCounted, CachedTasks, ReplyInv
  <2>2. NoEventLost'
    BY <1>1 DEF NoEventLost, Visible
  <2>. QED BY <2>1, <2>2
<1>2. CASE Inject \/ InjectFailed \/ Poll \/ SessionLost \/ PollFailed \/ EventsLost
  BY <1>1, <1>2 DEF Inject, InjectFailed, Poll, SessionLost, PollFailed, EventsLost
<1>3. CASE InjectAnswered
  <2>1. /\ UNCHANGED <<server, unfetched, cache, nTasks, barrier, mark>>
        /\ token' = clock
        /\ pc = "inject"
        /\ \/ pc' = "fetch" /\ pending' = Types
           \/ pc' = "dead" /\ UNCHANGED pending
    BY <1>3 DEF InjectAnswered
  <2>2. CoreTypes' /\ ServerInv' /\ MarkInv' /\ Idle' /\ ReplyInv'
    BY <2>1 DEF CoreTypes, ServerInv, MarkInv, Idle, ReplyInv
  <2>4. TasksCounted'
    <3>1. "task" \in Types
      BY DEF Types
    <3>. QED BY <2>1, <3>1 DEF TasksCounted, CachedTasks
  <2>3. NoEventLost'
    BY <2>1, TypeProperties DEF NoEventLost
  <2>. QED BY <2>2, <2>3, <2>4
<1>. QED BY <1>2, <1>3

LEMMA NextInv == IInv /\ [Next]_vars => IInv'
<1>. SUFFICES ASSUME IInv, [Next]_vars PROVE IInv'
  OBVIOUS
<1>1. ASSUME NEW type \in Types, Fetch(type) PROVE IInv'
  BY <1>1, FetchFailedInv, FetchAnsweredInv DEF Fetch
<1>2. CASE Loop \/ EventsLost
  BY <1>2, LoopInv, EventsAnsweredInv, ProcessEventsInv DEF Loop
<1>3. CASE ~(Loop \/ EventsLost) /\ ~(\E type \in Types : Fetch(type))
  <2>1. CASE (\E r \in Refs : ServerChange(r)) \/ Barrier
    BY <2>1, ServerSteps
  <2>2. CASE \E gone \in SUBSET Tasks : Restart(gone)
    BY <2>2, RestartInv
  <2>3. CASE UNCHANGED core
    BY <2>3, CoreUnchanged
  <2>. QED BY <1>3, <2>1, <2>2, <2>3, ConnectionSteps DEF Next
<1>. QED BY <1>1, <1>2, <1>3

LEMMA Inductive == Spec => []IInv
  BY InitInv, NextInv, PTL DEF Spec

-----------------------------------------------------------------------------
(* The types of the connection. *)

Calling == [Callers -> {"idle", "sent", "renewing", "resent", "failed"}]
Using   == [Callers -> {None, "good", "bad"}]

\* The part of TypeOK that is not in IInv.
TypeInv ==
    /\ clock <= MaxEvents
    /\ status \in {"disconnected", "connecting", "connected"}
    /\ session \in {None, "good", "bad"}
    /\ connecting \in BOOLEAN
    /\ opening \in {"no", "login", "pool", "types"}
    /\ poolKnown \in BOOLEAN /\ typesKnown \in BOOLEAN
    /\ call \in Calling /\ using \in Using
    /\ pc \in {"main", "inject", "fetch", "poll", "from", "answered", "refresh", "dead"}
    /\ watchers \subseteq Tasks
    /\ barrier \in {"no", "waiting", "resolved"}
    /\ missed \subseteq Tasks
    /\ opening = "no" => ~connecting /\ \A c \in Callers : call[c] # "renewing"

\* A call that is made or that ends is well-typed, and does not wait for a session.
LEMMA SendTypes ==
  ASSUME TypeInv, NEW C, Send(C)
  PROVE  call' \in Calling /\ using' \in Using
         /\ \A c \in Callers : call'[c] = "renewing" => call[c] = "renewing"
  BY DEF TypeInv, Send, Sent, Calling, Using

LEMMA SettleTypes ==
  ASSUME TypeInv, NEW c \in Callers, NEW result \in {"idle", "failed", "renewing"}, Settle(c, result)
  PROVE  call' \in Calling /\ using' \in Using
         /\ \A d \in Callers : call'[d] = "renewing" => call[d] = "renewing" \/ result = "renewing"
  BY DEF TypeInv, Settle, Calling, Using

LEMMA CallerTypes == "loop" \in Callers /\ "user" \in Callers /\ Types \subseteq Callers
  BY DEF Callers

LEMMA ServerTypes ==
  ASSUME TypeInv, IInv,
         \/ \E r \in Refs : ServerChange(r)
         \/ \E gone \in SUBSET Tasks : Restart(gone)
         \/ Barrier
  PROVE  TypeInv'
<1>. USE DEF connection, calls, loop, objects
<1>1. CASE \E r \in Refs : ServerChange(r)
  BY <1>1 DEF ServerChange, Change, TypeInv, IInv, CoreTypes
<1>2. ASSUME NEW gone \in SUBSET Tasks, Restart(gone) PROVE TypeInv'
  BY <1>2 DEF Restart, TypeInv, Unseen, Calling, Using, InFlight
<1>3. CASE Barrier
  BY <1>3 DEF Barrier, Change, TypeInv, IInv, CoreTypes
<1>. QED BY <1>1, <1>2, <1>3

LEMMA OpeningTypes ==
  ASSUME TypeInv,
         Connect \/ UserDisconnect \/ Opening \/ OpenFails(FALSE)
  PROVE  TypeInv'
<1>. USE DEF server, calls, loop, objects, TypeInv, Calling, Using
<1>1. CASE Connect
  BY <1>1 DEF Connect, OpenSession
<1>2. CASE UserDisconnect
  <2>1. PICK s \in {"good", "bad"} :
          /\ status' = "disconnected" /\ session' = None
          /\ \/ /\ opening' = "no" /\ connecting' = FALSE
                /\ call' = [c \in Callers |-> IF call[c] = "renewing" THEN "failed" ELSE call[c]]
             \/ UNCHANGED <<opening, connecting, call>>
          /\ using' = [c \in Callers |-> IF using[c] = "good" THEN s ELSE using[c]]
    BY <1>2, Zenon DEF UserDisconnect, Disconnect
  <2>2. /\ call' \in Calling /\ using' \in Using
        /\ call' = call \/ \A c \in Callers : call'[c] # "renewing"
    BY <2>1
  <2>3. connecting' \in BOOLEAN /\ (opening' = "no" => ~connecting')
    <3>1. CASE opening' = "no" /\ connecting' = FALSE
      BY <3>1, Zenon
    <3>2. CASE UNCHANGED <<opening, connecting>>
      BY <3>2
    <3>. QED BY <2>1, <3>1, <3>2
  <2>4. opening' = "no" => \A c \in Callers : call'[c] # "renewing"
    <3>1. CASE UNCHANGED <<opening, connecting, call>>
      BY <3>1
    <3>2. CASE call' = [c \in Callers |-> IF call[c] = "renewing" THEN "failed" ELSE call[c]]
      BY <3>2
    <3>. QED BY <2>1, <3>1, <3>2
  <2>. QED BY <1>2, <2>1, <2>2, <2>3, <2>4 DEF UserDisconnect
<1>3. CASE Login
  BY <1>3 DEF Login
<1>4. ASSUME Opened, session \in {"good", None}, UNCHANGED session PROVE
        /\ opening' = "no" /\ connecting' = FALSE /\ status' \in {"connected", status}
        /\ call' \in Calling /\ using' \in Using /\ \A c \in Callers : call'[c] # "renewing"
  BY <1>4 DEF Opened, Resume
<1>6. CASE GetPool
  BY <1>4, <1>6, ZenonT(30) DEF GetPool
<1>7. CASE ListTypes
  BY <1>7 DEF ListTypes, Opened, Resume
<1>5. ASSUME NEW invalid \in BOOLEAN, OpenFails(invalid) PROVE TypeInv'
  BY <1>5 DEF OpenFails, Resume
<1>. QED BY <1>1, <1>2, <1>3, <1>5, <1>6, <1>7 DEF Opening

LEMMA CallTypes ==
  ASSUME TypeInv,
         \/ \E c \in Callers : SessionError(c) \/ NetworkError(c)
         \/ UserCall \/ UserCallEnds
         \/ \E t \in Tasks : WatchTask(t)
  PROVE  TypeInv'
<1>. USE DEF server, connection, calls, loop, objects
<1>1. ASSUME NEW c \in Callers, RenewSession(c) PROVE TypeInv'
  BY <1>1, SettleTypes DEF RenewSession, OpenSession, TypeInv
<1>2. ASSUME NEW c \in Callers, SessionInvalid(c) PROVE TypeInv'
  <2>1. CASE status = "disconnected"
    BY <1>2, <2>1, SettleTypes DEF SessionInvalid, TypeInv
  <2>2. CASE status # "disconnected"
    BY <1>2, <2>2, ZenonT(30) DEF SessionInvalid, TypeInv, Calling, Using
  <2>. QED BY <2>1, <2>2
<1>3. ASSUME NEW c \in Callers, NetworkError(c) PROVE TypeInv'
  BY <1>3, SettleTypes DEF NetworkError, TypeInv
<1>4. CASE UserCall
  BY <1>4, SendTypes DEF UserCall, TypeInv
<1>5. CASE UserCallEnds
  BY <1>5, SettleTypes, CallerTypes DEF UserCallEnds, TypeInv
<1>6. CASE \E t \in Tasks : WatchTask(t)
  BY <1>6 DEF WatchTask, TypeInv
<1>. QED BY <1>1, <1>2, <1>3, <1>4, <1>5, <1>6 DEF SessionError

LEMMA LoopTypes ==
  ASSUME TypeInv, Loop \/ EventsLost \/ \E type \in Types : Fetch(type)
  PROVE  TypeInv'
<1>. USE DEF server, connection, objects, calls
<1>1. CASE Inject
  BY <1>1, SendTypes DEF Inject, TypeInv
<1>2. CASE InjectAnswered
  <2>1. /\ UNCHANGED <<server, connection, watchers, barrier>> /\ missed' \subseteq Tasks
        /\ pc' \in {"fetch", "dead"}
    BY <1>2 DEF InjectAnswered, TypeInv, Unseen
  <2>2. /\ call' \in Calling /\ using' \in Using
        /\ \A c \in Callers : call'[c] = "renewing" => call[c] = "renewing"
    <3>1. CASE typesKnown
      BY <1>2, <3>1 DEF InjectAnswered, TypeInv, Calling, Using, Sent
    <3>2. CASE ~typesKnown
      BY <1>2, <3>2, SettleTypes, CallerTypes DEF InjectAnswered
    <3>. QED BY <3>1, <3>2
  <2>. QED BY <2>1, <2>2 DEF TypeInv
<1>3. CASE InjectFailed \/ EventsAnswered \/ SessionLost \/ PollFailed \/ EventsLost
  BY <1>3, SettleTypes, CallerTypes
     DEF InjectFailed, EventsAnswered, SessionLost, PollFailed, EventsLost, TypeInv
<1>4. CASE Poll
  BY <1>4 DEF Poll, TypeInv, Calling, Using
<1>5. CASE ProcessEvents
  <2>1. CASE TasksDisappeared
    BY <1>5, <2>1, SendTypes DEF ProcessEvents, UpdateCache, StillWatched, TypeInv
  <2>2. CASE ~TasksDisappeared
    BY <1>5, <2>2 DEF ProcessEvents, UpdateCache, StillWatched, TypeInv
  <2>. QED BY <2>1, <2>2
<1>6. ASSUME NEW type \in Types, Fetch(type) PROVE TypeInv'
  <2>1. type \in Callers
    BY CallerTypes
  <2>. QED BY <1>6, <2>1, SettleTypes
       DEF Fetch, FetchAnswered, FetchFailed, EndOfFetch, UpdateCache, StillWatched, TypeInv
<1>. QED BY <1>1, <1>2, <1>3, <1>4, <1>5, <1>6 DEF Loop

LEMMA TypesInductive == Spec => []TypeInv
<1>1. Init => TypeInv
  <2>1. Init => connecting \in BOOLEAN /\ poolKnown \in BOOLEAN /\ typesKnown \in BOOLEAN /\ ~connecting
    BY Zenon DEF Init
  <2>. QED BY <2>1 DEF Init, TypeInv, Calling, Using
<1>2. IInv /\ TypeInv /\ [Next]_vars => TypeInv'
  <2>. SUFFICES ASSUME IInv, TypeInv, [Next]_vars PROVE TypeInv'
    OBVIOUS
  <2>1. CASE UNCHANGED vars
    BY <2>1 DEF TypeInv, vars, server, connection, calls, loop, objects
  <2>. QED BY <2>1, ServerTypes, OpeningTypes, CallTypes, LoopTypes DEF Next
<1>. QED BY <1>1, <1>2, Inductive, PTL DEF Spec

-----------------------------------------------------------------------------

\* The client's state has the types its code relies on; a call waits for a
\* session, and connect() is pending, only while _sessionOpen() runs.
THEOREM TypeCorrect == Spec => []TypeOK
<1>1. IInv /\ TypeInv => TypeOK
  <2>. SUFFICES ASSUME IInv, TypeInv PROVE TypeOK
    OBVIOUS
  <2>1. nTasks \in 0 .. Cardinality(Tasks) \cup {None}
    <3>1. CachedTasks \in SUBSET Tasks
      BY DEF CachedTasks
    <3>. QED BY <3>1, CountIsNumber DEF IInv, TasksCounted
  <2>2. stamp \in [Refs -> 0 .. MaxEvents] /\ clock \in 0 .. MaxEvents /\ token \in 0 .. MaxEvents
    BY DEF IInv, CoreTypes, ServerInv, TypeInv
  <2>. QED BY <2>1, <2>2 DEF IInv, CoreTypes, TypeInv, TypeOK, States, Calling, Using
<1>. QED BY <1>1, Inductive, TypesInductive, PTL

\* No change of an object is lost between the fetches and the events of
\* _watchEvents(), with any number of objects, events, faults and connections.
THEOREM EventsKept == Spec => []NoEventLost
<1>1. IInv => NoEventLost
  BY DEF IInv
<1>. QED BY <1>1, Inductive, PTL

\* Once a fetch of the tasks succeeded, _nTasks is the number of the tasks in the
\* cache, whatever fetches and events follow: a difference with the server means
\* that one disappeared.  Before, it is not a number and the tasks are to be fetched.
THEOREM CountCorrect == Spec => []TasksCounted
<1>1. IInv => TasksCounted
  BY DEF IInv
<1>. QED BY <1>1, Inductive, PTL

\* When an event resolves barrier(), the cache has what precedes its call.
THEOREM BarrierFollows == Spec => BarrierByEvents
<1>1. IInv /\ [Next]_vars =>
        [(Resolving /\ pc = "answered") => \A r \in Refs : Type(r) \notin unfetched => Reached(r)]_vars
  <2>1. SUFFICES ASSUME IInv, Next, Resolving, pc = "answered", NEW r \in Refs, Type(r) \notin unfetched
                 PROVE  Reached(r)
    OBVIOUS
  <2>2. ProcessEvents
    <3>1. ~UNCHANGED core
      BY <2>1 DEF Resolving, core
    <3>2. ASSUME NEW type \in Types, Fetch(type) PROVE FALSE
      BY <2>1, <3>2 DEF Fetch, FetchAnswered, FetchFailed, IInv, Idle
    <3>3. CASE Loop \/ EventsLost
      BY <2>1, <3>3
         DEF Loop, Inject, InjectAnswered, InjectFailed, Poll, EventsAnswered, SessionLost, PollFailed, EventsLost
    <3>4. CASE (\E q \in Refs : ServerChange(q)) \/ (\E gone \in SUBSET Tasks : Restart(gone)) \/ Barrier
      BY <2>1, <3>4 DEF ServerChange, Restart, Barrier, Resolving, objects
    <3>. QED BY <2>1, <3>1, <3>2, <3>3, <3>4, ConnectionSteps DEF Next
  <2>. DEFINE events  == reply.events
              removed == {q \in DOMAIN events : events[q] = "absent"}
              records == [q \in DOMAIN events \ removed |-> events[q]]
  <2>3. UpdateCache(records, removed) /\ UNCHANGED <<db, forgotten>>
    BY <2>2 DEF ProcessEvents, server
  <2>4. cache'[r] = After(r)
    BY <2>3 DEF UpdateCache, After
  <2>5. barrier = "waiting" /\ Pool \in DOMAIN reply.events /\ reply.events[Pool] = "done"
    BY <2>1, <2>3 DEF UpdateCache, Resolving
  <2>6. /\ mark[r] = "live" => After(r) # "absent" \/ db[r] = "gone"
        /\ mark[r] = "done" => After(r) = "done" \/ db[r] = "gone"
        /\ mark[r] = "gone" => After(r) = "absent" \/ r \in forgotten
    BY <2>1, <2>5 DEF IInv, ReplyInv
  <2>7. mark[r] \in {"new", "live", "done", "gone"}
    BY <2>1 DEF IInv, CoreTypes
  <2>. QED BY <2>4, <2>6, <2>7 DEF Reached
<1>. QED BY <1>1, Inductive, PTL DEF Spec, BarrierByEvents

=============================================================================
