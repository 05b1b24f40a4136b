------------------------------ MODULE AuditLog ------------------------------
(***************************************************************************)
(* The audit log: a hash chain of records in a key-value store             *)
(* (@xen-orchestra/audit-core and packages/xo-server-audit).               *)
(*                                                                         *)
(* The id of a record is the hash of what it contains, the id of the       *)
(* record before it included: it is modelled by the sequence of the events *)
(* up to this one, so that a record is its id, and the empty sequence is   *)
(* NULL_ID.  The store is the set of its records and `last', the lastId.   *)
(*                                                                         *)
(* add(), deleteRangeAndRewrite() and the import wait for the lock, a chain *)
(* of promises: the queue, whose head holds it.  clean() and               *)
(* checkIntegrity() do not.                                                *)
(***************************************************************************)
EXTENDS Integers, Sequences

CONSTANTS
    Events,      \* what may be recorded, each once: an event has its time and call
    File,        \* the records of the file to import, the id of the newest
    None,        \* no lastId
    MaxCalls,    \* bound: calls of deleteRange, importRecords, clean and checkIntegrity
    MaxFailures  \* bound: failures of the store, and crashes of xo-server

ASSUME AuditLogAssumption ==
    /\ File \in Seq(Events) /\ \A i, j \in 1 .. Len(File) : i # j => File[i] # File[j]
    /\ None \notin Seq(Events)

Null == <<>>
Previous(id) == SubSeq(id, 1, Len(id) - 1)
Event(id) == id[Len(id)]

\* The records that getFrom(id) yields when none is missing.
Chain(id) == {SubSeq(id, 1, n) : n \in 1 .. Len(id)}

\* The calls of clean(): of the API, of an import that undoes what it did, and
\* what goes on of the latter once it was rejected.
Cleaners == {"api", "import", "stray"}

VARIABLES
    db,        \* the records
    last,      \* lastId
    queue,     \* the calls that wait for the lock, its holder first
    step,      \* what the holder does next: "start" until it has the lock
    previous,  \* the previousId of the record that is added
    at,        \* the record that is read, deleted or imported
    recent,    \* deleteRangeAndRewrite(): recentRecords
    cleaning,  \* cleaning[c]: "idle", "open" or "sweep"
    doomed,    \* doomed[c]: the keys that remain to delete, None for lastId
    check,     \* checkIntegrity(): where it is, newest, the record it reads
    asked,     \* the events that happened, those of the file elsewhere
    calls,     \* the number of those calls so far
    failures,  \* the number of those failures so far
    stored,    \* history: the events of the records put that nobody asked to delete
    broken     \* history: what may have broken the chain since it was cleaned: a
               \* "rewrite" or an "import" that stopped, a "clean" beside the lock, a
               \* "range" that had left the chain

store == <<db, last>>
holder == <<queue, step, previous, at, recent>>
clean == <<cleaning, doomed>>
history == <<stored, broken>>
vars == <<store, holder, clean, check, asked, calls, failures, history>>

NoCheck == [pc |-> "idle", newest |-> Null, at |-> Null, calm |-> FALSE]

Init ==
    /\ db = {} /\ last = None
    /\ queue = <<>> /\ step = "start" /\ previous = Null /\ at = Null /\ recent = <<>>
    /\ cleaning = [c \in Cleaners |-> "idle"]
    /\ doomed = [c \in Cleaners |-> {}]
    /\ check = NoCheck
    /\ asked = {File[i] : i \in DOMAIN File}
    /\ calls = 0 /\ failures = 0
    /\ stored = {} /\ broken = {}

Fault ==
    /\ failures < MaxFailures
    /\ failures' = failures + 1
    /\ UNCHANGED calls

\* The holder is between two states of the chain.
Deleting == step # "start" /\ Head(queue).op = "delete"
Rewriting == step \in {"delete", "cut"}

\* lastId is there and the records before it are not yet all there.
Importing ==
    /\ at # Null
    /\ step = "next" \/ (step = "clean" /\ last # None)

Alarming == check' = [check EXCEPT !.calm = FALSE]

-----------------------------------------------------------------------------
(* The calls *)

Another == calls < MaxCalls /\ calls' = calls + 1 /\ UNCHANGED failures

Call(call) ==
    /\ queue' = Append(queue, call)
    /\ UNCHANGED <<store, step, previous, at, recent, clean, check, history>>

\* _handleEvent(): an event happens once.
Add(e) ==
    /\ e \notin asked
    /\ asked' = asked \cup {e}
    /\ Call([op |-> "add", event |-> e])
    /\ UNCHANGED <<calls, failures>>

\* deleteRange: of two records that were listed, from newest to oldest.
DeleteRange(newest, oldest) ==
    /\ Another
    /\ Call([op |-> "delete", newest |-> newest, oldest |-> oldest])
    /\ UNCHANGED asked

Listed ==
    IF last = None THEN {} ELSE {id \in Chain(last) : Chain(last) \ Chain(Previous(id)) \subseteq db}

ImportRecords ==
    /\ Another
    /\ db = {} /\ last = None
    /\ Call([op |-> "import"])
    /\ UNCHANGED asked

Working(s) == queue # <<>> /\ step = s

Release ==
    /\ queue' = Tail(queue)
    /\ step' = "start"
    /\ previous' = Null /\ at' = Null /\ recent' = <<>>

Goto(s) == step' = s /\ UNCHANGED queue

-----------------------------------------------------------------------------
(* _addUnsafe(), for add() and for each recent record of a rewrite *)

Adding == IF Head(queue).op = "add" THEN Head(queue).event ELSE Event(Head(recent))

\* Mutant: the first record has the lastId of an empty store before it.
LastAsIs == last

LastOrNull == IF last = None THEN Null ELSE last

\* A clean() that runs beside the holder of the lock may break the chain.
Overlaps == \E c \in {"api", "stray"} : cleaning[c] # "idle"

Breaks(condition, reason) == IF condition THEN {reason} ELSE {}

\* Mutant: lastId is set before the record is there.
LinkFirst ==
    /\ Working("start") /\ Head(queue).op = "add"
    /\ previous' = LastOrNull
    /\ last' = Append(LastOrNull, Adding)
    /\ Goto("put")
    /\ broken' = broken \cup Breaks(Overlaps, "clean")
    /\ UNCHANGED <<db, at, recent, clean, check, asked, calls, failures, stored>>

StartAdd ==
    /\ Working("start") /\ Head(queue).op = "add"
    /\ previous' = LastOrNull
    /\ Goto("put")
    /\ broken' = broken \cup Breaks(Overlaps, "clean")
    /\ UNCHANGED <<store, at, recent, clean, check, asked, calls, failures, stored>>

Put ==
    /\ Working("put")
    /\ db' = db \cup {Append(previous, Adding)}
    /\ stored' = IF Overlaps THEN stored ELSE stored \cup {Adding}
    /\ Goto("link")
    /\ UNCHANGED <<calls, failures>>
    /\ UNCHANGED <<last, previous, at, recent, clean, check, asked, broken>>

Link ==
    /\ Working("link")
    /\ last' = Append(previous, Adding)
    /\ IF Head(queue).op = "add"
       THEN Release
       ELSE Goto("drop") /\ UNCHANGED <<previous, at, recent>>
    /\ UNCHANGED <<calls, failures>>
    /\ UNCHANGED <<db, clean, check, asked, stored, broken>>

\* Mutant: the old record of a failed rewrite is deleted.
FailureDrops ==
    /\ \E s \in {"put", "link", "drop"} : Working(s)
    /\ IF Head(queue).op = "add"
       THEN Release /\ UNCHANGED db
       ELSE /\ Goto("rewrite")
            /\ recent' = Tail(recent)
            /\ db' = db \ {Head(recent)}
            /\ UNCHANGED <<previous, at>>
    /\ Fault
    /\ UNCHANGED <<last, clean, check, asked, stored, broken>>

\* What the call reads first cannot be read: it has changed nothing.
ReadFails ==
    /\ \E s \in {"start", "collect"} : Working(s)
    /\ Release
    /\ Fault
    /\ UNCHANGED <<store, clean, check, asked, history>>

\* A failed add is logged; a recent record that could not be added is skipped.
AddFails ==
    /\ \E s \in {"put", "link", "drop"} : Working(s)
    /\ IF Head(queue).op = "add"
       THEN Release
       ELSE /\ Goto("rewrite")
            /\ recent' = Tail(recent)
            /\ UNCHANGED <<previous, at>>
    /\ Fault
    /\ UNCHANGED <<store, clean, check, asked, stored, broken>>

-----------------------------------------------------------------------------
(* deleteRangeAndRewrite() *)

Selected == Chain(Head(queue).newest) \ Chain(Previous(Head(queue).oldest))

\* The two records must exist.  The newest may have left the chain meanwhile.
StartDelete ==
    /\ Working("start") /\ Head(queue).op = "delete"
    /\ IF {Head(queue).newest, Head(queue).oldest} \subseteq db
       THEN /\ at' = LastOrNull
            /\ Goto("collect")
            /\ broken' = broken \cup Breaks(Overlaps, "clean")
                 \cup Breaks(Head(queue).newest \notin Chain(LastOrNull), "range")
            /\ stored' = stored \ {Event(id) : id \in Selected}
            /\ Alarming
            /\ UNCHANGED <<previous, recent>>
       ELSE Release /\ UNCHANGED <<stored, broken, check>>
    /\ UNCHANGED <<store, clean, asked, calls, failures>>

Collect ==
    /\ Working("collect")
    /\ IF at = Head(queue).newest \/ at \notin db
       THEN at' = Head(queue).newest /\ Goto("delete") /\ UNCHANGED recent
       ELSE at' = Previous(at) /\ recent' = Append(recent, at) /\ Goto("collect")
    /\ UNCHANGED <<store, previous, clean, check, asked, calls, failures, history>>

Delete ==
    /\ Working("delete")
    /\ db' = db \ {at}
    /\ IF at \notin db \/ at = Head(queue).oldest
       THEN Goto("cut") /\ UNCHANGED at
       ELSE Goto("delete") /\ at' = Previous(at)
    /\ UNCHANGED <<last, previous, recent, clean, check, asked, calls, failures, history>>

\* Mutant: the chain goes on from the last deleted record.
CutAtOldest ==
    /\ Working("cut")
    /\ last' = Head(queue).oldest
    /\ Goto("rewrite")
    /\ UNCHANGED <<db, previous, at, recent, clean, check, asked, calls, failures, history>>

Cut ==
    /\ Working("cut")
    /\ last' = Previous(Head(queue).oldest)
    /\ Goto("rewrite")
    /\ UNCHANGED <<db, previous, at, recent, clean, check, asked, calls, failures, history>>

\* The records are added again, the newest first.
Rewrite ==
    /\ Working("rewrite")
    /\ IF recent = <<>>
       THEN Release
       ELSE previous' = LastOrNull /\ Goto("put") /\ UNCHANGED <<at, recent>>
    /\ UNCHANGED <<store, clean, check, asked, calls, failures, history>>

Drop ==
    /\ Working("drop")
    /\ db' = db \ {Head(recent)}
    /\ recent' = Tail(recent)
    /\ Goto("rewrite")
    /\ UNCHANGED <<last, previous, at, clean, check, asked, calls, failures, history>>

\* What was deleted is lost for the chain that still begins with lastId.
DeleteFails ==
    /\ \E s \in {"delete", "cut"} : Working(s)
    /\ Release
    /\ broken' = broken \cup {"rewrite"}
    /\ Fault
    /\ UNCHANGED <<store, clean, check, asked, stored>>

-----------------------------------------------------------------------------
(* _handleImportRecords(): the file lists the records from the newest. *)

StartImport ==
    /\ Working("start") /\ Head(queue).op = "import"
    /\ IF db = {} /\ last = None
       THEN at' = File /\ Goto("import") /\ UNCHANGED <<previous, recent>>
       ELSE Release
    /\ broken' = broken \cup Breaks(Overlaps, "clean")
    /\ UNCHANGED <<store, clean, check, asked, calls, failures, stored>>

ImportRecord ==
    /\ \E s \in {"import", "next"} : Working(s)
    /\ at # Null
    /\ db' = db \cup {at}
    /\ stored' = IF Overlaps THEN stored ELSE stored \cup {Event(at)}
    /\ at' = Previous(at)
    /\ Goto(IF step = "import" THEN "first" ELSE "next")
    /\ UNCHANGED <<last, previous, recent, clean, check, asked, calls, failures, broken>>

ImportLastId ==
    /\ Working("first")
    /\ last' = File
    /\ Goto("next")
    /\ UNCHANGED <<db, previous, at, recent, clean, check, asked, calls, failures, history>>

ImportEnds ==
    /\ Working("next") /\ at = Null
    /\ Release
    /\ UNCHANGED <<store, clean, check, asked, calls, failures, history>>

\* The transfer, the store or the upload of the last hash fails: what was
\* imported is undone by clean().
ImportFails ==
    /\ \E s \in {"import", "first", "next"} : Working(s)
    /\ Goto("clean")
    /\ UNCHANGED <<store, previous, at, recent, clean, check, asked, calls, failures, history>>

Undoing == Working("clean") /\ cleaning["import"] = "idle"

UndoImport ==
    /\ Undoing
    /\ last' = None
    /\ cleaning' = [cleaning EXCEPT !["import"] = "open"]
    /\ stored' = {}
    /\ UNCHANGED <<db, holder, doomed, check, asked, calls, failures, broken>>

\* lastId cannot be deleted: the lock is released on what was imported.
UndoFails ==
    /\ Undoing
    /\ Release
    /\ broken' = broken \cup Breaks(Importing, "import")
    /\ Fault
    /\ UNCHANGED <<store, clean, check, asked, stored>>

-----------------------------------------------------------------------------
(* Db.clean() *)

Clean ==
    /\ Another
    /\ cleaning["api"] = "idle"
    /\ last' = None
    /\ cleaning' = [cleaning EXCEPT !["api"] = "open"]
    /\ stored' = {}
    /\ broken' = Breaks(step # "start", "clean")
    /\ Alarming
    /\ UNCHANGED <<db, holder, doomed, asked>>

\* The stream of the keys sees the store as it is now.
OpenKeys(c) ==
    /\ cleaning[c] = "open"
    /\ doomed' = [doomed EXCEPT ![c] = IF last = None THEN db ELSE db \cup {None}]
    /\ cleaning' = [cleaning EXCEPT ![c] = "sweep"]
    /\ UNCHANGED <<store, holder, check, asked, calls, failures, history>>

\* The errors are ignored.
Sweep(c, key) ==
    /\ cleaning[c] = "sweep"
    /\ key \in doomed[c]
    /\ doomed' = [doomed EXCEPT ![c] = @ \ {key}]
    /\ \/ /\ db' = db \ {key}
          /\ last' = IF key = None THEN None ELSE last
          /\ UNCHANGED <<calls, failures>>
       \/ Fault /\ UNCHANGED store
    /\ UNCHANGED <<holder, cleaning, check, asked, stored, broken>>

\* The stream of the keys fails: clean() is rejected, which releases the lock of
\* an import, and the deletions that it began end on their own.
StreamFails(c, begun) ==
    /\ c # "stray" /\ cleaning[c] = "sweep"
    /\ Fault
    /\ IF c = "import"
       THEN /\ cleaning' = [cleaning EXCEPT ![c] = "idle", !["stray"] = "sweep"]
            /\ doomed' = [doomed EXCEPT ![c] = {}, !["stray"] = @ \cup begun]
            /\ Release
       ELSE doomed' = [doomed EXCEPT ![c] = begun] /\ UNCHANGED <<cleaning, holder>>
    /\ UNCHANGED <<store, check, asked, history>>

\* Mutant: an import that fails keeps the lock.
KeepsLock(c) ==
    /\ cleaning[c] = "sweep" /\ doomed[c] = {}
    /\ cleaning' = [cleaning EXCEPT ![c] = "idle"]
    /\ UNCHANGED <<store, holder, doomed, check, asked, calls, failures, history>>

CleanEnds(c) ==
    /\ cleaning[c] = "sweep" /\ doomed[c] = {}
    /\ cleaning' = [cleaning EXCEPT ![c] = "idle"]
    /\ IF c = "import" THEN Release ELSE UNCHANGED holder
    /\ UNCHANGED <<store, doomed, check, asked, calls, failures, history>>

-----------------------------------------------------------------------------
(* checkIntegrity() from the newest record to NULL_ID *)

Check ==
    /\ check.pc = "idle"
    /\ Another
    /\ last # None
    /\ check' = [pc |-> "compare", newest |-> last, at |-> Null,
                 calm |-> broken = {} /\ step \in {"start", "put", "link"} /\ ~Deleting
                            /\ \A c \in Cleaners : cleaning[c] = "idle"]
    /\ UNCHANGED <<store, holder, clean, asked, history>>

Read == check.pc # "idle" /\ UNCHANGED <<store, holder, clean, asked, calls, failures, history>>

\* The separated chains case: the record is looked for from the last one.
Compare ==
    /\ Read /\ check.pc = "compare"
    /\ check' = IF check.newest = last
                THEN [check EXCEPT !.pc = "verify", !.at = check.newest]
                ELSE [check EXCEPT !.pc = "from"]

From ==
    /\ Read /\ check.pc = "from"
    /\ check' = [check EXCEPT !.pc = "search", !.at = LastOrNull]

Search ==
    /\ Read /\ check.pc = "search" /\ check.at \in db
    /\ check' = IF check.at = check.newest
                THEN [check EXCEPT !.pc = "verify"]
                ELSE [check EXCEPT !.at = Previous(@)]

Verify ==
    /\ Read /\ check.pc = "verify"
    /\ check.at \in db
    /\ check' = [check EXCEPT !.at = Previous(@)]

Valid ==
    /\ Read /\ check.pc = "verify"
    /\ check.at = Null
    /\ check' = NoCheck

\* MissingRecordError
Missing ==
    /\ Read /\ check.pc \in {"search", "verify"}
    /\ check.pc = "verify" => check.at # Null
    /\ check.at \notin db
    /\ check' = NoCheck

-----------------------------------------------------------------------------

Crash ==
    /\ Fault
    /\ queue' = <<>> /\ step' = "start" /\ previous' = Null /\ at' = Null /\ recent' = <<>>
    /\ cleaning' = [c \in Cleaners |-> "idle"]
    /\ doomed' = [c \in Cleaners |-> {}]
    /\ check' = NoCheck
    /\ broken' = broken \cup Breaks(Rewriting, "rewrite") \cup Breaks(Importing, "import")
    /\ UNCHANGED <<store, asked, stored>>

Hold ==
    \/ StartAdd \/ Put \/ Link
    \/ StartDelete \/ Collect \/ Delete \/ Cut \/ Rewrite \/ Drop
    \/ StartImport \/ ImportRecord \/ ImportLastId \/ ImportEnds \/ UndoImport

Keys == \E c \in Cleaners : OpenKeys(c) \/ CleanEnds(c) \/ \E key \in doomed[c] : Sweep(c, key)

KeysFail == \E c \in Cleaners : \E begun \in SUBSET doomed[c] : StreamFails(c, begun)

Checking == Compare \/ From \/ Search \/ Verify \/ Valid \/ Missing

Next ==
    \/ \E e \in Events : Add(e)
    \/ \E newest \in Listed : \E oldest \in Chain(newest) \cap Listed : DeleteRange(newest, oldest)
    \/ ImportRecords
    \/ Hold \/ ReadFails \/ AddFails \/ DeleteFails \/ ImportFails \/ UndoFails
    \/ Clean \/ Keys \/ KeysFail
    \/ Check \/ Checking
    \/ Crash

\* What was begun goes on.
Spec == Init /\ [][Next]_vars /\ WF_vars(Hold) /\ WF_vars(Keys)

-----------------------------------------------------------------------------

Ids == Seq(Events)

Jobs ==
    [op : {"add"}, event : Events]
        \cup [op : {"delete"}, newest : Ids, oldest : Ids]
        \cup [op : {"import"}]

TypeOK ==
    /\ db \subseteq Ids /\ Null \notin db
    /\ last \in Ids \cup {None}
    /\ queue \in Seq(Jobs)
    /\ step \in {"start", "put", "link", "drop", "collect", "delete", "cut", "rewrite",
                 "import", "first", "next", "clean"}
    /\ previous \in Ids /\ at \in Ids /\ recent \in Seq(Ids)
    /\ cleaning \in [Cleaners -> {"idle", "open", "sweep"}]
    /\ doomed \in [Cleaners -> SUBSET (Ids \cup {None})]
    /\ check \in [pc : {"idle", "compare", "from", "search", "verify"},
                  newest : Ids, at : Ids, calm : BOOLEAN]
    /\ asked \subseteq Events /\ stored \subseteq Events
    /\ broken \subseteq {"rewrite", "import", "clean", "range"}

\* No record of the chain is missing, whatever failed, but while it is cut or
\* imported, after a rewrite or an import that crashed then, or of which a
\* deletion failed, a clean() beside the lock, or a range that had left the
\* chain.
ChainIntact ==
    broken = {} /\ ~Rewriting /\ ~Importing /\ last # None => Chain(last) \subseteq db

\* An event that nobody asked to delete stays in the store, in its record or in
\* the one that a rewrite made of it, and in the chain if nothing failed.
RecordsKept ==
    broken \subseteq {"rewrite", "import"} =>
        \A e \in stored :
            /\ \E id \in db : Event(id) = e
            /\ failures = 0 /\ step = "start" => \E id \in Chain(last) : Event(id) = e

\* checkIntegrity() takes no lock, yet it only misses a record when one was
\* deleted: adding is not seen by halves.  But for the log that was emptied by a
\* deletion: its lastId, NULL_ID, is searched for among the records added since.
NoFalseAlarm == [][Missing => ~check.calm \/ check.newest = Null]_vars

Waits(e) == \E i \in 1 .. Len(queue) : queue[i] = [op |-> "add", event |-> e]

\* Whatever holds the lock, and however it ends, those who wait get it.
Recorded == \A e \in Events : Waits(e) ~> ~Waits(e)

=============================================================================
