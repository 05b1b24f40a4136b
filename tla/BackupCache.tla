---------------------------- MODULE BackupCache ----------------------------
(***************************************************************************)
(* The cache of the backup list of a VM, cache.json.gz: the file that a    *)
(* backup, a deletion, a listing and cleanVm() write, each from what it    *)
(* read before (backups/RemoteAdapter.mjs and backups/_cleanVm.mjs).       *)
(*                                                                         *)
(* A cache is the set of the backups it names.  An unreadable file counts  *)
(* as no file for all who read it: a write is a truncation, then the data. *)
(***************************************************************************)
EXTENDS Integers, FiniteSets

CONSTANTS
    Backups,    \* the backups that may be made
    MaxMerges,  \* bound: runs of cleanVm() that rewrite metadata after a merge
    None        \* no cache, or an unreadable one

\* Each writes the file by itself: what is synchronized is the additions between
\* them and the deletions between them (their keys differ by a /), and the
\* listings until they return.
Writers == {"add", "delete", "list", "clean"}

VARIABLES
    jsons,   \* the metadata files
    made,    \* the backups made so far
    cache,   \* the cache, or None
    step,    \* step[w]: "idle", "read", "metadata", "merge", "truncate" or "fill"
    value,   \* value[w]: what w will write
    about,   \* about[w]: the backup that is added or deleted
    listed,  \* cleanVm(): the metadata files it listed, then read
    must,    \* cleanVm(): mustRegenerateCache
    merges,
    alone    \* nothing else ran since cleanVm() began

vars == <<jsons, made, cache, step, value, about, listed, must, merges, alone>>

\* Some backups were made before, and there is a cache or not.
Init ==
    /\ jsons \in SUBSET Backups
    /\ made = jsons
    /\ cache \in {None, jsons}
    /\ step = [w \in Writers |-> "idle"]
    /\ value = [w \in Writers |-> {}]
    /\ about = [w \in {"add", "delete"} |-> None]
    /\ listed = {}
    /\ must = FALSE
    /\ merges = 0
    /\ alone = FALSE

Goto(w, s) == step' = [step EXCEPT ![w] = s]

Write(w, backups) == value' = [value EXCEPT ![w] = backups]

Others == alone' = FALSE

-----------------------------------------------------------------------------
(* Additions and deletions. *)

\* writeVmBackupMetadata(): the metadata first.  The lock of the VM keeps
\* cleanVm() away.
Add(b) ==
    /\ step["add"] = "idle" /\ step["clean"] = "idle"
    /\ b \notin made
    /\ jsons' = jsons \cup {b}
    /\ made' = made \cup {b}
    /\ about' = [about EXCEPT !["add"] = b]
    /\ Goto("add", "read")
    /\ Others
    /\ UNCHANGED <<cache, value, listed, must, merges>>

\* deleteDeltaVmBackups(): no lock is taken.
Delete(b) ==
    /\ step["delete"] = "idle"
    /\ b \in jsons
    /\ jsons' = jsons \ {b}
    /\ about' = [about EXCEPT !["delete"] = b]
    /\ Goto("delete", "read")
    /\ Others
    /\ UNCHANGED <<made, cache, value, listed, must, merges>>

\* _updateCache(): nothing is done without a cache.
UpdateCache(w) ==
    /\ step[w] = "read"
    /\ IF cache = None
       THEN Goto(w, "idle") /\ UNCHANGED value
       ELSE /\ Goto(w, "truncate")
            /\ Write(w, IF w = "add" THEN cache \cup {about[w]} ELSE cache \ {about[w]})
    /\ Others
    /\ UNCHANGED <<jsons, made, cache, about, listed, must, merges>>

-----------------------------------------------------------------------------
(* Listing. *)

\* _readCacheListVmBackups() without a cache: the list is generated and returned,
\* and written by a call that nobody awaits.
List ==
    /\ step["list"] = "idle"
    /\ cache = None
    /\ Write("list", jsons)
    /\ Goto("list", "truncate")
    /\ Others
    /\ UNCHANGED <<jsons, made, cache, about, listed, must, merges>>

-----------------------------------------------------------------------------
(* cleanVm() *)

Clean ==
    /\ step["clean"] = "idle" /\ step["add"] = "idle"
    /\ listed' = jsons
    /\ alone' = \A w \in Writers : step[w] = "idle"
    /\ Goto("clean", "read")
    /\ UNCHANGED <<jsons, made, cache, value, about, must, merges>>

\* The entries are counted.
Count ==
    /\ step["clean"] = "read"
    /\ must' = (Cardinality(IF cache = None THEN {} ELSE cache) # Cardinality(listed))
    /\ Goto("clean", "metadata")
    /\ UNCHANGED <<jsons, made, cache, value, about, listed, merges, alone>>

\* The metadata are read; those of the backups that were merged are written
\* again later, whether they were deleted since or not.
ReadMetadata ==
    /\ step["clean"] = "metadata"
    /\ Write("clean", listed \cap jsons)
    /\ Goto("clean", "merge")
    /\ UNCHANGED <<jsons, made, cache, about, listed, must, merges, alone>>

EndMerge(merged) ==
    /\ step["clean"] = "merge"
    /\ merged \subseteq value["clean"]
    /\ merged # {} => merges < MaxMerges
    /\ merges' = merges + (IF merged = {} THEN 0 ELSE 1)
    /\ jsons' = jsons \cup merged
    /\ Goto("clean", IF must \/ merged # {} THEN "truncate" ELSE "idle")
    /\ UNCHANGED <<made, cache, value, about, listed, must, alone>>

-----------------------------------------------------------------------------
(* _writeCache() *)

Truncate(w) ==
    /\ step[w] = "truncate"
    /\ cache' = None
    /\ Goto(w, "fill")
    /\ alone' = (alone /\ w = "clean")
    /\ UNCHANGED <<jsons, made, value, about, listed, must, merges>>

Fill(w) ==
    /\ step[w] = "fill"
    /\ cache' = value[w]
    /\ Goto(w, "idle")
    /\ alone' = (alone /\ w = "clean")
    /\ UNCHANGED <<jsons, made, value, about, listed, must, merges>>

Next ==
    \/ \E b \in Backups : Add(b) \/ Delete(b)
    \/ UpdateCache("add") \/ UpdateCache("delete")
    \/ List
    \/ Clean \/ Count \/ ReadMetadata
    \/ \E merged \in SUBSET Backups : EndMerge(merged)
    \/ \E w \in Writers : Truncate(w) \/ Fill(w)

Spec == Init /\ [][Next]_vars

-----------------------------------------------------------------------------

CleanEnds == step["clean"] # "idle" /\ step'["clean"] = "idle"

\* docs/VM backups/README.md:50: "if the file cache.json.gz exists, it contains
\* the metadata for all the backups for this VM", at least when cleanVm() has
\* just checked it with nothing else running.
CacheChecked == [][CleanEnds /\ alone' => cache' \in {None, jsons'}]_vars

=============================================================================
