--------------------------- MODULE ArtifactCache ---------------------------
(***************************************************************************)
(* ArtifactCache (crates/cache/src/artifact.rs): a directory of files      *)
(* named by the hash of their contents, an index of it in memory with the  *)
(* size and the last access of each, and a byte budget kept by evicting    *)
(* the least recently used; and the task keys of CacheKeyBuilder           *)
(* (cache_key.rs) that store_task_artifact combines with them.             *)
(*                                                                         *)
(* The cache is used by one owner at a time (&mut self).  What a crash     *)
(* leaves is the directory, so a store is a step per file it touches, and  *)
(* fs::write may stop at any length.  SHA-256 has no collisions here: the  *)
(* key of a text is the text.                                              *)
(***************************************************************************)
EXTENDS Naturals, Sequences, SequencesExt, Totals

CONSTANTS
    Content,     \* what is stored; Size[c] bytes each
    Size,
    Nothing,     \* no content, no input, no key
    Input,       \* CacheKeyBuilders: repo_sha, goal, toolchain, env
    max_bytes,
    MaxAccesses, \* bound: how often retrieve is called after a start
    MaxCrashes,  \* bound: how often the process dies
    MaxErrors    \* bound: how often the file system returns an error

VARIABLES
    files,       \* the directory: the length of each content's file
    entries,     \* the index: the recorded sizes
    access,      \* its keys, least recently accessed first
    total_bytes,
    hits,
    misses,
    storing,     \* the content store is making room for, and for which input
    returned,    \* the key the last call returned
    since,       \* history: for each of its keys, the ones that were stored
                 \* or retrieved after it last was
    open,        \* has the cache been opened?
    kills,
    errors

vars == <<files, entries, access, total_bytes, hits, misses, storing,
          returned, since, open, kills, errors>>

index == <<entries, access, total_bytes>>
stats == <<hits, misses>>

Indexed == DOMAIN entries
Stored == DOMAIN files
NotStoring == [content |-> Nothing, input |-> Nothing]
Ready == open /\ storing = NotStoring

Init ==
    /\ files = <<>>
    /\ entries = <<>>
    /\ access = <<>>
    /\ total_bytes = 0
    /\ hits = 0
    /\ misses = 0
    /\ storing = NotStoring
    /\ returned = Nothing
    /\ since = <<>>
    /\ open = TRUE
    /\ kills = 0
    /\ errors = 0

With(f, c, n) == [x \in DOMAIN f \cup {c} |-> IF x = c THEN n ELSE f[x]]
Without(f, c) == Restrict(f, DOMAIN f \ {c})
Bytes(f) == Total(f, DOMAIN f)

-----------------------------------------------------------------------------
(* Keys                                                                    *)

(* CacheKeyBuilder::build hashes the parts, each text a sequence of        *)
(* characters, with separators between them; env is in key order.  The     *)
(* parts are not escaped.                                                  *)
build(i) ==
    i.repo_sha \o <<"|">> \o i.goal \o <<"|">> \o i.toolchain \o <<"|">>
        \o FlattenSeq([n \in 1..Len(i.env) |->
                          i.env[n][1] \o <<"=">> \o i.env[n][2] \o <<";">>])

(* The key a store returns: of the content, or for store_task_artifact of  *)
(* "task key:content key".                                                 *)
KeyFor(i, c) == IF i = Nothing THEN c ELSE <<build(i), c>>

(* The names a caller can ask for.                                         *)
Key == Content \cup {KeyFor(i, c) : i \in Input, c \in Content}

-----------------------------------------------------------------------------
(* c becomes the last of s, and the ones after it move up.                 *)
MoveToEnd(s, c) ==
    LET at == CHOOSE i \in DOMAIN s : s[i] = c
    IN  [i \in DOMAIN s |-> IF i < at THEN s[i]
                            ELSE IF i < Len(s) THEN s[i + 1]
                            ELSE c]

(* entry.last_access = Instant::now(), when there is an entry.  The mutant *)
(* forgets it.                                                             *)
NotTouched(c) == UNCHANGED access
Touch(c) == access' = IF c \in Indexed THEN MoveToEnd(access, c) ELSE access

(* c is used, and S is indexed from then on.                               *)
UsedNow(c, S) == [x \in S |-> IF x = c THEN {} ELSE since[x] \cup {c}]
Uses(c) == since' = IF c \in Indexed THEN UsedNow(c, Indexed) ELSE since

(* store, or store_task_artifact for an input.  Its own path.exists() is   *)
(* false: nothing is ever written under a combined key.                    *)
StoreCached(i, c) ==
    /\ Ready
    /\ c \in Stored
    /\ Touch(c)
    /\ Uses(c)
    /\ returned' = KeyFor(i, c)
    /\ UNCHANGED <<files, entries, total_bytes, stats, storing, open, kills,
                   errors>>

StoreNew(i, c) ==
    /\ Ready
    /\ c \notin Stored
    /\ storing' = [content |-> c, input |-> i]
    /\ returned' = Nothing
    /\ UNCHANGED <<files, index, stats, since, open, kills, errors>>

(* The loop condition.                                                     *)
MustEvict(c) == total_bytes + Size[c] > max_bytes /\ Indexed # {}

(* evict_lru removes c, its file and its entry: saturating_sub.  The       *)
(* mutant leaves the file.                                                 *)
DropEntry(c) ==
    /\ entries' = Without(entries, c)
    /\ total_bytes' = IF total_bytes >= entries[c] THEN total_bytes - entries[c]
                                                   ELSE 0
    /\ UNCHANGED files

DropFile(c) ==
    /\ files' = Without(files, c)
    /\ entries' = Without(entries, c)
    /\ total_bytes' = IF total_bytes >= entries[c] THEN total_bytes - entries[c]
                                                   ELSE 0

Evict ==
    /\ storing # NotStoring
    /\ MustEvict(storing.content)
    /\ DropFile(Head(access))
    /\ access' = Tail(access)
    /\ since' = [x \in DOMAIN entries' |-> since[x] \ {Head(access)}]
    /\ UNCHANGED <<stats, storing, returned, open, kills, errors>>

WriteFile ==
    LET c == storing.content
    IN  /\ storing # NotStoring
        /\ ~MustEvict(c)
        /\ files' = With(files, c, Size[c])
        /\ entries' = With(entries, c, Size[c])
        /\ access' = Append(access, c)
        /\ total_bytes' = total_bytes + Size[c]
        /\ since' = UsedNow(c, Indexed \cup {c})
        /\ returned' = KeyFor(storing.input, c)
        /\ storing' = NotStoring
        /\ UNCHANGED <<stats, open, kills, errors>>

(* remove_file or write fails, and the error is returned: a write may have *)
(* created the file and written a part of it.                              *)
StoreFails ==
    /\ storing # NotStoring
    /\ errors < MaxErrors
    /\ errors' = errors + 1
    /\ storing' = NotStoring
    /\ LET c == storing.content
       IN  \/ UNCHANGED files
           \/ /\ ~MustEvict(c)
              /\ \E n \in 0..(Size[c] - 1) : files' = With(files, c, n)
    /\ UNCHANGED <<index, stats, returned, since, open, kills>>

retrieve(k) ==
    /\ Ready
    /\ hits + misses < MaxAccesses
    /\ IF k \in Stored
       THEN /\ hits' = hits + 1
            /\ Touch(k)
            /\ Uses(k)
            /\ UNCHANGED misses
       ELSE /\ misses' = misses + 1
            /\ UNCHANGED <<hits, access, since>>
    /\ returned' = Nothing
    /\ UNCHANGED <<files, entries, total_bytes, storing, open, kills, errors>>

(* The process dies, also in the middle of a write.                        *)
Kill ==
    /\ open
    /\ kills < MaxCrashes
    /\ kills' = kills + 1
    /\ open' = FALSE
    /\ \/ UNCHANGED files
       \/ LET c == storing.content
          IN  /\ storing # NotStoring
              /\ ~MustEvict(c)
              /\ \E n \in 0..Size[c] : files' = With(files, c, n)
    /\ entries' = <<>>
    /\ access' = <<>>
    /\ total_bytes' = 0
    /\ hits' = 0
    /\ misses' = 0
    /\ storing' = NotStoring
    /\ returned' = Nothing
    /\ since' = <<>>
    /\ UNCHANGED errors

(* ArtifactCache::new and scan_existing: every file is an entry, whatever  *)
(* its length, and the order of access is that of the directory.           *)
Open ==
    /\ ~open
    /\ open' = TRUE
    /\ entries' = files
    /\ access' \in Bijection(1..Cardinality(Stored), Stored)
    /\ total_bytes' = Bytes(files)
    /\ since' = [c \in Stored |-> {}]
    /\ UNCHANGED <<files, stats, storing, returned, kills, errors>>

Next ==
    \/ \E i \in Input \cup {Nothing}, c \in Content :
          StoreCached(i, c) \/ StoreNew(i, c)
    \/ Evict
    \/ WriteFile
    \/ StoreFails
    \/ \E k \in Key : retrieve(k)
    \/ Kill
    \/ Open

Spec == Init /\ [][Next]_vars

-----------------------------------------------------------------------------
(* Properties.                                                             *)

(* The index tells the truth about the directory across evictions, failed  *)
(* writes and restarts: each entry is a file of the recorded size,         *)
(* total_bytes is their sum, and the only file it does not know is one     *)
(* whose write was cut short.                                              *)
IndexMatchesDirectory ==
    open =>
        /\ Indexed \subseteq Stored
        /\ \A c \in Indexed : entries[c] = files[c]
        /\ total_bytes = Bytes(entries)
        /\ \A c \in Stored \ Indexed : files[c] < Size[c]

(* A store evicts in order of last access, enough, and no more than it     *)
(* must.  Nothing that goes was stored or retrieved after something that   *)
(* stays, whatever order the index thinks they have; with what goes the    *)
(* new content would not fit beside what stays; and the store leaves the   *)
(* cache within its budget, or holding nothing but that one content ("If   *)
(* single item exceeds max, still store it"), also when a restart found    *)
(* more than the budget.                                                   *)
EvictsLeastRecent ==
    [][storing # NotStoring /\ open' =>
          LET c == storing.content
              stays == Indexed \cap DOMAIN entries'
              goes == Indexed \ stays
          IN  /\ \A g \in goes : \A k \in stays : g \notin since[k]
              /\ \A g \in goes :
                     Total(entries, stays \cup {g}) + Size[c] > max_bytes
              /\ c \in DOMAIN entries' => \/ total_bytes' <= max_bytes
                                         \/ DOMAIN entries' = {c}]_vars

-----------------------------------------------------------------------------
(* What comments say and the code does not do; README.md, section 5.       *)

(* "Stores a task's output artifact by cache key", "Store using the        *)
(* combined key": what a store returned can be retrieved.                  *)
ReturnedKeyIsStored == returned # Nothing => returned \in Stored

(* "A content-addressed artifact cache": what lies under the key of a      *)
(* content, and was reported as stored, is that content.                   *)
ReturnedIsWhole == returned \in Content => files[returned] = Size[returned]

=============================================================================
