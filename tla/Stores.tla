------------------------------- MODULE Stores -------------------------------
(***************************************************************************)
(* What a crash leaves on disk: DurableRecord and ArtifactCache.  They     *)
(* share no state, so a behaviour exercises one of them, chosen at the     *)
(* start.                                                                  *)
(***************************************************************************)
EXTENDS DurableRecord

CONSTANTS Content, Size, Input, Nothing, max_bytes, MaxAccesses, MaxErrors

VARIABLES
    part,  \* "cache" or "record"
    files, entries, access, total_bytes, hits, misses, storing, returned,
    since, open, kills, errors

ASSUME SizeAssumption ==
    /\ Size \in [Content -> Nat]
    /\ max_bytes \in Nat
    /\ Nothing \notin Content

Cache == INSTANCE ArtifactCache

cacheVars == <<files, entries, access, total_bytes, hits, misses, storing,
               returned, since, open, kills, errors>>

StoresInit ==
    /\ part \in {"cache", "record"}
    /\ Init
    /\ Cache!Init

CacheStep == part = "cache" /\ Cache!Next /\ UNCHANGED <<part, vars>>
RecordStep == part = "record" /\ Next /\ UNCHANGED <<part, cacheVars>>

StoresSpec ==
    StoresInit /\ [][CacheStep \/ RecordStep]_<<part, vars, cacheVars>>

-----------------------------------------------------------------------------
(* The properties of ArtifactCache.                                        *)

(* The index tells the truth about the directory.                          *)
IndexMatchesDirectory == Cache!IndexMatchesDirectory

(* A store evicts in order of last access, enough, and no more than it     *)
(* must.                                                                   *)
EvictsLeastRecent == Cache!EvictsLeastRecent

(* Refuted claims; README.md, section 5.                                   *)
ReturnedKeyIsStored == Cache!ReturnedKeyIsStored
ReturnedIsWhole == Cache!ReturnedIsWhole

=============================================================================
