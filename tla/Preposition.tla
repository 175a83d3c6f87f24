---------------------------- MODULE Preposition ----------------------------
(***************************************************************************)
(* TorrentManager.on_metadata_received and preposition_files: when the     *)
(* metadata of a remote version arrives, local files are moved to where    *)
(* the new torrent wants them, and tracked files it no longer has are      *)
(* deleted.  All of it runs in a pool thread while libtorrent downloads    *)
(* into the same directory.                                                *)
(*                                                                         *)
(* A path is a directory and a base name.  A file has a size and a content *)
(* of its own; directories left empty are removed, which no file notices,  *)
(* and are not modelled.                                                   *)
(***************************************************************************)
EXTENDS Naturals, FiniteSets, TLC

CONSTANTS
    Dirs,
    Names,
    MaxSize,    \* bound: file sizes are 1..MaxSize
    MaxWrites   \* bound: writes of libtorrent during the run

ASSUME PrepositionAssumption == MaxSize \in Nat /\ MaxWrites \in Nat

Path == Dirs \X Names
Name(f) == f[2]
Size == 1..MaxSize
NoFile == [size |-> 0, from |-> {}]

\* from: the path whose content before the run this is; {}: libtorrent's.
File == [size : Size, from : {{f} : f \in Path} \cup {{}}]

VARIABLES
    fs,       \* the share directory
    layout,   \* torrent_files: wanted size of a path, 0 when not in the torrent
    tracked,  \* tracked_paths, read from the database before the thread starts
    index,    \* local_index: for (name, size) the set of its one path, or {}
    pc, todo, \* the loop under way and what is left of it
    moved,    \* moved_any
    before,   \* history: fs when the run started
    failed,   \* history: a rename or unlink raised
    lt        \* libtorrent: how often it wrote; history: what it made full size,
              \* and local files it wrote into

vars == <<fs, layout, tracked, index, pc, todo, moved, before, failed, lt>>

Wanted == {f \in Path : layout[f] # 0}
Exists(f) == fs[f] # NoFile
InPlace(f) == fs[f].size = layout[f]

Init ==
    /\ \E sizes \in [Path -> Size \cup {0}] :
           fs = [f \in Path |-> IF sizes[f] = 0 THEN NoFile
                                ELSE [size |-> sizes[f], from |-> {f}]]
    /\ layout \in [Path -> Size \cup {0}]
    /\ Wanted # {}
    /\ tracked \in SUBSET Path
    /\ index = [k \in Names \X Size |-> {}]
    /\ pc = "index" /\ todo = {}
    /\ moved = FALSE
    /\ before = fs /\ failed = FALSE /\ lt = [writes |-> 0, took |-> {}]

\* The files of one name and size, at most one in a directory.
Found(k) == {f \in Path : Name(f) = k[1] /\ fs[f].size = k[2]}

\* Of several files with one name and size the last that rglob lists is kept.
Index ==
    /\ pc = "index"
    /\ \E ix \in {[k \in Names \X Size |-> {f \in Found(k) : f[1] = last[k]}] :
                     last \in [Names \X Size -> Dirs]} :
           /\ \A k \in Names \X Size : Found(k) # {} => ix[k] # {}
           /\ index' = ix
    /\ pc' = "place" /\ todo' = Wanted
    /\ UNCHANGED <<fs, layout, tracked, moved, before, failed, lt>>

\* Mutant of Place: looks the file up by its name only.
PlaceByName(f) ==
    /\ pc = "place" /\ f \in todo
    /\ todo' = todo \ {f}
    /\ \/ /\ ~InPlace(f)
          /\ \E s \in Size : \E src \in index[<<Name(f), s>>] :
                /\ Exists(src)
                /\ fs' = IF src = f THEN fs
                         ELSE [fs EXCEPT ![f] = fs[src], ![src] = NoFile]
          /\ moved' = TRUE
       \/ UNCHANGED <<fs, moved>>
    /\ UNCHANGED <<layout, tracked, index, pc, before, failed, lt>>

\* One wanted file: nothing to do, or rename the indexed file over it.  A
\* rename that raises is logged and passed over.
Place(f) ==
    LET srcs == {g \in index[<<Name(f), layout[f]>>] : Exists(g)}
    IN  /\ pc = "place" /\ f \in todo
        /\ todo' = todo \ {f}
        /\ \/ /\ InPlace(f) \/ srcs = {}
              /\ UNCHANGED <<fs, moved, failed>>
           \/ /\ ~InPlace(f)
              /\ \E src \in srcs :
                     fs' = IF src = f THEN fs
                           ELSE [fs EXCEPT ![f] = fs[src], ![src] = NoFile]
              /\ moved' = TRUE
              /\ UNCHANGED failed
           \/ /\ ~InPlace(f) /\ srcs # {}
              /\ failed' = TRUE
              /\ UNCHANGED <<fs, moved>>
        /\ UNCHANGED <<layout, tracked, index, pc, before, lt>>

PlaceDone ==
    /\ pc = "place" /\ todo = {}
    /\ pc' = "stale" /\ todo' = tracked \ Wanted
    /\ UNCHANGED <<fs, layout, tracked, index, moved, before, failed, lt>>

\* Mutant of RemoveStale: takes a file the database does not track with it.
RemoveStaleAll(f) ==
    /\ pc = "stale" /\ f \in todo
    /\ todo' = todo \ {f}
    /\ fs' = [g \in Path |-> IF g \in Wanted THEN fs[g] ELSE NoFile]
    /\ moved' = TRUE
    /\ UNCHANGED <<layout, tracked, index, pc, before, failed, lt>>

\* A tracked file the torrent does not have is deleted.
RemoveStale(f) ==
    /\ pc = "stale" /\ f \in todo
    /\ todo' = todo \ {f}
    /\ \/ /\ fs' = [fs EXCEPT ![f] = NoFile]
          /\ moved' = (moved \/ Exists(f))
          /\ UNCHANGED failed
       \/ /\ Exists(f)
          /\ failed' = TRUE
          /\ UNCHANGED <<fs, moved>>
    /\ UNCHANGED <<layout, tracked, index, pc, before, lt>>

\* Back in the coroutine: a recheck if anything moved.
Finish ==
    /\ pc = "stale" /\ todo = {}
    /\ pc' = IF moved THEN "recheck" ELSE "done"
    /\ UNCHANGED <<fs, layout, tracked, index, todo, moved, before, failed, lt>>

\* libtorrent writes what it downloads: it creates the file, at once of its full
\* size when the last piece comes first, or writes into the one it finds there.
LtWrite(f) ==
    /\ pc \in {"index", "place", "stale"}
    /\ f \in Wanted /\ lt.writes < MaxWrites
    /\ \E s \in Size :
           /\ fs' = [fs EXCEPT ![f] = [size |-> s, from |-> {}]]
           /\ lt' = [writes |-> lt.writes + 1,
                     took |-> IF s = layout[f] \/ fs[f].from # {}
                              THEN lt.took \cup {f} ELSE lt.took]
    /\ UNCHANGED <<layout, tracked, index, pc, todo, moved, before, failed>>

Next ==
    \/ Index \/ PlaceDone \/ Finish
    \/ \E f \in Path : Place(f) \/ RemoveStale(f) \/ LtWrite(f)

Spec == Init /\ [][Next]_vars

\* Symmetry: directories and base names are interchangeable.
Interchangeable == Permutations(Dirs) \cup Permutations(Names)

-----------------------------------------------------------------------------
(* Properties *)

Ended == pc \in {"recheck", "done"}

\* Base names are unique, in the directory and in the torrent.
UniqueNames ==
    \A f, g \in Path : Name(f) = Name(g) =>
        /\ layout[f] # 0 /\ layout[g] # 0 => f = g
        /\ before[f] # NoFile /\ before[g] # NoFile => f = g

\* A user's file that the database does not track and no entry of the torrent
\* names survives the run with its content.
OthersSurvive ==
    \A f \in Path :
        /\ before[f] # NoFile /\ f \notin tracked
        /\ \A g \in Wanted : Name(g) # Name(f)
        => fs[f] = before[f]

\* With unique base names the run does what it is for: whatever the torrent
\* wants and the directory had is in its place afterwards, unless a rename
\* failed, or libtorrent had made the file full size before the thread came to it
\* or wrote over it; and even then the wanted file is there.
UniquePlaced ==
    Ended /\ UniqueNames /\ ~failed =>
        \A g \in Wanted : \A f \in Path :
            Name(f) = Name(g) /\ before[f].size = layout[g]
                => Exists(g) /\ (g \notin lt.took => fs[g] = before[f])

\* "Already in place with correct size": such a file is not taken away again.
PlacedStays ==
    \A f \in Wanted : before[f].size = layout[f] => InPlace(f)

====
