------------------------- MODULE PrepositionProofs -------------------------
(***************************************************************************)
(* Proofs about the pre-positioning of files for any directories, names    *)
(* and sizes, and any interleaving with libtorrent's writes.               *)
(***************************************************************************)
EXTENDS Preposition, TLAPS

FileOrNone == File \cup {NoFile}

Typed ==
    /\ fs \in [Path -> FileOrNone] /\ before \in [Path -> FileOrNone]
    /\ layout \in [Path -> Size \cup {0}]
    /\ tracked \subseteq Path
    /\ index \in [Names \X Size -> SUBSET Path]
    /\ pc \in {"index", "place", "stale", "recheck", "done"}
    /\ todo \subseteq Path
    /\ failed \in BOOLEAN
    /\ lt \in [writes : Nat, took : SUBSET Path]

\* Every file there was is a local one.
LocalBefore == \A f \in Path : before[f] # NoFile => before[f].from # {}

\* The thread works off what it set out to do.
Course ==
    /\ pc = "place" => todo \subseteq Wanted
    /\ pc = "stale" => todo \subseteq tracked \ Wanted

\* A file is indexed under its own name.
IndexNames == \A k \in Names \X Size : \A f \in index[k] : Name(f) = k[1]

\* Until the directory is indexed only libtorrent has changed it.
OnlyWritten ==
    pc = "index" => \A f \in Path : fs[f] = before[f] \/ f \in Wanted

SurviveInv == Typed /\ Course /\ IndexNames /\ OthersSurvive

\* g has not been looked at yet.
Due(g) == pc = "index" \/ (pc = "place" /\ g \in todo)

\* f is the file the torrent wants at g.
IsSource(f, g) == Name(f) = Name(g) /\ before[f].size = layout[g]

\* The source f of g has a way to g: before g is looked at it is where it was
\* and in the index, after that it is at g and stays there.
OnItsWay(f, g) ==
    /\ Due(g) => /\ fs[f] = before[f]
                 /\ f # g => fs[g].size # layout[g]
    /\ Due(g) /\ pc = "place" => index[<<Name(g), layout[g]>>] = {f}
    /\ ~Due(g) => fs[g] = before[f]

\* So it goes, unless libtorrent took the path for its own data.
Placing ==
    UniqueNames /\ ~failed =>
        \A g \in Wanted : \A f \in Path : IsSource(f, g) =>
            IF g \in lt.took THEN fs[g] # NoFile ELSE OnItsWay(f, g)

PlacedInv == Typed /\ LocalBefore /\ Course /\ IndexNames /\ OnlyWritten /\ Placing

-----------------------------------------------------------------------------
\* A file has a size of its own, no file has none.
LEMMA SizeOf ==
    ASSUME NEW x \in FileOrNone
    PROVE  /\ x.size \in Size \cup {0}
           /\ x.size = 0 <=> x = NoFile
<1>1. NoFile.size = 0
  BY DEF NoFile
<1>2. x \in File => x.size \in Size /\ x.size # 0
  BY PrepositionAssumption DEF File, Size
<1> QED
  BY <1>1, <1>2 DEF FileOrNone

\* What libtorrent writes is a file.
LEMMA WrittenFile ==
    ASSUME NEW s \in Size
    PROVE  /\ [size |-> s, from |-> {}] \in FileOrNone
           /\ [size |-> s, from |-> {}] # NoFile
<1>1. s # 0
  BY PrepositionAssumption DEF Size
<1> QED
  BY <1>1 DEF FileOrNone, File, NoFile

\* What Place does: one wanted path leaves todo; nothing changes, or the file
\* indexed under its name and size is now there.
LEMMA PlaceDoes ==
    ASSUME Typed, Course, IndexNames, NEW g \in Path, Place(g)
    PROVE  /\ pc = "place" /\ pc' = pc /\ g \in todo /\ todo' = todo \ {g}
           /\ UNCHANGED <<layout, tracked, index, before, lt>>
           /\ failed' \in {failed, TRUE}
           /\ \/ fs' = fs
              \/ \E src \in index[<<Name(g), layout[g]>>] :
                    /\ src \in Path /\ Name(src) = Name(g) /\ src # g
                    /\ fs[src] # NoFile /\ layout[g] \in Size
                    /\ fs' = [fs EXCEPT ![g] = fs[src], ![src] = NoFile]
<1>1. /\ pc = "place" /\ pc' = pc /\ g \in todo /\ todo' = todo \ {g}
      /\ UNCHANGED <<layout, tracked, index, before, lt>>
      /\ failed' \in {failed, TRUE}
  BY DEF Place
<1>2. CASE fs' = fs
  BY <1>1, <1>2
<1>3. CASE fs' # fs
  <2>1. PICK src \in index[<<Name(g), layout[g]>>] :
            /\ Exists(src) /\ ~InPlace(g) /\ src # g
            /\ fs' = [fs EXCEPT ![g] = fs[src], ![src] = NoFile]
    BY <1>3 DEF Place
  <2>2. Name(g) \in Names /\ layout[g] \in Size \cup {0}
    BY DEF Path, Name, Typed
  <2>3. layout[g] # 0
    BY <1>1 DEF Typed, Course, Wanted
  <2>4. src \in Path /\ Name(src) = Name(g)
    BY <2>2, <2>3 DEF Typed, IndexNames
  <2> QED
    BY <1>1, <2>1, <2>2, <2>3, <2>4 DEF Exists
<1> QED
  BY <1>2, <1>3

\* What RemoveStale and LtWrite do to the directory.
LEMMA RemoveStaleDoes ==
    ASSUME Typed, Course, NEW g \in Path, RemoveStale(g)
    PROVE  /\ pc = "stale" /\ pc' = pc /\ g \in tracked \ Wanted
           /\ todo' = todo \ {g}
           /\ UNCHANGED <<layout, tracked, index, before, lt>>
           /\ failed' \in {failed, TRUE}
           /\ fs' = fs \/ fs' = [fs EXCEPT ![g] = NoFile]
  BY DEF RemoveStale, Typed, Course

LEMMA LtWriteDoes ==
    ASSUME Typed, NEW g \in Path, LtWrite(g)
    PROVE  /\ g \in Wanted
           /\ UNCHANGED <<layout, tracked, index, pc, todo, before, failed>>
           /\ lt' \in [writes : Nat, took : SUBSET Path]
           /\ lt'.took \in {lt.took, lt.took \cup {g}}
           /\ \E x \in FileOrNone :
                 /\ x # NoFile /\ fs' = [fs EXCEPT ![g] = x]
                 /\ g \notin lt'.took => x.size # layout[g] /\ fs[g].from = {}
<1>1. PICK s \in Size :
          /\ fs' = [fs EXCEPT ![g] = [size |-> s, from |-> {}]]
          /\ lt' = [writes |-> lt.writes + 1,
                    took |-> IF s = layout[g] \/ fs[g].from # {}
                             THEN lt.took \cup {g} ELSE lt.took]
  BY DEF LtWrite
<1> DEFINE x == [size |-> s, from |-> {}]
<1>2. x \in FileOrNone /\ x # NoFile /\ x.size = s
  BY WrittenFile
<1>3. fs' = [fs EXCEPT ![g] = x]
  BY <1>1
<1> HIDE DEF x
<1>4. /\ lt'.took = (IF s = layout[g] \/ fs[g].from # {}
                     THEN lt.took \cup {g} ELSE lt.took)
      /\ lt' \in [writes : Nat, took : SUBSET Path]
  BY <1>1 DEF Typed
<1>5. g \notin lt'.took => x.size # layout[g] /\ fs[g].from = {}
  BY <1>2, <1>4
<1>6. lt'.took \in {lt.took, lt.took \cup {g}}
  BY <1>4
<1> QED
  BY <1>2, <1>3, <1>4, <1>5, <1>6 DEF LtWrite

\* The initial states.
LEMMA InitInv == Init => SurviveInv /\ PlacedInv
<1> SUFFICES ASSUME Init PROVE SurviveInv /\ PlacedInv
  OBVIOUS
<1>1. PICK sizes \in [Path -> Size \cup {0}] :
          fs = [f \in Path |-> IF sizes[f] = 0 THEN NoFile
                               ELSE [size |-> sizes[f], from |-> {f}]]
  BY DEF Init
<1>2. fs \in [Path -> FileOrNone]
  <2>1. ASSUME NEW f \in Path, sizes[f] # 0
        PROVE  [size |-> sizes[f], from |-> {f}] \in File
    BY <2>1 DEF File
  <2> QED
    BY <1>1, <2>1 DEF FileOrNone
<1>3. Typed
  BY <1>2 DEF Init, Typed
<1>4. Course /\ IndexNames /\ OnlyWritten /\ OthersSurvive
  BY <1>3 DEF Init, Typed, Course, IndexNames, OnlyWritten, OthersSurvive
<1>l. LocalBefore
  BY <1>1 DEF Init, LocalBefore, NoFile
<1>5. Placing
  <2> SUFFICES ASSUME UniqueNames, NEW g \in Wanted, NEW f \in Path, IsSource(f, g),
                      f # g
               PROVE  fs[g].size # layout[g]
    BY DEF Init, Placing, OnItsWay, Due
  <2>1. /\ g \in Path /\ layout[g] # 0 /\ before = fs
        /\ Name(f) = Name(g) /\ before[f].size = layout[g]
    BY DEF Init, Wanted, IsSource
  <2>2. before[f] # NoFile
    BY <1>2, <2>1, SizeOf
  <2>3. before[g] = NoFile
    BY <2>1, <2>2 DEF UniqueNames
  <2> QED
    BY <2>1, <2>3 DEF NoFile
<1> QED
  BY <1>3, <1>4, <1>5, <1>l DEF SurviveInv, PlacedInv

\* Every step keeps the types, the course of the run and the names in the
\* index.
LEMMA CourseStep ==
    ASSUME Typed, Course, IndexNames, [Next]_vars
    PROVE  (Typed /\ Course /\ IndexNames)'
<1>0. CASE UNCHANGED vars
  BY <1>0 DEF vars, Typed, Course, IndexNames, Wanted
<1>1. CASE Index
  <2>1. PICK last \in [Names \X Size -> Dirs] :
           index' = [k \in Names \X Size |-> {f \in Found(k) : f[1] = last[k]}]
    BY <1>1 DEF Index
  <2>2. \A k \in Names \X Size : index'[k] \in SUBSET Path
    BY <2>1 DEF Found
  <2>3. ASSUME NEW k \in Names \X Size, NEW f \in index'[k]
        PROVE  Name(f) = k[1]
    BY <2>1 DEF Found
  <2>4. UNCHANGED <<fs, layout, tracked, before, failed, lt>> /\ pc' = "place"
        /\ todo' = Wanted
    BY <1>1 DEF Index
  <2>5. index' \in [Names \X Size -> SUBSET Path]
    BY <2>1, <2>2
  <2> QED
    BY <2>3, <2>4, <2>5 DEF Typed, Course, IndexNames, Wanted
<1>2. CASE PlaceDone \/ Finish
  BY <1>2 DEF PlaceDone, Finish, Typed, Course, IndexNames, Wanted
<1>3. ASSUME NEW g \in Path, Place(g) PROVE (Typed /\ Course /\ IndexNames)'
  <2>1. NoFile \in FileOrNone
    BY DEF FileOrNone
  <2>f. fs \in [Path -> FileOrNone]
    BY DEF Typed
  <2>s. \/ fs' = fs
        \/ \E src \in Path : fs' = [fs EXCEPT ![g] = fs[src], ![src] = NoFile]
    BY <1>3, PlaceDoes
  <2>2. fs' \in [Path -> FileOrNone]
    BY <2>1, <2>f, <2>s
  <2>3. (Course /\ IndexNames)'
    BY <1>3, PlaceDoes DEF Course, IndexNames, Wanted
  <2> QED
    BY <1>3, <2>2, <2>3, PlaceDoes DEF Typed
<1>4. ASSUME NEW g \in Path, RemoveStale(g) PROVE (Typed /\ Course /\ IndexNames)'
  <2>1. NoFile \in FileOrNone
    BY DEF FileOrNone
  <2>f. fs \in [Path -> FileOrNone]
    BY DEF Typed
  <2>s. fs' = fs \/ fs' = [fs EXCEPT ![g] = NoFile]
    BY <1>4, RemoveStaleDoes
  <2>2. fs' \in [Path -> FileOrNone]
    BY <2>1, <2>f, <2>s
  <2>3. (Course /\ IndexNames)'
    BY <1>4, RemoveStaleDoes DEF Course, IndexNames, Wanted
  <2> QED
    BY <1>4, <2>2, <2>3, RemoveStaleDoes DEF Typed
<1>5. ASSUME NEW g \in Path, LtWrite(g) PROVE (Typed /\ Course /\ IndexNames)'
  <2>0. PICK x \in FileOrNone : fs' = [fs EXCEPT ![g] = x]
    BY <1>5, LtWriteDoes
  <2>1. fs' \in [Path -> FileOrNone]
    BY <2>0 DEF Typed
  <2> QED
    BY <1>5, <2>1, LtWriteDoes DEF Typed, Course, IndexNames, Wanted
<1> QED
  BY <1>0, <1>1, <1>2, <1>3, <1>4, <1>5 DEF Next

\* Every step spares the files that are none of its business.
LEMMA SurviveStep ==
    ASSUME SurviveInv, [Next]_vars
    PROVE  OthersSurvive'
<1> USE DEF SurviveInv
<1>0. CASE UNCHANGED <<fs, layout, tracked, before>>
  BY <1>0 DEF OthersSurvive, Wanted
<1>1. ASSUME NEW g \in Path, Place(g) PROVE OthersSurvive'
  <2>1. g \in Wanted /\ UNCHANGED <<Wanted, tracked, before>>
    BY <1>1, PlaceDoes DEF Course, Wanted
  <2>f. fs \in [Path -> FileOrNone]
    BY DEF Typed
  <2>s. \/ fs' = fs
        \/ \E src \in Path : /\ Name(src) = Name(g)
                             /\ fs' = [fs EXCEPT ![g] = fs[src], ![src] = NoFile]
    BY <1>1, PlaceDoes
  <2>2. \A f \in Path : Name(f) # Name(g) => fs'[f] = fs[f]
    BY <2>f, <2>s
  <2> QED
    BY <2>1, <2>2 DEF OthersSurvive
<1>2. ASSUME NEW g \in Path, RemoveStale(g) PROVE OthersSurvive'
  <2>1. g \in tracked /\ UNCHANGED <<Wanted, tracked, before>>
    BY <1>2, RemoveStaleDoes DEF Wanted
  <2>f. fs \in [Path -> FileOrNone]
    BY DEF Typed
  <2>s. fs' = fs \/ fs' = [fs EXCEPT ![g] = NoFile]
    BY <1>2, RemoveStaleDoes
  <2>2. \A f \in Path : f # g => fs'[f] = fs[f]
    BY <2>f, <2>s
  <2> QED
    BY <2>1, <2>2 DEF OthersSurvive
<1>3. ASSUME NEW g \in Path, LtWrite(g) PROVE OthersSurvive'
  <2>1. g \in Wanted /\ UNCHANGED <<Wanted, tracked, before>>
    BY <1>3, LtWriteDoes DEF Wanted
  <2>0. PICK x \in FileOrNone : fs' = [fs EXCEPT ![g] = x]
    BY <1>3, LtWriteDoes
  <2>2. \A f \in Path : f # g => fs'[f] = fs[f]
    BY <2>0 DEF Typed
  <2> QED
    BY <2>1, <2>2 DEF OthersSurvive
<1> QED
  BY <1>0, <1>1, <1>2, <1>3 DEF Next, vars, Index, PlaceDone, Finish

\* Files that the database does not track and the torrent does not name are
\* never touched.
THEOREM UserFilesSurvive == Spec => []OthersSurvive
<1>1. SurviveInv /\ [Next]_vars => SurviveInv'
  BY CourseStep, SurviveStep DEF SurviveInv
<1>2. SurviveInv => OthersSurvive
  BY DEF SurviveInv
<1> QED
  BY <1>1, <1>2, InitInv, PTL DEF Spec

-----------------------------------------------------------------------------
\* While only libtorrent writes, it writes only what the torrent has.
LEMMA OnlyWrittenStep ==
    ASSUME PlacedInv, [Next]_vars
    PROVE  OnlyWritten'
<1> USE DEF PlacedInv
<1>1. CASE pc' # "index"
  BY <1>1 DEF OnlyWritten
<1>2. CASE UNCHANGED <<fs, layout, before, pc>>
  BY <1>2 DEF OnlyWritten, Wanted
<1>3. ASSUME NEW g \in Path, LtWrite(g), pc = "index" PROVE OnlyWritten'
  <2>1. PICK x \in FileOrNone : fs' = [fs EXCEPT ![g] = x]
    BY <1>3, LtWriteDoes
  <2>2. g \in Wanted /\ UNCHANGED <<layout, before, pc, Wanted>>
    BY <1>3, LtWriteDoes DEF Wanted
  <2> QED
    BY <1>3, <2>1, <2>2 DEF OnlyWritten, Typed
<1> QED
  BY <1>1, <1>2, <1>3, PlaceDoes, RemoveStaleDoes, LtWriteDoes
     DEF Next, vars, Index, PlaceDone, Finish

\* With unique names the index leads from a wanted path to its source.
LEMMA IndexFinds ==
    ASSUME PlacedInv, Index, UniqueNames,
           NEW g \in Wanted, NEW f \in Path, IsSource(f, g), fs[f] = before[f],
           f # g => fs[g].size # layout[g]
    PROVE  index'[<<Name(g), layout[g]>>] = {f}
<1> DEFINE k == <<Name(g), layout[g]>>
           found == Found(k)
<1>1. /\ g \in Path /\ layout[g] \in Size /\ layout[g] # 0
      /\ k \in Names \X Size
  BY DEF PlacedInv, Typed, Wanted, Path, Name
<1>2. before[f] # NoFile
  BY <1>1, SizeOf DEF IsSource, PlacedInv, Typed
<1>3. f \in found
  BY DEF IsSource, Found
<1>4. ASSUME NEW h \in found, h # f PROVE FALSE
  <2>0. h \in Path /\ Name(h) = k[1] /\ fs[h].size = k[2]
    BY <1>4 DEF Found
  <2>1. fs[h] # NoFile
    BY <1>1, <2>0, SizeOf DEF PlacedInv, Typed
  <2>2. fs[h] # before[h]
    BY <1>2, <1>4, <2>0, <2>1 DEF UniqueNames, IsSource
  <2>3. h \in Wanted
    BY <2>0, <2>2 DEF PlacedInv, OnlyWritten, Index
  <2>4. h = g
    BY <1>1, <2>0, <2>3 DEF UniqueNames, Wanted
  <2> QED
    BY <1>1, <1>4, <2>0, <2>4 DEF IsSource
<1>5. found = {f}
  BY <1>3, <1>4
<1>6. index'[k] \subseteq found /\ (found # {} => index'[k] # {})
  BY <1>1 DEF Index
<1> QED
  BY <1>5, <1>6

\* A step keeps every source where it was, or in the place the torrent wants.
LEMMA PlacingStep ==
    ASSUME PlacedInv, [Next]_vars
    PROVE  Placing'
<1> SUFFICES ASSUME UniqueNames', ~failed',
                    NEW g \in Wanted', NEW f \in Path, IsSource(f, g)'
             PROVE  IF g \in lt'.took THEN fs'[g] # NoFile ELSE OnItsWay(f, g)'
  BY DEF Placing
<1>1. /\ UNCHANGED <<layout, before>> /\ ~failed
      /\ g \notin lt'.took => g \notin lt.took
  BY PlaceDoes, RemoveStaleDoes, LtWriteDoes
     DEF Next, vars, Index, PlaceDone, Finish, PlacedInv, Typed
<1>2. UniqueNames /\ g \in Wanted /\ IsSource(f, g)
  BY <1>1 DEF UniqueNames, Wanted, IsSource
<1>3. /\ g \in Path /\ layout[g] \in Size /\ layout[g] # 0
      /\ Name(f) = Name(g) /\ before[f].size = layout[g]
      /\ before[f] # NoFile
  BY <1>2, SizeOf DEF Wanted, IsSource, PlacedInv, Typed
<1>4. IF g \in lt.took THEN fs[g] # NoFile ELSE OnItsWay(f, g)
  BY <1>1, <1>2 DEF PlacedInv, Placing
<1>5. CASE UNCHANGED vars
  BY <1>4, <1>5 DEF vars, OnItsWay, Due
<1>6. CASE Index
  <2>1. /\ Due(g) /\ pc = "index" /\ pc' = "place" /\ todo' = Wanted
        /\ UNCHANGED <<fs, lt>>
    BY <1>6 DEF Index, Due
  <2>2. CASE g \in lt.took
    BY <1>4, <2>1, <2>2
  <2>3. CASE g \notin lt.took
    <3>1. fs[f] = before[f] /\ (f # g => fs[g].size # layout[g])
      BY <1>4, <2>1, <2>3 DEF OnItsWay
    <3>2. index'[<<Name(g), layout[g]>>] = {f}
      BY <1>2, <1>6, <3>1, IndexFinds
    <3>3. Due(g)'
      BY <1>2, <2>1 DEF Due
    <3> QED
      BY <1>1, <2>1, <2>3, <3>1, <3>2, <3>3 DEF OnItsWay
  <2> QED
    BY <2>2, <2>3
<1>7. CASE PlaceDone \/ Finish
  BY <1>1, <1>4, <1>7 DEF PlaceDone, Finish, OnItsWay, Due
<1>8. ASSUME NEW h \in Path, Place(h)
      PROVE  IF g \in lt'.took THEN fs'[g] # NoFile ELSE OnItsWay(f, g)'
  <2>0. UNCHANGED lt
    BY <1>8, PlaceDoes DEF PlacedInv
  <2>t. fs \in [Path -> FileOrNone]
    BY DEF PlacedInv, Typed
  <2>1. CASE h = g /\ g \in lt.took
    <3>1. \/ fs' = fs
          \/ \E src \in Path : /\ src # g /\ fs[src] # NoFile
                                /\ fs' = [fs EXCEPT ![g] = fs[src], ![src] = NoFile]
      BY <1>8, <2>1, PlaceDoes DEF PlacedInv
    <3> QED
      BY <1>3, <1>4, <2>0, <2>1, <2>t, <3>1
  <2>2. CASE h = g /\ g \notin lt.took
    <3>1. Due(g) /\ ~Due(g)'
      BY <1>8, <2>2, PlaceDoes DEF Due, PlacedInv
    <3>s. fs'[g] = before[f]
      <4>0. /\ fs[f] = before[f] /\ (f # g => fs[g].size # layout[g])
            /\ index[<<Name(g), layout[g]>>] = {f}
        BY <1>4, <1>8, <2>2, <3>1, PlaceDoes DEF OnItsWay, PlacedInv
      <4>1. CASE f = g
        <5>1. InPlace(g)
          BY <1>3, <4>0, <4>1 DEF InPlace
        <5> QED
          BY <1>8, <2>2, <4>0, <4>1, <5>1 DEF Place
      <4>2. CASE f # g
        <5>1. ~InPlace(g) /\ Exists(f)
          BY <1>3, <4>0, <4>2 DEF InPlace, Exists
        <5>2. fs' = [fs EXCEPT ![g] = fs[f], ![f] = NoFile]
          BY <1>8, <2>2, <4>0, <4>2, <5>1 DEF Place
        <5> QED
          BY <1>3, <2>t, <4>0, <4>2, <5>2
      <4> QED
        BY <4>1, <4>2
    <3> QED
      BY <1>1, <2>0, <2>2, <3>1, <3>s DEF OnItsWay
  <2>3. CASE h # g
    <3>1. h \in Wanted
      BY <1>8, PlaceDoes DEF PlacedInv, Course
    <3>2. Name(h) # Name(g)
      BY <1>2, <1>3, <2>3, <3>1 DEF UniqueNames, Wanted
    <3>3. \A p \in Path : Name(p) = Name(g) => fs'[p] = fs[p]
      BY <1>8, <2>t, <3>2, PlaceDoes DEF PlacedInv
    <3>4. (Due(g)' <=> Due(g)) /\ UNCHANGED <<pc, index>>
      BY <1>8, <2>3, PlaceDoes DEF Due, PlacedInv
    <3>5. fs'[g] = fs[g] /\ fs'[f] = fs[f]
      BY <1>3, <3>3
    <3> QED
      BY <1>1, <1>4, <2>0, <3>4, <3>5 DEF OnItsWay
  <2> QED
    BY <2>1, <2>2, <2>3
<1>9. ASSUME NEW h \in Path, RemoveStale(h)
      PROVE  IF g \in lt'.took THEN fs'[g] # NoFile ELSE OnItsWay(f, g)'
  <2>1. ~Due(g) /\ ~Due(g)' /\ h # g /\ UNCHANGED lt
    BY <1>2, <1>9, RemoveStaleDoes DEF Due, PlacedInv
  <2>2. fs' = fs \/ fs' = [fs EXCEPT ![h] = NoFile]
    BY <1>9, RemoveStaleDoes DEF PlacedInv
  <2>3. fs'[g] = fs[g]
    BY <1>3, <2>1, <2>2 DEF PlacedInv, Typed
  <2> QED
    BY <1>1, <1>4, <2>1, <2>3 DEF OnItsWay
<1>10. ASSUME NEW h \in Path, LtWrite(h)
       PROVE  IF g \in lt'.took THEN fs'[g] # NoFile ELSE OnItsWay(f, g)'
  <2>1. PICK x \in FileOrNone :
            /\ x # NoFile /\ fs' = [fs EXCEPT ![h] = x]
            /\ h \notin lt'.took => x.size # layout[h] /\ fs[h].from = {}
    BY <1>10, LtWriteDoes DEF PlacedInv
  <2>2. /\ h \in Wanted /\ (Due(g)' <=> Due(g)) /\ UNCHANGED <<pc, index>>
        /\ lt'.took \in {lt.took, lt.took \cup {h}}
    BY <1>10, LtWriteDoes DEF PlacedInv, Due
  <2>t. fs \in [Path -> FileOrNone]
    BY DEF PlacedInv, Typed
  <2>3. CASE h # g
    <3>1. h # f
      BY <1>2, <1>3, <2>2, <2>3 DEF UniqueNames, Wanted
    <3>2. fs'[g] = fs[g] /\ fs'[f] = fs[f] /\ (g \in lt'.took <=> g \in lt.took)
      BY <1>3, <2>1, <2>2, <2>3, <2>t, <3>1
    <3> QED
      BY <1>1, <1>4, <2>2, <3>2 DEF OnItsWay
  <2>4. CASE h = g /\ g \in lt'.took
    BY <1>3, <2>1, <2>4, <2>t
  <2>5. CASE h = g /\ g \notin lt'.took
    <3>1. fs[g].from = {} /\ x.size # layout[g] /\ fs'[g] = x
      BY <1>3, <2>1, <2>5, <2>t
    <3>2. before[f].from # {}
      BY <1>3 DEF PlacedInv, LocalBefore
    <3>3. OnItsWay(f, g)
      BY <1>1, <1>4, <2>5
    <3>4. Due(g) /\ f # g
      BY <3>1, <3>2, <3>3 DEF OnItsWay
    <3>5. fs'[f] = fs[f]
      BY <2>1, <2>5, <2>t, <3>4
    <3> QED
      BY <1>1, <2>2, <2>5, <3>1, <3>3, <3>4, <3>5 DEF OnItsWay
  <2> QED
    BY <2>3, <2>4, <2>5
<1> QED
  BY <1>5, <1>6, <1>7, <1>8, <1>9, <1>10 DEF Next

\* The files that were there are remembered.
LEMMA LocalBeforeStep ==
    ASSUME PlacedInv, [Next]_vars PROVE LocalBefore'
<1>1. UNCHANGED before
  BY DEF Next, vars, Index, PlaceDone, Finish, Place, RemoveStale, LtWrite
<1> QED
  BY <1>1 DEF PlacedInv, LocalBefore

\* With unique base names every file the torrent wants and the directory had is
\* in its place when the run ends, unless a rename failed or libtorrent took the
\* path for its own data.
THEOREM UniqueFilesPlaced == Spec => []UniquePlaced
<1>1. PlacedInv /\ [Next]_vars => PlacedInv'
  BY CourseStep, LocalBeforeStep, OnlyWrittenStep, PlacingStep DEF PlacedInv
<1>2. PlacedInv => UniquePlaced
  <2> SUFFICES ASSUME PlacedInv, Ended, UniqueNames, ~failed, NEW g \in Wanted,
                      NEW f \in Path, IsSource(f, g)
               PROVE  Exists(g) /\ (g \notin lt.took => fs[g] = before[f])
    BY DEF UniquePlaced, IsSource
  <2>1. ~Due(g)
    BY DEF Ended, Due
  <2>2. before[f] # NoFile
    BY SizeOf DEF PlacedInv, Typed, IsSource, Wanted
  <2> QED
    BY <2>1, <2>2 DEF PlacedInv, Placing, OnItsWay, Exists
<1> QED
  BY <1>1, <1>2, InitInv, PTL DEF Spec

====
