------------------------------- MODULE Paths --------------------------------
(***************************************************************************)
(* Path names, directories and the working directory (filehelper.cpp).  A  *)
(* path is a sequence of characters; a place in the file system is the     *)
(* sequence of the names that lead there.  The file system, which is not   *)
(* part of the program, is modelled by its directories and files.  A name  *)
(* is a sequence of characters too.                                        *)
(***************************************************************************)
EXTENDS Integers, SequencesExt, FiniteSetsExt

CONSTANTS Paths,       \* paths the functions are called with
          Sep,
          Home,        \* the working directory at the beginning, under the root
          Files,       \* places that hold a file
          MaxDirs,     \* bound: directories
          MaxDepth     \* bound: PushWorkingDirectory objects alive

VARIABLES dirs,        \* places that are directories
          cwd,         \* the working directory
          olds,        \* m_old of the PushWorkingDirectory objects, the last one first
          came,        \* where the program was when each was made
          made,        \* the last call of MakeDirs: [path, value, at], or {}
          back         \* where the object that ended last was made, or {}

vars == <<dirs, cwd, olds, came, made, back>>

Init == dirs = {<<>>, Home} /\ cwd = Home /\ olds = <<>> /\ came = <<>> /\ made = {} /\ back = {}
-----------------------------------------------------------------------------
(* The file system: where a path leads from a directory, the empty names   *)
(* between separators left out.                                            *)
Names(path) ==
    LET From == {i \in DOMAIN path : path[i] # Sep /\ (i = 1 \/ path[i - 1] = Sep)}
        EndOf(i) == Min({k \in i .. Len(path) : k = Len(path) \/ path[k + 1] = Sep})
        starts == SetToSortSeq(From, <)
    IN  [n \in DOMAIN starts |-> SubSeq(path, starts[n], EndOf(starts[n]))]
IsAbsolutePath(path) == path # <<>> /\ path[1] = Sep
Place(path) == (IF IsAbsolutePath(path) THEN <<>> ELSE cwd) \o Names(path)
FileExists(path) == path # <<>> /\ Place(path) \in dirs \cup Files
Mkdir(ds, path) ==
    [ok |-> path # <<>> /\ Place(path) \notin ds \cup Files /\ Front(Place(path)) \in ds,
     dirs |-> ds \cup {Place(path)}]

(* MakeDir and MakeDirs: the latter makes the part before each separator,  *)
(* then the whole, and stops at the first that fails.                      *)
MakeDir(ds, path) ==
    IF path # <<>> /\ Place(path) \in ds THEN [ok |-> TRUE, dirs |-> ds]
    ELSE IF path # <<>> /\ Place(path) \in Files THEN [ok |-> FALSE, dirs |-> ds]
    ELSE IF Mkdir(ds, path).ok THEN Mkdir(ds, path) ELSE [ok |-> FALSE, dirs |-> ds]
(* Mistake: the last part is made only if a separator ends it. *)
PartsBeforeSeps(path) ==
    LET seps == SetToSortSeq({i \in DOMAIN path : path[i] = Sep}, <) IN
    [n \in DOMAIN seps |-> SubSeq(path, 1, seps[n] - 1)]
Parts(path) ==
    LET seps == SetToSortSeq({i \in DOMAIN path : path[i] = Sep}, <) IN
    Append([n \in DOMAIN seps |-> SubSeq(path, 1, seps[n] - 1)], path)
MakeDirs(path) ==
    LET Step(acc, part) == IF acc.ok THEN MakeDir(acc.dirs, part) ELSE acc
        done == FoldLeft(Step, [ok |-> path # <<>>, dirs |-> dirs], Parts(path))
    IN  /\ (path # <<>> => Cardinality(done.dirs) <= MaxDirs)
        /\ dirs' = IF path = <<>> THEN dirs ELSE done.dirs
        /\ made' = {[path |-> path, value |-> path # <<>> /\ done.ok, at |-> Place(path)]}
        /\ back' = {} /\ UNCHANGED <<cwd, olds, came>>

(* The constructor remembers where the program is and goes on; the         *)
(* destructor goes back.  A change to a place that is none fails.          *)
ChangeWorkingDirectory(place) == cwd' = IF place \in dirs THEN place ELSE cwd
Push(path) ==
    /\ Len(olds) < MaxDepth
    /\ olds' = <<cwd>> \o olds /\ came' = <<cwd>> \o came
    /\ IF path = <<>> THEN UNCHANGED cwd ELSE ChangeWorkingDirectory(Place(path))
    /\ made' = {} /\ back' = {} /\ UNCHANGED dirs
(* Mistake: the program stays where it is. *)
PopStays ==
    /\ olds # <<>>
    /\ olds' = Tail(olds) /\ came' = Tail(came) /\ back' = {came[1]}
    /\ made' = {} /\ UNCHANGED <<dirs, cwd>>
Pop ==
    /\ olds # <<>>
    /\ ChangeWorkingDirectory(olds[1])
    /\ olds' = Tail(olds) /\ came' = Tail(came) /\ back' = {came[1]}
    /\ made' = {} /\ UNCHANGED dirs

Next == \/ \E path \in Paths : MakeDirs(path) \/ Push(path)
        \/ Pop
Spec == Init /\ [][Next]_vars
-----------------------------------------------------------------------------
(* Functions on names, for the property below.                             *)
RFind(path) == LET S == {i \in DOMAIN path : path[i] = Sep} IN IF S = {} THEN 0 ELSE Max(S)
(* With one separator at least; without, the two versions of FileBasename  *)
(* for Str and char* give nothing and all but the first character.         *)
FileBasename(path) == SubSeq(path, RFind(path) + 1, Len(path))
FileDirname(path) == SubSeq(path, 1, RFind(path) - 1)
StripLeft(r) == SelectInSeq(r, LAMBDA c : c # Sep)
PathJoin(left, right) ==
    LET r == IF StripLeft(right) = 0 THEN <<>> ELSE SubSeq(right, StripLeft(right), Len(right))
        l == SubSeq(left, 1, SelectLastInSeq(left, LAMBDA c : c # Sep))
    IN  IF l = <<>> THEN r ELSE IF r = <<>> THEN l ELSE l \o <<Sep>> \o r
-----------------------------------------------------------------------------
(* MakeDirs of a relative path says whether the directory is there now,    *)
(* with every directory above it, however many separators are between the  *)
(* names (filehelper.cpp:119); it fails only on a file.                    *)
DirectoriesMade ==
    \A m \in made : ~ IsAbsolutePath(m.path) /\ m.path # <<>> =>
        /\ m.value <=> m.at \in dirs
        /\ ~ m.value => \E n \in 1 .. Len(m.at) : SubSeq(m.at, 1, n) \in Files
(* Directories have parents, and none takes the place of a file. *)
TreeOfDirectories == \A d \in dirs : d \notin Files /\ (d # <<>> => Front(d) \in dirs)

(* Objects of PushWorkingDirectory end in the reverse order of their       *)
(* beginnings, and the program is then where it was, also if a change of   *)
(* directory failed in between.                                            *)
ComesBack == cwd \in dirs /\ \A place \in back : cwd = place

(* Joining a path's directory and name gives the path again, but for       *)
(* separators in a row and at the beginning.                               *)
SplitAndJoin ==
    \A p \in Paths :
        /\ RFind(p) # 0 => Names(PathJoin(FileDirname(p), FileBasename(p))) = Names(p)
        /\ \A q \in Paths : Names(PathJoin(p, q)) = Names(p) \o Names(q)
=============================================================================
