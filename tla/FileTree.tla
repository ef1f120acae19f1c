------------------------------ MODULE FileTree ------------------------------
(***************************************************************************)
(* From the directory that is served to the places in the downloads folder *)
(* (fsys/dir.go, fsys/symlink.go; node/node.go, the beginning of send and  *)
(* the placing in receive).                                                *)
(*                                                                         *)
(* GetDir walks the tree entry by entry, depth first, while entries may    *)
(* be moved away.  An entry it cannot look at, or a directory it cannot    *)
(* read, is an error of the whole walk, and send panics; a file or symlink *)
(* it cannot open is skipped.  After ACCEPT, SetRelativePaths makes every  *)
(* path relative to the directory, and the receiver joins them to its own. *)
(*                                                                         *)
(* Entry 0 is the directory served.  A path is the sequence of the names   *)
(* from the root of the file system; names are numbers.                    *)
(***************************************************************************)
EXTENDS Integers, SequencesExt

CONSTANTS
  Entries,    \* what may be in the tree
  Trees,      \* the trees that may be served
  Base,       \* the path of the directory served
  Downloads,  \* the path of the downloads folder
  MaxMoved    \* bound: nothing more is moved away once so many entries are gone

Paths == Seq(Nat)
Nodes == {0} \cup Entries

\* ok: a file can be opened for reading and writing, a directory be read.
\* target: of a symlink; absolute or not, and the names in it.
EntryRecords ==
  [kind : {"dir", "file", "link"}, parent : Nodes, name : Nat, ok : BOOLEAN,
   size : Nat, absolute : BOOLEAN, target : Paths]

\* Numbered from the root down; what is in a directory has different names.
IsTree(t) ==
  /\ t \in [Entries -> EntryRecords]
  /\ \A e \in Entries :
       /\ t[e].parent < e
       /\ t[e].parent # 0 => t[t[e].parent].kind = "dir"
       /\ \A f \in Entries : t[e].parent = t[f].parent /\ t[e].name = t[f].name => e = f

ASSUME FileTreeAssumption ==
  /\ Entries \subseteq Nat \ {0} /\ IsFiniteSet(Entries)
  /\ Base \in Paths \ {<<>>} /\ Downloads \in Paths
  /\ MaxMoved \in Nat
  /\ \A t \in Trees : IsTree(t)

VARIABLES
  pc,         \* "walk", "serving" (the offer can be made), "sending" or "panic"
  recursive,  \* the flag -r
  tree,       \* what is served
  here,       \* the entries that have not been moved away
  stack,      \* the calls of GetDir that are running, the outermost first
  looked,     \* entry.Info has succeeded for the entry whose turn it is
  found,      \* the Directory that GetDir has returned for an entry
  accepted,   \* ACCEPT has come
  FilesToSend, SymlinksToSend, TotalTransferSize,
  DownloadsPath  \* of the receiver

vars == <<pc, recursive, tree, here, stack, looked, found, accepted,
          FilesToSend, SymlinksToSend, TotalTransferSize, DownloadsPath>>

-----------------------------------------------------------------------------
(* Paths.                                                                  *)

PathBelowBase[e \in Nodes] ==
  IF e = 0 THEN <<>> ELSE Append(PathBelowBase[tree[e].parent], tree[e].name)

Path(e) == Base \o PathBelowBase[e]

\* filepath.Rel of two absolute paths: so many times "..", then names.
Rel(base, path) ==
  LET common == Len(LongestCommonPrefix({base, path}))
  IN  [up |-> Len(base) - common, down |-> SubSeq(path, common + 1, Len(path))]

\* filepath.Join, which also resolves "..".
Join(path, rel) == SubSeq(path, 1, Max({Len(path) - rel.up, 0})) \o rel.down

-----------------------------------------------------------------------------
(* GetDir.                                                                 *)

\* os.ReadDir sorts by name.
ReadDir(dir) ==
  CHOOSE entries \in SetToSeqs({e \in here : tree[e].parent = dir}) :
    \A i, j \in DOMAIN entries : i < j => tree[entries[i]].name < tree[entries[j]].name

Lists == Seq(Entries)
Directories == [Files : Lists, Symlinks : Lists, Directories : Lists, Size : Nat]
CallRecords ==
  [dir : Nodes, entries : Lists, Files : Lists, Symlinks : Lists, Directories : Lists, Size : Nat]

Call(dir, entries) ==
  [dir |-> dir, entries |-> entries, Files |-> <<>>, Symlinks |-> <<>>, Directories |-> <<>>,
   Size |-> 0]

Current == stack[Len(stack)]
Entry == Head(Current.entries)
Update(call) == stack' = [stack EXCEPT ![Len(stack)] = call]
Rest == [Current EXCEPT !.entries = Tail(@)]

sendVars == <<accepted, FilesToSend, SymlinksToSend, TotalTransferSize, DownloadsPath>>

Walking == pc = "walk" /\ Current.entries # <<>>

Look ==
  /\ Walking /\ ~looked
  /\ \/ Entry \in here /\ looked' = TRUE /\ UNCHANGED pc
     \/ Entry \notin here /\ pc' = "panic" /\ UNCHANGED looked
  /\ UNCHANGED <<recursive, tree, here, stack, found, sendVars>>

\* Mutant of GetFile: a file that cannot be opened ends the walk.
GetFileOrFail ==
  /\ Walking /\ looked /\ tree[Entry].kind = "file"
  /\ looked' = FALSE
  /\ \/ /\ Entry \in here /\ tree[Entry].ok
        /\ Update([Rest EXCEPT !.Files = Append(@, Entry), !.Size = @ + tree[Entry].size])
        /\ UNCHANGED pc
     \/ ~(Entry \in here /\ tree[Entry].ok) /\ pc' = "panic" /\ UNCHANGED stack
  /\ UNCHANGED <<recursive, tree, here, found, sendVars>>

\* Mutant of GetFile: the size the entry has is added before the file is opened.
GetFileSizeFirst ==
  /\ Walking /\ looked /\ tree[Entry].kind = "file"
  /\ looked' = FALSE
  /\ \/ /\ Entry \in here /\ tree[Entry].ok
        /\ Update([Rest EXCEPT !.Files = Append(@, Entry), !.Size = @ + tree[Entry].size])
     \/ /\ ~(Entry \in here /\ tree[Entry].ok)
        /\ Update([Rest EXCEPT !.Size = @ + tree[Entry].size])
  /\ UNCHANGED <<pc, recursive, tree, here, found, sendVars>>

GetFile ==
  /\ Walking /\ looked /\ tree[Entry].kind = "file"
  /\ looked' = FALSE
  /\ \/ /\ Entry \in here /\ tree[Entry].ok
        /\ Update([Rest EXCEPT !.Files = Append(@, Entry), !.Size = @ + tree[Entry].size])
     \/ ~(Entry \in here /\ tree[Entry].ok) /\ Update(Rest)
  /\ UNCHANGED <<pc, recursive, tree, here, found, sendVars>>

GetSymlink ==
  /\ Walking /\ looked /\ tree[Entry].kind = "link"
  /\ looked' = FALSE
  /\ \/ Entry \in here /\ Update([Rest EXCEPT !.Symlinks = Append(@, Entry)])
     \/ Entry \notin here /\ Update(Rest)
  /\ UNCHANGED <<pc, recursive, tree, here, found, sendVars>>

\* The test for fs.ErrPermission never holds, for os.ReadDir wraps it: a
\* directory that may not be read ends the walk like any other error.
GetInnerDir ==
  /\ Walking /\ looked /\ tree[Entry].kind = "dir"
  /\ \/ /\ ~recursive
        /\ looked' = FALSE /\ Update(Rest) /\ UNCHANGED pc
     \/ /\ recursive /\ Entry \in here /\ tree[Entry].ok
        /\ looked' = FALSE /\ UNCHANGED pc
        /\ stack' = Append(stack, Call(Entry, ReadDir(Entry)))
     \/ /\ recursive /\ ~(Entry \in here /\ tree[Entry].ok)
        /\ pc' = "panic" /\ UNCHANGED <<looked, stack>>
  /\ UNCHANGED <<recursive, tree, here, found, sendVars>>

Directory(call) ==
  [Files |-> call.Files, Symlinks |-> call.Symlinks, Directories |-> call.Directories,
   Size |-> call.Size]

\* Mutants of ReturnTo: the inner directory is not added; nor is its size.
ReturnToWithout(caller) ==
  [caller EXCEPT !.entries = Tail(@), !.Size = @ + Current.Size]
ReturnToNoSize(caller) ==
  [caller EXCEPT !.entries = Tail(@), !.Directories = Append(@, Current.dir)]

\* The caller adds the inner directory and its size, and goes to its next entry.
ReturnTo(caller) ==
  [caller EXCEPT !.entries = Tail(@), !.Directories = Append(@, Current.dir),
                 !.Size = @ + Current.Size]

Return ==
  /\ pc = "walk" /\ Current.entries = <<>>
  /\ found' = [found EXCEPT ![Current.dir] = Directory(Current)]
  /\ \/ /\ Len(stack) > 1
        /\ stack' = Append(SubSeq(stack, 1, Len(stack) - 2), ReturnTo(stack[Len(stack) - 1]))
        /\ UNCHANGED <<pc, TotalTransferSize>>
     \/ /\ Len(stack) = 1
        /\ pc' = "serving" /\ stack' = <<>>
        /\ TotalTransferSize' = Current.Size
  /\ UNCHANGED <<recursive, tree, here, looked, accepted, FilesToSend, SymlinksToSend,
                 DownloadsPath>>

-----------------------------------------------------------------------------
(* ACCEPT.                                                                 *)

\* Flatten the Directory found for dir, its own part first.
All(own) ==
  LET all[dir \in DOMAIN found] ==
        own[dir] \o
        IF recursive
          THEN FlattenSeq([i \in DOMAIN found[dir].Directories |-> all[found[dir].Directories[i]]])
          ELSE <<>>
  IN  all[0]

GetAllFiles == All([dir \in DOMAIN found |-> found[dir].Files])
GetAllSymlinks == All([dir \in DOMAIN found |-> found[dir].Symlinks])

\* SetRelativePaths.  filepath.Rel has no answer for a target that is relative
\* while the base is absolute.
CanSetRelativePaths == \A i \in DOMAIN GetAllSymlinks : tree[GetAllSymlinks[i]].absolute

RelativeFile(e) == [entry |-> e, RelativeParentPath |-> Rel(Base, Path(e))]

\* Mutant of RelativeSymlink: the target from the symlink's own directory.
RelativeSymlinkOwn(e) ==
  [entry |-> e, Path |-> Rel(Base, Path(e)),
   TargetPath |-> Rel(Base \o PathBelowBase[tree[e].parent], tree[e].target)]

RelativeSymlink(e) ==
  [entry |-> e, Path |-> Rel(Base, Path(e)), TargetPath |-> Rel(Base, tree[e].target)]

\* The user says yes, and the receiver makes a folder with the directory's name
\* to download everything to.  If it cannot, everything goes to the downloads
\* folder itself.
AnswerYes ==
  DownloadsPath' \in {Downloads, Append(Downloads, Last(Base))}

\* The user has said yes, and the receiver's ACCEPT comes.
OnAccept ==
  /\ pc = "serving"
  /\ AnswerYes
  /\ accepted' = TRUE
  /\ \/ /\ CanSetRelativePaths
        /\ pc' = "sending"
        /\ FilesToSend' = [i \in DOMAIN GetAllFiles |-> RelativeFile(GetAllFiles[i])]
        /\ SymlinksToSend' = [i \in DOMAIN GetAllSymlinks |-> RelativeSymlink(GetAllSymlinks[i])]
     \/ /\ ~CanSetRelativePaths
        /\ pc' = "panic"
        /\ UNCHANGED <<FilesToSend, SymlinksToSend>>
  /\ UNCHANGED <<recursive, tree, here, stack, looked, found, TotalTransferSize>>

\* What the receiver makes of the paths.

\* Mutant of PlaceOfFile: under its name, as a single file is placed.
PlaceOfFileByName(file) == Append(DownloadsPath, Last(Path(file.entry)))

PlaceOfFile(file) == Join(DownloadsPath, file.RelativeParentPath)
PlaceOfSymlink(symlink) == Join(DownloadsPath, symlink.Path)
SymlinkPointsTo(symlink) == Join(DownloadsPath, symlink.TargetPath)

-----------------------------------------------------------------------------

Below(e) == {b \in Entries : IsPrefix(PathBelowBase[e], PathBelowBase[b])}

MoveAway ==
  /\ pc = "walk"
  /\ Cardinality(Entries \ here) < MaxMoved
  /\ \E e \in here : here' = here \ Below(e)
  /\ UNCHANGED <<pc, recursive, tree, stack, looked, found, sendVars>>

Init ==
  /\ pc = "walk"
  /\ recursive \in BOOLEAN
  /\ tree \in Trees
  /\ here = Entries
  /\ stack = <<Call(0, ReadDir(0))>> /\ looked = FALSE
  /\ found = [dir \in Nodes |-> Directory(Call(dir, <<>>))]
  /\ accepted = FALSE
  /\ FilesToSend = <<>> /\ SymlinksToSend = <<>> /\ TotalTransferSize = 0
  /\ DownloadsPath = Downloads

Next ==
  \/ Look \/ GetFile \/ GetSymlink \/ GetInnerDir \/ Return
  \/ OnAccept
  \/ MoveAway

Spec == Init /\ [][Next]_vars

-----------------------------------------------------------------------------
(* Properties.                                                             *)

TypeOK ==
  /\ pc \in {"walk", "serving", "sending", "panic"}
  /\ recursive \in BOOLEAN /\ accepted \in BOOLEAN /\ looked \in BOOLEAN
  /\ IsTree(tree)
  /\ here \subseteq Entries
  /\ found \in [Nodes -> Directories]
  /\ stack \in Seq(CallRecords)
  /\ \A i \in 1 .. Len(stack) - 1 :
       stack[i].entries # <<>> /\ stack[i + 1].dir = Head(stack[i].entries)
  /\ (pc = "walk" => stack # <<>>) /\ (looked => Current.entries # <<>>)
  /\ TotalTransferSize \in Nat
  /\ DownloadsPath \in {Downloads, Append(Downloads, Last(Base))}

InReach(e) == recursive \/ tree[e].parent = 0

\* Whatever is moved away during the walk: a file that stays, in reach and fit
\* to be opened, is in the list of what will be sent, and no file is twice.
EveryFileOnce ==
  pc \in {"serving", "sending"} =>
    /\ IsInjective(GetAllFiles)
    /\ \A e \in Entries :
         tree[e].kind = "file" =>
           /\ e \in here /\ tree[e].ok /\ InReach(e) => e \in Range(GetAllFiles)
           /\ e \in Range(GetAllFiles) => tree[e].ok /\ InReach(e)

\* The size that is offered, and that both progress displays count up to, is
\* that of the files in the list, inner directories included.
SizeIsSum ==
  pc = "sending" =>
    TotalTransferSize =
      FoldSeq(LAMBDA file, sum : sum + tree[file.entry].size, 0, FilesToSend)

\* A symlink to a file of the tree arrives as a symlink to the place in which
\* the receiver puts that file.
LinksLandOnFiles ==
  pc = "sending" =>
    \A i \in DOMAIN SymlinksToSend, j \in DOMAIN FilesToSend :
      tree[SymlinksToSend[i].entry].target = Path(FilesToSend[j].entry) =>
        SymlinkPointsTo(SymlinksToSend[i]) = PlaceOfFile(FilesToSend[j])

\* No two entries arrive in the same place, and all of them below the folder that
\* the receiver downloads to, whether that is one with the directory's name or,
\* if it could not be made, the downloads folder itself: no transfer overwrites
\* what it has brought itself.
PlacesApart ==
  pc = "sending" =>
    LET files == [i \in DOMAIN FilesToSend |-> PlaceOfFile(FilesToSend[i])]
        links == [i \in DOMAIN SymlinksToSend |-> PlaceOfSymlink(SymlinksToSend[i])]
    IN  /\ IsInjective(files \o links)
        /\ \A place \in Range(files \o links) : IsStrictPrefix(DownloadsPath, place)

\* Before the offer, only a directory that may not be read and entries that
\* are moved away end the sender; files that cannot be opened do not.
WalkStopsOnlyForDirs ==
  pc = "panic" /\ ~accepted =>
    \/ here # Entries
    \/ \E e \in Entries : tree[e].kind = "dir" /\ ~tree[e].ok

\* What has been accepted is sent: "Sent by sender AFTER ALL FILES has been
\* sent already" is said of symlinks (headers.go:119), whatever they point to.
AcceptedIsSent == accepted => pc = "sending"

=============================================================================
