-------------------------- MODULE FileTreeInvariant --------------------------
(***************************************************************************)
(* What the walk has done when it is in the middle of it: each running     *)
(* call of GetDir has dealt with the entries it is past, and each          *)
(* directory it has returned from is complete.                             *)
(***************************************************************************)
EXTENDS FileTree

\* Nothing is in the tree without the directory it is in.
Rooted == \A e \in here : tree[e].parent \in {0} \cup here

\* Entries of one kind in one directory, each of them once.
Listed(list, dir, kind) ==
  /\ IsInjective(list)
  /\ \A e \in Range(list) : tree[e].parent = dir /\ tree[e].kind = kind

\* What a Directory, or a call on the way to it, may hold.
Kept(d, dir) ==
  /\ Listed(d.Files, dir, "file") /\ \A e \in Range(d.Files) : tree[e].ok
  /\ Listed(d.Symlinks, dir, "link")
  /\ Listed(d.Directories, dir, "dir") /\ (d.Directories # <<>> => recursive)

Sizes == [e \in Entries |-> tree[e].size]
SizesFound == [e \in Entries |-> found[e].Size]
Total(list, size) == FoldSeq(LAMBDA e, sum : sum + size[e], 0, list)

Counted(d) ==
  d.Size = Total(d.Files, Sizes) + Total(d.Directories, SizesFound)

\* Nothing that is still there has been left out.
Dealt(e, d) ==
  /\ tree[e].kind = "file" /\ tree[e].ok => e \in Range(d.Files)
  /\ tree[e].kind = "dir" /\ recursive => e \in Range(d.Directories)

Nothing(dir) == Directory(Call(dir, <<>>))

\* GetDir has returned with all of dir.
Finished(dir) ==
  /\ Counted(found[dir])
  /\ \A e \in here : tree[e].parent = dir => Dealt(e, found[dir])

\* A call: what it has dealt with and what it has not, and that it has not returned.
Running(call) ==
  /\ call.dir # 0 => recursive /\ tree[call.dir].kind = "dir"
  /\ Kept(call, call.dir) /\ Counted(call)
  /\ IsInjective(call.entries)
  /\ \A e \in Range(call.entries) :
       tree[e].parent = call.dir /\ e \notin Range(call.Files \o call.Symlinks \o call.Directories)
  /\ \A e \in here : tree[e].parent = call.dir => e \in Range(call.entries) \/ Dealt(e, call)
  /\ found[call.dir] = Nothing(call.dir)

Calls ==
  \A i \in DOMAIN stack :
    /\ Running(stack[i])
    /\ \A e \in Range(stack[i].Directories) : Finished(e)

Founds ==
  \A dir \in Nodes :
    /\ Kept(found[dir], dir)
    /\ \A e \in Range(found[dir].Directories) : Finished(e)

\* Only what has been returned to a caller has been found.
Untouched ==
  \A e \in Entries :
    \/ found[e] = Nothing(e)
    \/ e \in Range(found[tree[e].parent].Directories)
    \/ \E i \in DOMAIN stack : e \in Range(stack[i].Directories)

\* Where the walk is: from the directory served down to the current one.
Nested ==
  /\ pc = "walk" => stack # <<>> /\ stack[1].dir = 0
  /\ pc \in {"serving", "sending"} =>
       Finished(0) /\ TotalTransferSize = found[0].Size
  /\ pc = "sending" =>
       /\ accepted
       /\ FilesToSend = [i \in DOMAIN GetAllFiles |-> RelativeFile(GetAllFiles[i])]
       /\ SymlinksToSend = [i \in DOMAIN GetAllSymlinks |-> RelativeSymlink(GetAllSymlinks[i])]

TInv == TypeOK /\ Rooted /\ Calls /\ Founds /\ Untouched /\ Nested /\ WalkStopsOnlyForDirs

=============================================================================
