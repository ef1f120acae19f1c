----------------------------- MODULE MCFileTree -----------------------------
(***************************************************************************)
(* Values for TLC: every tree of three entries in which directories and    *)
(* files may or may not be opened and a symlink points, by an absolute     *)
(* path, to an entry before it, to the directory itself or out of it, or   *)
(* by a relative path.  Siblings are named 1, 2, ... so that names repeat  *)
(* in different directories; sizes are powers of two, so that sums differ. *)
(***************************************************************************)
EXTENDS FileTreeInvariant

MCBase == <<7, 8>>
MCDownloads == <<7, 9, 9>>

Name(parents, e) == Cardinality({s \in 1 .. e : parents[s] = parents[e]})

RECURSIVE PathTo(_, _)
PathTo(parents, e) ==
  IF e = 0 THEN MCBase ELSE Append(PathTo(parents, parents[e]), Name(parents, e))

Dirs(parents, e) ==
  {[kind |-> "dir", parent |-> parents[e], name |-> Name(parents, e), ok |-> ok,
    size |-> 0, absolute |-> TRUE, target |-> <<>>] : ok \in BOOLEAN}
Files(parents, e) ==
  {[kind |-> "file", parent |-> parents[e], name |-> Name(parents, e), ok |-> ok,
    size |-> 2^e, absolute |-> TRUE, target |-> <<>>] : ok \in BOOLEAN}
Links(parents, e) ==
  {[kind |-> "link", parent |-> parents[e], name |-> Name(parents, e), ok |-> TRUE,
    size |-> 0, absolute |-> TRUE, target |-> target] :
      target \in {PathTo(parents, t) : t \in 0 .. e - 1} \cup {<<7, 6>>}}
  \cup {[kind |-> "link", parent |-> parents[e], name |-> Name(parents, e), ok |-> TRUE,
         size |-> 0, absolute |-> FALSE, target |-> <<1>>]}

Parents == {p \in [Entries -> 0 .. Cardinality(Entries) - 1] : \A e \in Entries : p[e] < e}

TreesOf(parents) ==
  LET inner == Range(parents) \ {0}
      choices(e) == IF e \in inner THEN Dirs(parents, e)
                    ELSE Dirs(parents, e) \cup Files(parents, e) \cup Links(parents, e)
  IN  {t \in [Entries -> UNION {choices(e) : e \in Entries}] :
         \A e \in Entries : t[e] \in choices(e)}

AllTrees == UNION {TreesOf(parents) : parents \in Parents}

=============================================================================
