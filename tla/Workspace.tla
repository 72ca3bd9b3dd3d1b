----------------------------- MODULE Workspace -----------------------------
(* Finding the workspace of a directory and loading its packages
   (vt_workspace).  A directory is the sequence of its components below the
   root of the file system, a package name the sequence of its parts between
   slashes, so that "@org/app" is <<"@org", "app">> and the empty name <<>>.
   A member glob is the set of directories its text selects, relative to the
   workspace, with the number of `!` the text starts with.

   disk[d] is what directory d holds: pnpm, the globs of its
   pnpm-workspace.yaml, and json, its package.json with name, workspaces, deps
   and scripts; None stands for a file or a field that is missing.  Files that
   cannot be read or parsed are left out. *)
EXTENDS Naturals, FiniteSets, Sequences, SequencesExt

CONSTANT None

Below(dir, root) == SubSeq(dir, Len(root) + 1, Len(dir))

Longest(dirs) == CHOOSE d \in dirs : \A e \in dirs : Len(e) <= Len(d)

-----------------------------------------------------------------------------
(* Member globs: the last one that matches decides, a negated one excludes. *)

Negated(glob) == glob.bangs % 2 = 1

Matches(globs, dir) ==
  LET hits == {i \in DOMAIN globs : dir \in globs[i].dirs}
  IN hits # {} /\ ~Negated(globs[CHOOSE i \in hits : \A j \in hits : j <= i])

InNodeModules(dir) == "node_modules" \in ToSet(dir)

(* Mutant: only the walk leaves node_modules out. *)
IncludesAnywhere(globs, dir) == Matches(globs, dir)

Includes(globs, dir) == ~InNodeModules(dir) /\ Matches(globs, dir)

(* Every inclusion is walked; the set of all globs is asked only when one of
   them is negated. *)
PackageDirs(disk, root, globs) ==
  LET Walked(dir) == \E i \in DOMAIN globs : ~Negated(globs[i]) /\ dir \in globs[i].dirs
      Kept(dir) == (\E i \in DOMAIN globs : Negated(globs[i])) => Matches(globs, dir)
  IN {d \in DOMAIN disk : /\ IsPrefix(root, d)
                          /\ disk[d].json # None
                          /\ ~InNodeModules(Below(d, root))
                          /\ Walked(Below(d, root))
                          /\ Kept(Below(d, root))}

-----------------------------------------------------------------------------
(* The walk from the current directory up to the workspace. *)

PackagesUp(disk, cwd) == {d \in Prefixes(cwd) : disk[d].json # None}

NearestBelow(disk, cwd, dir) ==
  LET found == {d \in PackagesUp(disk, cwd) : Len(d) > Len(dir)}
  IN IF found = {} THEN None ELSE Longest(found)

IncludesPackage(globs, root, nearest) ==
  nearest = None \/ Includes(globs, Below(nearest, root))

(* pnpm-workspace.yaml decides membership even when its globs leave the current
   package out: the "workspaces" of the same directory are then not asked. *)
MemberGlobs(here) ==
  IF here.pnpm # None THEN here.pnpm
  ELSE IF here.json # None THEN here.json.workspaces ELSE None

IsWorkspaceOf(disk, cwd, dir) ==
  LET globs == MemberGlobs(disk[dir])
  IN globs # None /\ IncludesPackage(globs, dir, NearestBelow(disk, cwd, dir))

FindPackageRoot(disk, cwd) ==
  IF PackagesUp(disk, cwd) = {} THEN None
  ELSE [path |-> Longest(PackagesUp(disk, cwd)), globs |-> None]

FindWorkspaceRoot(disk, cwd) ==
  LET roots == {d \in Prefixes(cwd) : IsWorkspaceOf(disk, cwd, d)}
  IN IF roots = {} THEN FindPackageRoot(disk, cwd)
     ELSE [path |-> Longest(roots), globs |-> MemberGlobs(disk[Longest(roots)])]

-----------------------------------------------------------------------------
(* The package graph. *)

(* Only `workspace:` versions count; `workspace:name@version` is an alias. *)
WorkspaceDependencies(json) ==
  {[name |-> IF d.alias = None THEN d.key ELSE d.alias, type |-> d.type] :
     d \in {x \in json.deps : x.workspace}}

DefaultPackage == [name |-> <<>>, workspaces |-> None, deps |-> {}, scripts |-> <<>>]

PackageAt(disk, dir) == IF disk[dir].json = None THEN DefaultPackage ELSE disk[dir].json

(* A dependency on a name that two packages share is refused, one on a name no
   package has is external, and one on the package itself is no edge. *)
BuildGraph(disk, root, dirs) ==
  LET Named(name) == {d \in dirs : PackageAt(disk, d).name = name}
      Asked(d) == {x \in WorkspaceDependencies(PackageAt(disk, d)) : x.name # <<>>}
  IN IF \E d \in dirs : \E x \in Asked(d) : Cardinality(Named(x.name)) > 1
     THEN [error |-> "DuplicatedPackageName"]
     ELSE [error |-> None, root |-> root, nodes |-> dirs,
           package |-> [d \in dirs |-> PackageAt(disk, d)],
           edges |-> UNION {UNION {{<<d, e, x.type>> : e \in Named(x.name) \ {d}} : x \in Asked(d)} : d \in dirs}]

(* The root package is added when no glob includes it. *)
LoadedDirs(disk, workspace) ==
  {workspace.path} \cup
    (IF workspace.globs = None THEN {} ELSE PackageDirs(disk, workspace.path, workspace.globs))

LoadPackageGraph(disk, workspace) == BuildGraph(disk, workspace.path, LoadedDirs(disk, workspace))
=============================================================================
