---------------------------- MODULE PairingOverlay ----------------------------
(* The test overlay of the pairing runner: the checks on a Sophia checkout,  *)
(* the files and mounts that are laid over a detached scratch copy of it,    *)
(* and the manifest that names them (runner/src/overlay.rs and legacy.rs).   *)
(*                                                                           *)
(* A checkout is a record of its head commit, its tree (a function from the  *)
(* paths that exist to their contents) and whether git sees untracked files. *)
(* A content is the sequence of its lines; a hash of it is the content.      *)
EXTENDS Naturals, Sequences, FiniteSets, TLC

CONSTANTS
    Commit,          \* the commits of the Sophia repository
    CommitTree,      \* the tree that each of them records
    Compatibility,   \* compatibility.json: the pinned commit and hashes
    Fixtures,        \* FIXTURES: path |-> content, all under DIRECTORY
    Mounts,          \* MOUNTS.tsv: <<[destination, contents, parent, anchor, lines]>>
    MountPath,       \* MOUNT
    QidPath,         \* QID_MOUNT
    MountText,       \* MOUNT_TEXT
    QidText,         \* QID_TEXT
    Dependencies     \* <<[path, context, replacement]>>: the two Cargo edits

ASSUME PinnedIsACommit ==
    /\ Compatibility.sophia_commit \in Commit
    /\ DOMAIN CommitTree = Commit

(* The embedded recipes: what they edit exists at the pinned commit, an edit *)
(* changes it, and no recipe appends to a file that is edited otherwise.     *)
Edited == {MountPath, QidPath} \cup {Dependencies[d].path : d \in DOMAIN Dependencies}

ASSUME OverlayAssumption ==
    /\ MountPath # QidPath
    /\ Edited \subseteq DOMAIN CommitTree[Compatibility.sophia_commit]
    /\ \A p \in DOMAIN CommitTree[Compatibility.sophia_commit] :
           CommitTree[Compatibility.sophia_commit][p] \in Seq(STRING)
    /\ MountText \in Seq(STRING) \ {<<>>} /\ QidText \in Seq(STRING) \ {<<>>}
    /\ \A d \in DOMAIN Dependencies :
           /\ Dependencies[d].path \notin {MountPath, QidPath}
           /\ Dependencies[d].replacement \in Seq(STRING) \ {<<Dependencies[d].context>>}
    /\ Mounts \in Seq([destination : STRING, contents : Seq(STRING), parent : STRING,
                      anchor : STRING, lines : Seq(STRING) \ {<<>>}])
    /\ \A m \in DOMAIN Mounts : Mounts[m].parent \notin Edited

-----------------------------------------------------------------------------
(* Contents.                                                                 *)

Occurrences(line, content) ==
    Cardinality({i \in DOMAIN content : content[i] = line})

(* replacen(context, replacement, 1), for a context that occurs once.        *)
Replaced(content, context, replacement) ==
    LET at == CHOOSE i \in DOMAIN content : content[i] = context
    IN  SubSeq(content, 1, at - 1) \o replacement
            \o SubSeq(content, at + 1, Len(content))

-----------------------------------------------------------------------------
(* The checks on a checkout.                                                 *)

(* git status --porcelain --untracked-files=all is empty.                    *)
Clean(checkout) ==
    /\ checkout.tree = CommitTree[checkout.head]
    /\ ~checkout.untracked

(* validate_mount: the expected bytes, not already mounting the pairing.     *)
ValidMount(content) ==
    /\ content = Compatibility.mount
    /\ \A i \in DOMAIN MountText : Occurrences(MountText[i], content) = 0

(* legacy::validate: each parent has its pinned bytes and its anchor once,   *)
(* and no destination exists yet.                                            *)
ValidMounts(tree) ==
    \A m \in DOMAIN Mounts :
        /\ Mounts[m].parent \in DOMAIN tree
        /\ tree[Mounts[m].parent] = Compatibility.legacy_mount[Mounts[m].parent]
        /\ Occurrences(Mounts[m].anchor, tree[Mounts[m].parent]) = 1
        /\ Mounts[m].destination \notin DOMAIN tree

ValidSource(checkout) ==
    /\ checkout.head = Compatibility.sophia_commit
    /\ Clean(checkout)
    /\ ValidMount(checkout.tree[MountPath])
    /\ checkout.tree[QidPath] = Compatibility.qid_mount
    /\ DOMAIN checkout.tree \cap DOMAIN Fixtures = {}
    /\ \A d \in DOMAIN Dependencies :
           checkout.tree[Dependencies[d].path] = Compatibility.dependencies[d]
    /\ ValidMounts(checkout.tree)

-----------------------------------------------------------------------------
(* The overlay.                                                              *)

(* git clone --no-checkout and git checkout --detach of the pinned commit:   *)
(* whatever the caller's working tree holds, the scratch starts from it.     *)
Scratch ==
    [head |-> Compatibility.sophia_commit,
     tree |-> CommitTree[Compatibility.sophia_commit], untracked |-> FALSE]

(* Files laid over a tree.                                                   *)
Laid(files, tree) ==
    [p \in DOMAIN files \cup DOMAIN tree |->
        IF p \in DOMAIN files THEN files[p] ELSE tree[p]]

(* The fixtures and the two mounts of the Session tree.                      *)
FixturesInstalled(tree) ==
    Laid(Fixtures, [tree EXCEPT ![MountPath] = @ \o MountText,
                                ![QidPath] = @ \o QidText])

(* The dependency edits. Each needs its context exactly once.                *)
DependenciesFit(tree) ==
    \A d \in DOMAIN Dependencies :
        Occurrences(Dependencies[d].context, tree[Dependencies[d].path]) = 1

DependenciesAdded(tree) ==
    [p \in DOMAIN tree |->
        IF \E d \in DOMAIN Dependencies : Dependencies[d].path = p
        THEN LET d == CHOOSE d \in DOMAIN Dependencies : Dependencies[d].path = p
             IN  Replaced(tree[p], Dependencies[d].context, Dependencies[d].replacement)
        ELSE tree[p]]

(* legacy::apply: the recipes in their order, each copying its file and      *)
(* appending its mount to a parent that a former recipe may have changed.    *)
MountFits(mount, tree) ==
    /\ mount.destination \notin DOMAIN tree
    /\ Occurrences(mount.anchor, tree[mount.parent]) = 1

MountApplied(mount, tree) ==
    Laid([p \in {mount.destination} |-> mount.contents],
         [tree EXCEPT ![mount.parent] = @ \o mount.lines])

Applied(start) ==
    LET after[n \in 0..Len(Mounts)] ==
            IF n = 0 THEN [tree |-> start, fits |-> TRUE]
            ELSE [tree |-> MountApplied(Mounts[n], after[n - 1].tree),
                  fits |-> after[n - 1].fits /\ MountFits(Mounts[n], after[n - 1].tree)]
    IN  after[Len(Mounts)]

(* Recording a parent when its recipe is applied, before the next recipe     *)
(* that appends to it.                                                       *)
MountFilesEarly(tree) ==
    {[path |-> Mounts[m].destination, content |-> Mounts[m].contents] :
        m \in DOMAIN Mounts}
    \cup {[path |-> Mounts[m].parent,
           content |-> SubSeq(tree[Mounts[m].parent], 1,
                              Len(tree[Mounts[m].parent]) - Len(Mounts[m].lines))] :
        m \in DOMAIN Mounts}

(* The manifest of legacy::apply: the copies as they are written, and each   *)
(* parent once, after every recipe.                                          *)
MountFiles(tree) ==
    {[path |-> Mounts[m].destination, content |-> Mounts[m].contents] :
        m \in DOMAIN Mounts}
    \cup {[path |-> Mounts[m].parent, content |-> tree[Mounts[m].parent]] :
        m \in DOMAIN Mounts}

(* prepare, on a scratch that validate_source accepted: the overlaid tree,   *)
(* the files of the manifest and whether every context was unambiguous.      *)
Prepared ==
    LET based == FixturesInstalled(Scratch.tree)
        fits == DependenciesFit(based)
        added == IF fits THEN DependenciesAdded(based) ELSE based
        mounted == Applied(added)
        direct == DOMAIN Fixtures \cup Edited
    IN  [fits |-> ValidSource(Scratch) /\ fits /\ mounted.fits,
         tree |-> mounted.tree,
         files |-> {[path |-> p, content |-> added[p]] : p \in direct}
                       \cup MountFiles(mounted.tree)]
=============================================================================
