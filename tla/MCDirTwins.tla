----------------------------- MODULE MCDirTwins -----------------------------
(***************************************************************************)
(* Two roots: a directory with two sub-directories of the same shape, and  *)
(* a root that is a regular file.  At most Faults entries have a fate of   *)
(* their own.                                                              *)
(***************************************************************************)
EXTENDS DirTwins, TLC

CONSTANTS Faults, FaultSites

\* Three more files of one folder, which the walk is not told of unless they are
\* what a disk is about: their events fall into one cell of the account.
Crowd == {<<1, 3>>, <<1, 4>>, <<1, 5>>}

MCEntries ==
    {<<1>>, <<1, 1>>, <<1, 1, 1>>, <<1, 1, 2>>, <<1, 1, 2, 1>>,
     <<1, 2>>, <<1, 2, 1>>, <<1, 2, 2>>, <<1, 2, 2, 1>>, <<2>>} \cup Crowd

MCFolders == {<<1>>, <<1, 1>>, <<1, 1, 2>>, <<1, 2>>, <<1, 2, 2>>}
MCRoots == << <<1>>, <<2>> >>
MCAliasTarget == <<1, 1>>
MCSizeOf == [c \in {"c1", "c2", "c3"} |-> IF c = "c3" THEN 2 ELSE 1]

MCFiles == MCEntries \ MCFolders

MCSites == {<<1, 1>>, <<1, 1, 1>>, <<1, 1, 2>>, <<1, 2>>, <<1, 2, 1>>, <<2>>}

Plain ==
    [p \in MCFolders \cup MCFiles |->
        IF p \in MCFolders THEN "listed" ELSE IF p \in Crowd THEN "excluded" ELSE "kept"]

Fates ==
    UNION {{[p \in DOMAIN Plain |-> IF p \in sites THEN f[p] ELSE Plain[p]] :
             f \in {g \in [sites -> FileFates \cup FolderFates] :
                      \A p \in sites : g[p] \in IF p \in MCFolders THEN FolderFates ELSE FileFates}} :
           sites \in {s \in SUBSET FaultSites : Cardinality(s) = Faults}}

\* Up to three events in one cell: the account holds MaxI64 and MaxU64 of them.
CrowdedFates ==
    {[p \in DOMAIN Plain |-> IF p \in Crowd THEN f[p] ELSE Plain[p]] :
        f \in [Crowd -> {"filtered", "nonutf8", "excluded"}]}

Disk(c2, c3, unread) ==
    [content |-> [f \in MCFiles |-> IF f \in c2 THEN "c2" ELSE IF f \in c3 THEN "c3" ELSE "c1"],
     unread |-> unread]

Disks ==
    {Disk({}, {}, {}), Disk({<<1, 1, 1>>}, {}, {}), Disk({}, {<<1, 1, 2, 1>>, <<2>>}, {}),
     Disk({}, {}, {<<1, 2, 2, 1>>})}

MCWorlds ==
    {[fate |-> f, content |-> disk.content, unread |-> disk.unread] : f \in Fates \cup CrowdedFates, disk \in Disks}
=============================================================================
