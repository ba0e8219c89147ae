---------------------------- MODULE MCDriveScan ----------------------------
(* Small drives for the scan: a folder "a" with one file, a file beside it. *)
EXTENDS DriveScanProps

Node(i, p, w, d) == [id |-> i, parent |-> p, name |-> w, dir |-> d]

FolderA == Node(1, 0, <<"a">>, TRUE)
FileB   == Node(2, 0, <<"b">>, FALSE)
FileX   == Node(3, 1, <<"x">>, FALSE)
FileY   == Node(4, 1, <<"y">>, FALSE)

Tree1 == {FolderA, FileB, FileX}
(* x has gone from a and y has come.                                       *)
Tree2 == {FolderA, FileB, FileY}
(* a has gone, with all that was in it.                                    *)
Tree3 == {FileB}
(* a is empty.                                                             *)
Tree4 == {FolderA, FileB}
(* The file "a_x" of the root has the key of the folder "x" of "a".        *)
Tree5 == {FolderA, Node(5, 1, <<"x">>, TRUE), Node(6, 5, <<"z">>, FALSE),
          Node(7, 0, <<"a", "x">>, FALSE)}

OneTree   == {Tree1}
FourTrees == {Tree1, Tree2, Tree3, Tree4}
OneChain  == {{FolderA, FileX}}
Emptied   == {{FolderA, FileX}, {FolderA}}
OneClash  == {Tree5}

(* The drives of the runs are what the proofs take a drive for; that of    *)
(* OneClash has two items with one key.                                    *)
ASSUME DrivesAreProper ==
    /\ \A tree \in FourTrees \cup OneClash : ProperTree(tree)
    /\ \A tree \in FourTrees : FolderKeysApart(tree)

(* The paths there are, for a drive that changes between the trees of a    *)
(* run: no item is found in two folders with one key; but for OneClash, no *)
(* folder with items has the key of a file.                                *)
Places ==
    LET within[d \in 0 .. Cardinality(Nodes)] ==
            [i \in Ids |->
                (IF i = RootId THEN {<<RootName>>} ELSE {}) \cup
                (IF d = 0 THEN {}
                 ELSE UNION {{Append(p, n.name) : p \in within[d - 1][n.parent]} :
                                n \in {m \in Nodes : m.id = i}})]
    IN  within[Cardinality(Nodes)]

ASSUME PlacesAreApart ==
    /\ Reach(Places)
    /\ FoundApart(Places)
    /\ FilesApart(Places) <=> Trees # OneClash
=============================================================================
