-------------------------- MODULE MCWebdavService --------------------------
(* Small drives, requests and depths for the service.                      *)
EXTENDS WebdavService

SEx == INSTANCE SequencesExt

Node(i, p, w, d) == [id |-> i, parent |-> p, name |-> w, dir |-> d]

FolderA == Node(1, 0, <<"a">>, TRUE)
FileX   == Node(3, 1, <<"x">>, FALSE)
FolderE == Node(4, 1, <<"e">>, TRUE)
FileY   == Node(5, 4, <<"y">>, FALSE)
(* Another file in the place of x; a file in the place of the folder.      *)
FileX2  == Node(9, 1, <<"x">>, FALSE)
FileA   == Node(10, 0, <<"a">>, FALSE)
(* The folders "x" of "a" and "a_x" have one key.                          *)
FolderX  == Node(6, 1, <<"x">>, TRUE)
FileZ    == Node(7, 6, <<"z">>, FALSE)
FolderAX == Node(8, 0, <<"a", "x">>, TRUE)
FileW    == Node(11, 8, <<"w">>, FALSE)

Replaced   == {{FolderA, FileX}, {FolderA, FileX2}}
Retyped    == {{FolderA, FileX}, {FileA}}
Deep       == {{FolderA, FileX, FolderE, FileY}}
WithEmpty  == {{FolderA, FileX, FolderE}}
Clash      == {FolderA, FolderX, FileZ, FolderAX, FileW}
(* A folder of the drive that is called "root", with a folder in it.        *)
Rooted     == {Node(12, 0, RootName, TRUE), Node(13, 12, <<"x">>, FALSE),
               Node(14, 12, <<"a">>, TRUE), Node(15, 14, <<"y">>, FALSE)}
ThreeTrees == {{FolderA, FileX, FolderE, FileY}, Rooted, Clash}

(* "/a", "/a/x", and "/root/a/x", which is the same.                        *)
UrlA  == Url(<<<<"a">>>>, FALSE)
UrlX  == Url(<<<<"a">>, <<"x">>>>, FALSE)
UrlRX == Url(<<RootName, <<"a">>, <<"x">>>>, FALSE)
JustA    == {UrlA}
AandX    == {UrlA, UrlX}
AandRX   == {UrlA, UrlRX}
(* ... and "/a/q", which is not on any drive.                               *)
XandQ    == {UrlX, Url(<<<<"a">>, <<"q">>>>, FALSE)}
RootAndA == {RootUrl, UrlA}
FourUrls == {RootUrl, Url(<<RootName>>, TRUE), Url(<<RootName>>, FALSE),
             Url(<<<<"a">>>>, TRUE)}
JustRoot == {RootUrl}
(* "/a_e", which has the key of "/a/e".                                     *)
JustAE   == {Url(<<<<"a", "e">>>>, FALSE)}
NoUrls   == {}
AllDepths == {0, 1, Infinite, Invalid}
SomeDepths == {1, Infinite, Invalid}
JustInfinite == {Infinite}

ASSUME DrivesKeepKinds == KindsStay
(* The drives of PropfindComplete, but for the one with a clash, and the   *)
(* URLs are what its properties ask for (OwnPathsAsked and NoFolderEmpty). *)
ASSUME DrivesAreBrowsable ==
    Trees = ThreeTrees /\ WalkUrls = FourUrls =>
        \A tree \in Trees : KeysApart(tree) =>
            /\ ProperTree(tree)
            /\ Folders(tree) = Filled(tree)
            /\ \A u \in WalkUrls : \A f \in Files(tree) :
                  makePathKey(PropfindPath(u)) = makePathKey(f.path) => PropfindPath(u) = f.path

(* The catalogue that an undisturbed scan of the drive leaves behind.      *)
FolderIds == Folders(drive)
KeyOf(id) == makePathKey(PathOf(drive, id))
ListOf(id) == SEx!SetToSeq({FileAt(n, Append(PathOf(drive, id), n.name))
                              : n \in Children(drive, id)})
RECURSIVE PutAll(_, _)
PutAll(db, todo) ==
    IF todo = {} THEN db
    ELSE LET x == CHOOSE y \in todo : TRUE
         IN  PutAll(Put(db, x[1], x[2]), todo \ {x})

Scanned ==
    /\ drive \in Trees
    /\ cache = PutAll(EmptyDB,
          {<<KeyOf(id), ListRecord(ListOf(id))>> : id \in Filled(drive)}
          \cup {<<KeyOf(n.id), FileRecord(FileOf(drive, n.id))>>
                  : n \in {x \in drive : ~x.dir}})
    /\ index = PutAll(EmptyDB, {<<KeyOf(id), FileOf(drive, id)>> : id \in FolderIds})
    /\ faults = 0
    /\ Fresh
    /\ GetInit
    /\ WalkInit

ScannedSpec == Scanned /\ [][ServiceNext]_serviceVars /\ ServiceFairness

(* ... unless two folders share a key: there, nothing is scanned yet.      *)
ScannedOrClash ==
    \/ Scanned /\ KeysApart(drive)
    \/ ServiceInit /\ ~KeysApart(drive)

(* One scan at a time and GETs of files, which nothing in the code sees to. *)
ApartSpec == ScannedOrClash /\ [][ServiceNext /\ ScansApart' /\ OnlyFilesAsked']_serviceVars
=============================================================================
