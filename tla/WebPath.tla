------------------------------ MODULE WebPath ------------------------------
(***************************************************************************)
(* The paths of URLs (webdav/webdav.go): how a request's URL becomes the   *)
(* path of an item, and an item's path the href of it in a multistatus     *)
(* response.  A path begins with "root", which a URL may have or lack.     *)
(*                                                                         *)
(* A URL is its names and whether it ends with "/"; that of the drive's    *)
(* root, "/", has no name.                                                 *)
(***************************************************************************)
EXTENDS DriveCatalog

Url(names, slash) == [names |-> names, slash |-> slash]
IsUrl(url) == /\ url = Url(url.names, url.slash)
              /\ url.names \in Seq({url.names[i] : i \in DOMAIN url.names})
              /\ \A i \in DOMAIN url.names : IsString(url.names[i])
RootUrl   == Url(<< >>, TRUE)
EmptyName == <<"">>

HasRoot(url) == url.names # << >> /\ url.names[1] = RootName

(* handleGetHeadPost: "/root" alone does not count as the prefix "/root/", *)
(* and a "/" at the end stays, as a last name that is empty.               *)
AlwaysPrefixed(url) == <<RootName>> \o url.names   \* faulty: "root" is doubled
GetPath(url) ==
    LET prefixed == HasRoot(url) /\ (url.slash \/ Len(url.names) > 1)
    IN  (IF prefixed THEN url.names ELSE <<RootName>> \o url.names)
           \o (IF url.slash THEN <<EmptyName>> ELSE << >>)

(* handlePropfind: "root" counts as well, and a "/" at the end goes.       *)
PropfindPath(url) ==
    IF HasRoot(url) THEN url.names ELSE <<RootName>> \o url.names

(* The href of an item: of a folder without its "root" and with a "/" at   *)
(* the end; of a file as it is, so without the "/" that makes it absolute. *)
Href(file) == IF file.dir THEN Url(Tail(file.path), TRUE) ELSE Url(file.path, FALSE)

(* The URL a client gets by resolving the href against that of its request.*)
Resolved(file, base) ==
    LET folder == IF base.slash THEN base.names
                  ELSE SubSeq(base.names, 1, Len(base.names) - 1)
    IN  IF file.dir THEN Href(file) ELSE Url(folder \o Href(file).names, FALSE)

(* Where a client gets that follows it: GET of a file, PROPFIND of a folder.*)
Followed(file, base) ==
    LET url == Resolved(file, base)
    IN  IF file.dir THEN PropfindPath(url) ELSE GetPath(url)

=============================================================================
