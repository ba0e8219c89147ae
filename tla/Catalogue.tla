----------------------------- MODULE Catalogue -----------------------------
(***************************************************************************)
(* What the catalogue promises its readers, whatever the goroutines do     *)
(* inside: a key is stored, and the listing of a folder is published in    *)
(* one step, when every file it names is stored already.  Nothing is taken *)
(* away again, but for what a reader may evict itself.  So a listing names *)
(* files that are stored, or that a reader may have evicted, at any time.  *)
(***************************************************************************)
EXTENDS FileDB

CONSTANT Evictable    \* the keys that a reader may take away

VARIABLES
    stored,   \* the keys that have a record, of a file or of a folder
    shown     \* for each key with a listing, the keys of the files in it

Init == stored = {} /\ shown = EmptyDB

(* A file is stored; under the key of a listing, it replaces that.         *)
Store(key) ==
    /\ stored' = stored \cup {key}
    /\ shown' = Delete(shown, key)

(* The listing of a folder is published.                                   *)
Publish(key, files) ==
    /\ files \subseteq stored \cup Evictable
    /\ stored' = stored \cup {key}
    /\ shown' = Put(shown, key, files)

(* A reader takes away what it could not use, a file or a listing.         *)
Evict(key) ==
    /\ stored' = stored \ {key}
    /\ shown' = Delete(shown, key)

(* The keys are no constant: the one written is stored afterwards.         *)
Next ==
    \/ \E key \in stored' :
          \/ Store(key)
          \/ key \in DOMAIN shown' /\ Publish(key, shown'[key])
    \/ \E key \in Evictable : Evict(key)

Spec == Init /\ [][Next]_<<stored, shown>>

(* What a reader of listings relies on.                                    *)
Honest == \A key \in DOMAIN shown : shown[key] \subseteq stored \cup Evictable

=============================================================================
