---------------------------- MODULE PropRequest ----------------------------
(***************************************************************************)
(* A request with an XML body, from the characters that arrive to those    *)
(* that are sent back: the body is read (readPropfind, readLockInfo,       *)
(* readProppatch), and a PROPFIND is answered by a multistatus response    *)
(* with one response per item (webdav/webdav.go, handlePropfind).  Which   *)
(* items a walk visits is the matter of Propfind.  The reader is a         *)
(* constant, so that what is said of the answers is said for any reader;   *)
(* in the runs it is ReadText (DavReader).                                 *)
(***************************************************************************)
EXTENDS DavWriter

CONSTANTS
    Requests,         \* the requests: reader, document (if any), text and items
    Reading(_, _)     \* what a reader makes of a text: a value or a status

ASSUME RequestAssumption ==
    \A r \in Requests :
        LET read == Reading(r.reader, r.text)
        IN  /\ r.items \in Seq(ToSet(r.items))
            /\ read.status \in {0, 400, 501}
            /\ r.reader = "propfind" /\ read.status = 0 =>
                  read.val.Prop \in Seq(ToSet(read.val.Prop))

VARIABLES request, phase, result, enc, answered

vars == <<request, phase, result, enc, answered>>

Init == /\ request \in Requests
        /\ phase = "received"
        /\ result = Refused(0)
        /\ enc = Printer
        /\ answered = 0

AnswerRefused ==                 \* faulty: the status of readPropfind is not looked at
    /\ phase = "received"
    /\ result' = Reading(request.reader, request.text)
    /\ phase' = IF request.reader = "propfind" THEN "walking" ELSE "read"
    /\ UNCHANGED <<request, enc, answered>>

ReadBody == /\ phase = "received"
            /\ result' = Reading(request.reader, request.text)
            /\ phase' = IF result'.status # 0 THEN "refused"
                        ELSE IF request.reader = "propfind" THEN "walking" ELSE "read"
            /\ UNCHANGED <<request, enc, answered>>

(* walkFn for the next item; the first response comes after the header,    *)
(* and an error ends the walk.                                             *)
Respond ==
    /\ phase = "walking" /\ answered < Len(request.items) /\ ~enc.failed
    /\ LET item == request.items[answered + 1]
           pf   == result.val
           all  == pf.Allprop \/ pf.Propname
           p    == IF answered = 0 THEN writeHeader ELSE enc
       IN  \E names \in IF all THEN propnames(item) ELSE {<< >>} :
              enc' = write(p, makePropstatResponse(item.href, Propstats(item, pf, names)))
    /\ answered' = answered + 1
    /\ UNCHANGED <<request, phase, result>>

Close == /\ phase = "walking"
         /\ answered = Len(request.items) \/ enc.failed
         /\ enc' = close(enc)
         /\ phase' = IF enc'.failed THEN "failed" ELSE "sent"
         /\ UNCHANGED <<request, result, answered>>

Next == ReadBody \/ Respond \/ Close

Spec == Init /\ [][Next]_vars

-----------------------------------------------------------------------------
(* The phases, and what is known in each.                                  *)
PropTypeOK ==
    /\ phase \in {"received", "refused", "read", "walking", "sent", "failed"}
    /\ request \in Requests
    /\ answered \in 0..Len(request.items)
    /\ result.status \in {0, 400, 501}
    /\ phase = "refused" <=> result.status # 0
    /\ phase \in {"walking", "sent"} =>
          /\ \A i \in DOMAIN enc.tags : enc.tags[i] \in {multistatus}
          /\ enc.prefixes = << >> <=> enc.tags = << >>

(* After a response the encoder is as it was before it, and at the end as  *)
(* it began: no prefix, no default name space and no open element of a     *)
(* response reaches the next one (popPrefix, marshalInterface), and no end *)
(* tag is refused for an element left open (writeEnd).                     *)
ResponsesLeaveNoTrace ==
    LET State == [enc EXCEPT !.out = << >>]
    IN  /\ phase = "walking" /\ answered > 0 => State = [writeHeader EXCEPT !.out = << >>]
        /\ phase = "sent" => State = Printer
        /\ phase # "failed"

=============================================================================
