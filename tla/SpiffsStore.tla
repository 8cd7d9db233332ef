----------------------------- MODULE SpiffsStore -----------------------------
(***************************************************************************)
(* What the SPIFFS calls that write promise of the files, with no pages,   *)
(* blocks or collector: a file is a number of pages of data, one call runs *)
(* at a time, a call changes no file but its own, and it returns.  A file  *)
(* is damaged when an error leaves its index and its data apart.           *)
(***************************************************************************)
EXTENDS Integers

CONSTANTS
    Objs,       \* the objects (object ids)
    MaxData,    \* bound: data pages an object ever has
    NoObj,      \* no object
    NoFile,     \* files[o]: there is no such file
    Damaged     \* files[o]: what the file holds is not known

VARIABLES
    files,      \* files[o]: NoFile, Damaged or the pages of data of o
    calling,    \* the kind of the call that runs, "none" between calls
    on          \* the file it is on, if any

vars == <<files, calling, on>>

Sizes == 0 .. MaxData
Init == files = [o \in Objs |-> NoFile] /\ calling = "none" /\ on = NoObj

\* A call begins: create wants no file, the others a file whose pages are known.
Begin(o, kind) ==
    /\ calling = "none"
    /\ kind = "create" => files[o] = NoFile
    /\ kind \in {"append", "modify", "truncate", "rename"} => files[o] \in Sizes
    /\ calling' = kind /\ on' = o
    /\ UNCHANGED files

BeginGc == calling = "none" /\ calling' = "gc" /\ on' = NoObj /\ UNCHANGED files

Return == calling # "none" /\ calling' = "none" /\ on' = NoObj

\* The call has done what it was asked to; an append may have found room for
\* some of its pages only.
Done(o) ==
    /\ Return /\ on = o
    /\ \/ calling = "create" /\ files' = [files EXCEPT ![o] = 0]
       \/ calling = "append" /\ files[o] \in Sizes
            /\ \E n \in Sizes : n >= files[o] /\ files' = [files EXCEPT ![o] = n]
       \/ calling = "truncate" /\ files[o] \in Sizes /\ files' = [files EXCEPT ![o] = 0]
       \/ calling \in {"modify", "rename"} /\ UNCHANGED files

\* The call fails, or was nothing but a collection: no file has changed.
Fails == Return /\ UNCHANGED files

\* The call fails after it wrote some of its pages, or the collector it started
\* does so half way through a file, be it another one.
FailsHalfway(o) ==
    /\ Return
    /\ files[o] # NoFile
    /\ files' = [files EXCEPT ![o] = Damaged]

\* A modify finds no page for what it overwrites, and goes on.
Loses(o) ==
    /\ calling = "modify" /\ on = o
    /\ files' = [files EXCEPT ![o] = Damaged]
    /\ UNCHANGED <<calling, on>>

\* A file is removed.  If it is damaged, that may delete pages of others, and
\* what is left of it keeps the call busy.
Remove(o, hit) ==
    /\ calling = "none"
    /\ files[o] # NoFile
    /\ hit # {} => files[o] = Damaged
    /\ \A other \in hit : other # o /\ files[other] # NoFile
    /\ files' = [f \in Objs |->
                   IF f = o THEN NoFile ELSE IF f \in hit THEN Damaged ELSE files[f]]
    /\ \/ UNCHANGED <<calling, on>>
       \/ files[o] = Damaged /\ calling' = "remove" /\ on' = o

Next ==
    \/ \E o \in Objs :
        \/ \E kind \in {"create", "append", "modify", "truncate", "rename"} : Begin(o, kind)
        \/ Done(o) \/ FailsHalfway(o) \/ Loses(o)
        \/ \E hit \in SUBSET Objs : Remove(o, hit)
    \/ BeginGc
    \/ Fails

Spec == Init /\ [][Next]_vars
=============================================================================
