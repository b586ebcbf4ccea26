-------------------------------- MODULE Drive --------------------------------
(***************************************************************************)
(* What EncryptedBackend promises the WebDAV layer about files, with no    *)
(* chunks, keys, transactions or collections: a PUT, a DELETE or a MOVE    *)
(* happens at once or not at all, and what it replaces becomes history of  *)
(* the path until retention forgets it.                                    *)
(***************************************************************************)
EXTENDS Naturals

CONSTANTS Paths, Ops, Blobs, None

VARIABLES
    current,  \* the acknowledged upload a path shows, None if it has no file
    history,  \* the earlier uploads of a path that can still be restored
    body      \* what an acknowledged upload sent; NoBody before

vars == <<current, history, body>>

NoBody == <<>>
Bodies == {<<b>> : b \in SUBSET Blobs}

Acknowledge(o, b) ==
    /\ body[o] = NoBody
    /\ body' = [body EXCEPT ![o] = b]

Superseded(p) == history[p] \cup ({current[p]} \ {None})

Init ==
    /\ current = [p \in Paths |-> None]
    /\ history = [p \in Paths |-> {}]
    /\ body = [o \in Ops |-> NoBody]

\* The current version of p becomes history.  Its version number may be taken, when an
\* earlier version was left at p: that one is forgotten.
Supersede(p) ==
    \E lost \in (history[p] \ {current[p]}) \cup {None} :
        history' = [history EXCEPT ![p] = Superseded(p) \ {lost}]

\* A new version of p; what it replaces becomes history.
Put(p, o, b) ==
    /\ Acknowledge(o, b)
    /\ current' = [current EXCEPT ![p] = o]
    /\ Supersede(p)

\* The body equals the current one: acknowledged, and nothing changes.
PutUnchanged(p, o, b) ==
    /\ Acknowledge(o, b)
    /\ current[p] # None
    /\ body[current[p]] = b
    /\ UNCHANGED <<current, history>>

Delete(p) ==
    /\ current[p] # None
    /\ current' = [current EXCEPT ![p] = None]
    /\ Supersede(p)
    /\ UNCHANGED body

\* The file and its history move to a path without a file, and join what history that
\* path may have.
Rename(s, d) ==
    /\ s # d
    /\ current[s] # None
    /\ current[d] = None
    /\ current' = [current EXCEPT ![d] = current[s], ![s] = None]
    /\ history' = [history EXCEPT ![d] = history[s] \cup history[d], ![s] = {}]
    /\ UNCHANGED body

\* Retention, and the purge of deleted files, forget history and nothing else.
Forget ==
    /\ \A p \in Paths : history'[p] \subseteq history[p]
    /\ history' = [p \in Paths |-> history'[p]]
    /\ UNCHANGED <<current, body>>

Next ==
    \/ \E p \in Paths, o \in Ops, b \in Bodies : Put(p, o, b) \/ PutUnchanged(p, o, b)
    \/ \E p \in Paths : Delete(p)
    \/ \E s, d \in Paths : Rename(s, d)
    \/ Forget

Spec == Init /\ [][Next]_vars
=============================================================================
