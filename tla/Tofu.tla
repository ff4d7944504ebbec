-------------------------------- MODULE Tofu --------------------------------
(***************************************************************************)
(* Trust on first use: how the client's threads (the relay, the requests   *)
(* of the send API) verify the server's certificate by one pin file, which *)
(* the first connection writes (pinned_http.py).  The threads share the    *)
(* file and the name of the temporary file next to it, and no lock.        *)
(*                                                                         *)
(* A file is a name for an inode; a thread that has the temporary file     *)
(* open keeps writing to its inode whatever the names are by then.         *)
(***************************************************************************)
EXTENDS Integers, FiniteSets

CONSTANTS
    Threads,       \* threads that open connections
    Fingerprints,  \* of the certificates the server may present
    MaxCrashes,    \* bound: deaths of the client process
    MaxRotations   \* bound: new certificates

ASSUME TofuAssumption == IsFiniteSet(Threads) /\ Fingerprints # {} /\ "" \notin Fingerprints
                         /\ MaxCrashes \in Nat /\ MaxRotations \in Nat

VARIABLES
    cert,      \* the fingerprint of the server's certificate
    pin, tmp,  \* inodes of tofu.pin and tofu.pin.tmp, 0: no such file
    content,   \* what an inode holds: a fingerprint, or "" when truncated
    conn,      \* program point of each thread's connect
    fp,        \* the fingerprint its handshake saw
    fd,        \* the inode it has open for writing
    crashes, rotations

tofuVars == <<cert, pin, tmp, content, conn, fp, fd, crashes, rotations>>

Inodes == 1 .. Cardinality(Threads) + 2
ContentOf(file) == IF file = 0 THEN "" ELSE content[file]

\* A client that ran before has a pin.
TofuInit ==
    /\ cert = CHOOSE f \in Fingerprints : TRUE
    /\ pin \in {0, 1} /\ tmp = 0
    /\ content = [i \in Inodes |-> IF i = pin THEN cert ELSE ""]
    /\ conn = [t \in Threads |-> "closed"] /\ fp = [t \in Threads |-> ""]
    /\ fd = [t \in Threads |-> 0]
    /\ crashes = 0 /\ rotations = 0

At(t, point) == conn' = [conn EXCEPT ![t] = point]

\* PinnedHTTPSConnection.connect: the handshake, not verified yet.
Handshake(t) ==
    /\ conn[t] = "closed"
    /\ fp' = [fp EXCEPT ![t] = cert]
    /\ At(t, "greeted")
    /\ UNCHANGED <<cert, pin, tmp, content, fd, crashes, rotations>>

\* (Bug: an empty file is taken for a pin.)
LoadEmpty(t) ==
    /\ conn[t] = "greeted"
    /\ At(t, IF pin = 0 THEN "unpinned" ELSE IF content[pin] = fp[t] THEN "open" ELSE "refused")
    /\ UNCHANGED <<cert, pin, tmp, content, fp, fd, crashes, rotations>>

\* _load_tofu and the comparison.  An empty file counts as none.
Load(t) ==
    /\ conn[t] = "greeted"
    /\ At(t, IF ContentOf(pin) = "" THEN "unpinned"
             ELSE IF ContentOf(pin) = fp[t] THEN "open" ELSE "refused")
    /\ UNCHANGED <<cert, pin, tmp, content, fp, fd, crashes, rotations>>

\* _store_tofu: open(tmp, "w") truncates the file if another thread has it.
OpenTmp(t) ==
    /\ conn[t] = "unpinned"
    /\ LET free == {i \in Inodes : i \notin {pin, tmp} /\ \A u \in Threads : fd[u] # i}
       IN  tmp' = IF tmp # 0 THEN tmp ELSE CHOOSE i \in free : TRUE
    /\ content' = [content EXCEPT ![tmp'] = ""]
    /\ fd' = [fd EXCEPT ![t] = tmp']
    /\ At(t, "truncated")
    /\ UNCHANGED <<cert, pin, fp, crashes, rotations>>

\* write, flush, fsync
WriteTmp(t) ==
    /\ conn[t] = "truncated"
    /\ content' = [content EXCEPT ![fd[t]] = fp[t]]
    /\ fd' = [fd EXCEPT ![t] = 0]
    /\ At(t, "written")
    /\ UNCHANGED <<cert, pin, tmp, fp, crashes, rotations>>

\* os.replace(tmp, pin) moves whatever has the name by now.  If another
\* thread moved it before, the call raises FileNotFoundError.
Replace(t) ==
    /\ conn[t] = "written"
    /\ IF tmp = 0 THEN UNCHANGED <<pin, tmp>> /\ At(t, "error")
       ELSE pin' = tmp /\ tmp' = 0 /\ At(t, "open")
    /\ UNCHANGED <<cert, content, fp, fd, crashes, rotations>>

\* (Bug: only a refusal is caught.)
RetryRefused(t) ==
    /\ conn[t] = "refused" /\ At(t, "closed")
    /\ UNCHANGED <<cert, pin, tmp, content, fp, fd, crashes, rotations>>

\* A connection that was refused or failed is closed; its thread tries again.
Retry(t) ==
    /\ conn[t] \in {"refused", "error"}
    /\ At(t, "closed")
    /\ UNCHANGED <<cert, pin, tmp, content, fp, fd, crashes, rotations>>

\* The client dies and starts again; the files stay.
Crash ==
    /\ crashes < MaxCrashes /\ crashes' = crashes + 1
    /\ conn' = [t \in Threads |-> "closed"]
    /\ fd' = [t \in Threads |-> 0]
    /\ UNCHANGED <<cert, pin, tmp, content, fp, rotations>>

\* The operator gives the server a new certificate.
Rotate ==
    /\ rotations < MaxRotations /\ rotations' = rotations + 1
    /\ cert' \in Fingerprints \ {cert}
    /\ UNCHANGED <<pin, tmp, content, conn, fp, fd, crashes>>

Connect(t) == Handshake(t) \/ Load(t) \/ OpenTmp(t) \/ WriteTmp(t) \/ Replace(t) \/ Retry(t)
-----------------------------------------------------------------------------
\* A server that keeps its certificate is never refused, although threads see
\* the pin file in the middle of each other's writes.
NoFalseAlarm == rotations = 0 => \A t \in Threads : conn[t] # "refused"
=============================================================================
