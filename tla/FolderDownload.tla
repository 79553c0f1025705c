--------------------------- MODULE FolderDownload ---------------------------
(***************************************************************************)
(* DownloadFolder, bridge/ssh/sftp_transfer.go:319-491: one walker         *)
(* goroutine per remote directory sends the files it finds to a bounded    *)
(* channel, a scanner closes the channel when the walkers are done, and    *)
(* the caller downloads what arrives.  The user may cancel at any time.    *)
(***************************************************************************)
EXTENDS Naturals, Sequences, FiniteSets

CONSTANTS
    Dirs, Files,    \* the remote tree
    Root,           \* the directory that is downloaded
    Parent,         \* Parent[e]: the directory that lists the entry e
    Capacity,       \* of the channel fileCh (50 in the code)
    Readers         \* directories read at once (10 in the code)

Entries == (Dirs \ {Root}) \cup Files

ASSUME TreeAssumption ==
    /\ Root \in Dirs
    /\ Dirs \cap Files = {}
    /\ Parent \in [Entries -> Dirs]
ASSUME BoundsAssumption == Capacity \in Nat \ {0} /\ Readers \in Nat \ {0}

VARIABLES
    walker,     \* the walk goroutine of each directory
    todo,       \* the entries a walker has listed and not reached yet
    sending,    \* the file a walker is sending, if any
    fileCh,     \* the channel
    closed,     \* the scanner has closed the channel
    found,      \* files counted in filesTotal
    current,    \* the file being downloaded, if any
    saved,      \* files downloaded
    skipped,    \* files given up
    unread,     \* directories counted in skippedDirs
    cancelled,  \* cancelCtx is done
    result      \* what DownloadFolder has returned

vars == <<walker, todo, sending, fileCh, closed, found, current, saved,
          skipped, unread, cancelled, result>>
walkVars == <<walker, todo, sending, found, unread>>
loadVars == <<current, saved, skipped, result>>

Active(d) == walker[d] \notin {"none", "done"}

Init ==
    /\ walker = [d \in Dirs |-> IF d = Root THEN "start" ELSE "none"]
    /\ todo = [d \in Dirs |-> {}]
    /\ sending = [d \in Dirs |-> {}]
    /\ fileCh = <<>>
    /\ closed = FALSE
    /\ found = {}
    /\ current = {}
    /\ saved = {}
    /\ skipped = {}
    /\ unread = {}
    /\ cancelled = FALSE
    /\ result = "running"

-----------------------------------------------------------------------------
(* walk: look at the context, read the directory with one of the readers,   *)
(* then go through its entries.                                             *)

WalkStart(d) ==
    /\ walker[d] = "start"
    /\ walker' = [walker EXCEPT ![d] = IF cancelled THEN "done" ELSE "queued"]
    /\ UNCHANGED <<todo, sending, fileCh, closed, found, unread, cancelled, loadVars>>

AcquireReader(d) ==
    /\ walker[d] = "queued"
    /\ Cardinality({e \in Dirs : walker[e] = "reading"}) < Readers
    /\ walker' = [walker EXCEPT ![d] = "reading"]
    /\ UNCHANGED <<todo, sending, fileCh, closed, found, unread, cancelled, loadVars>>

ReadDir(d) ==
    /\ walker[d] = "reading"
    /\ walker' = [walker EXCEPT ![d] = "listing"]
    /\ todo' = [todo EXCEPT ![d] = {e \in Entries : Parent[e] = d}]
    /\ UNCHANGED <<sending, fileCh, closed, found, unread, cancelled, loadVars>>

\* No permission, or the client was closed because the download has returned.
ReadDirFails(d) ==
    /\ walker[d] = "reading"
    /\ walker' = [walker EXCEPT ![d] = "done"]
    /\ unread' = IF cancelled THEN unread ELSE unread \cup {d}
    /\ UNCHANGED <<todo, sending, fileCh, closed, found, cancelled, loadVars>>

\* A subdirectory: wg.Add, then go walk.
Descend(d, e) ==
    /\ walker[d] = "listing"
    /\ ~cancelled
    /\ e \in todo[d] \cap Dirs
    /\ todo' = [todo EXCEPT ![d] = @ \ {e}]
    /\ walker' = [walker EXCEPT ![e] = "start"]
    /\ UNCHANGED <<sending, fileCh, closed, found, unread, cancelled, loadVars>>

\* A file: counted first, then sent.
Find(d, f) ==
    /\ walker[d] = "listing"
    /\ ~cancelled
    /\ f \in todo[d] \cap Files
    /\ todo' = [todo EXCEPT ![d] = @ \ {f}]
    /\ walker' = [walker EXCEPT ![d] = "sending"]
    /\ sending' = [sending EXCEPT ![d] = {f}]
    /\ found' = found \cup {f}
    /\ UNCHANGED <<fileCh, closed, unread, cancelled, loadVars>>

Send(d, f) ==
    /\ walker[d] = "sending"
    /\ f \in sending[d]
    /\ Len(fileCh) < Capacity
    /\ fileCh' = Append(fileCh, f)
    /\ sending' = [sending EXCEPT ![d] = {}]
    /\ walker' = [walker EXCEPT ![d] = "listing"]
    /\ UNCHANGED <<todo, closed, found, unread, cancelled, loadVars>>

\* Mutant: the send does not watch the context.
WalkEndsUnlessSending(d) ==
    /\ walker[d] = "listing"
    /\ cancelled \/ todo[d] = {}
    /\ walker' = [walker EXCEPT ![d] = "done"]
    /\ sending' = [sending EXCEPT ![d] = {}]
    /\ UNCHANGED <<todo, fileCh, closed, found, unread, cancelled, loadVars>>

\* The last entry was reached, or the context is done at an entry or a send.
WalkEnds(d) ==
    /\ walker[d] \in {"listing", "sending"}
    /\ cancelled \/ (walker[d] = "listing" /\ todo[d] = {})
    /\ walker' = [walker EXCEPT ![d] = "done"]
    /\ sending' = [sending EXCEPT ![d] = {}]
    /\ UNCHANGED <<todo, fileCh, closed, found, unread, cancelled, loadVars>>

\* Mutant: wg.Add is called by the walker that is started, not before it.
CloseBeforeAdd ==
    /\ ~closed
    /\ \A d \in Dirs : walker[d] \in {"none", "start", "done"}
    /\ closed' = TRUE
    /\ UNCHANGED <<walkVars, fileCh, cancelled, loadVars>>

\* wg.Wait returns and the deferred close(fileCh) runs.
CloseChannel ==
    /\ ~closed
    /\ \A d \in Dirs : ~Active(d)
    /\ closed' = TRUE
    /\ UNCHANGED <<walkVars, fileCh, cancelled, loadVars>>

-----------------------------------------------------------------------------
(* The download loop.                                                       *)

Idle == result = "running" /\ current = {}

\* Mutant: the last file of the channel is not looked at once it is closed.
ReceiveUnlessClosed ==
    /\ Idle
    /\ fileCh # <<>>
    /\ fileCh' = Tail(fileCh)
    /\ IF cancelled
       THEN result' = "cancelled" /\ UNCHANGED current
       ELSE current' = (IF closed THEN {} ELSE {Head(fileCh)}) /\ UNCHANGED result
    /\ UNCHANGED <<walkVars, closed, saved, skipped, cancelled>>

Receive ==
    /\ Idle
    /\ fileCh # <<>>
    /\ fileCh' = Tail(fileCh)
    /\ IF cancelled
       THEN result' = "cancelled" /\ UNCHANGED current
       ELSE current' = {Head(fileCh)} /\ UNCHANGED result
    /\ UNCHANGED <<walkVars, closed, saved, skipped, cancelled>>

\* Every read of the file looks at the context; a file read to its end is kept.
FileSaved(f) ==
    /\ f \in current
    /\ saved' = saved \cup {f}
    /\ current' = {}
    /\ UNCHANGED <<walkVars, fileCh, closed, skipped, cancelled, result>>

\* No directory to put it in: the context is not looked at.
MkdirFails(f) ==
    /\ f \in current
    /\ current' = {}
    /\ skipped' = skipped \cup {f}
    /\ UNCHANGED <<walkVars, fileCh, closed, saved, cancelled, result>>

\* Mutant: a file that fails is not accounted for.
FileFailsUncounted(f) ==
    /\ f \in current
    /\ current' = {}
    /\ result' = IF cancelled THEN "cancelled" ELSE result
    /\ UNCHANGED <<walkVars, fileCh, closed, saved, skipped, cancelled>>

\* Open, create, read or write failed, or a read found the context done.
FileFails(f) ==
    /\ f \in current
    /\ current' = {}
    /\ IF cancelled
       THEN result' = "cancelled" /\ UNCHANGED skipped
       ELSE skipped' = skipped \cup {f} /\ UNCHANGED result
    /\ UNCHANGED <<walkVars, fileCh, closed, saved, cancelled>>

\* The channel is closed and drained: 100% is emitted and nil returned.
Finish ==
    /\ Idle
    /\ closed
    /\ fileCh = <<>>
    /\ result' = "ok"
    /\ UNCHANGED <<walkVars, fileCh, closed, current, saved, skipped, cancelled>>

\* CancelDownload, or the end of the application.
Cancel ==
    /\ ~cancelled
    /\ result = "running"
    /\ cancelled' = TRUE
    /\ UNCHANGED <<walkVars, fileCh, closed, loadVars>>

Next ==
    \/ \E d \in Dirs :
          \/ WalkStart(d) \/ AcquireReader(d) \/ ReadDir(d) \/ ReadDirFails(d)
          \/ \E e \in Entries : Descend(d, e) \/ Find(d, e) \/ Send(d, e)
          \/ WalkEnds(d)
    \/ CloseChannel
    \/ Receive
    \/ \E f \in Files : FileSaved(f) \/ MkdirFails(f) \/ FileFails(f)
    \/ Finish
    \/ Cancel

SafetySpec == Init /\ [][Next]_vars

\* Goroutines run, a directory is read or refused, a file ends or fails, and a
\* freed reader is taken by some walker (Go channels are first come first served).
Fairness ==
    /\ \A d \in Dirs :
          /\ WF_vars(WalkStart(d))
          /\ SF_vars(AcquireReader(d))
          /\ WF_vars(ReadDir(d) \/ ReadDirFails(d))
          /\ WF_vars(\E e \in Entries : Descend(d, e) \/ Find(d, e))
          /\ SF_vars(\E f \in Files : Send(d, f))
          /\ WF_vars(WalkEnds(d))
    /\ WF_vars(CloseChannel)
    /\ WF_vars(Receive)
    /\ WF_vars(Finish)
    /\ WF_vars(\E f \in Files : FileSaved(f) \/ MkdirFails(f) \/ FileFails(f))

Spec == SafetySpec /\ Fairness

-----------------------------------------------------------------------------
(* Properties. *)

TypeOK ==
    /\ walker \in [Dirs -> {"none", "start", "queued", "reading", "listing", "sending", "done"}]
    /\ todo \in [Dirs -> SUBSET Entries]
    /\ sending \in [Dirs -> SUBSET Files]
    /\ fileCh \in Seq(Files)
    /\ closed \in BOOLEAN
    /\ found \in SUBSET Files
    /\ current \in SUBSET Files
    /\ saved \in SUBSET Files
    /\ skipped \in SUBSET Files
    /\ unread \in SUBSET Dirs
    /\ cancelled \in BOOLEAN
    /\ result \in {"running", "ok", "cancelled"}

\* No walker is left when the scanner closes the channel, so none sends on a
\* closed one, which would panic: the counter of the WaitGroup is raised before
\* a walker is started (sftp_transfer.go:466-467).
NoWalkerAfterClose == closed => \A d \in Dirs : ~Active(d)

\* What walking the parent of an entry leads to: a walker, or a file counted.
Reached(e) == IF e \in Dirs THEN walker[e] # "none" ELSE e \in found

\* A download that returned nil uncancelled forgot nothing: it walked the root
\* and whatever a directory it could read lists, and counted and then saved or
\* skipped every file it found there.
NothingForgotten ==
    result = "ok" /\ ~cancelled =>
        /\ walker[Root] = "done"
        /\ \A e \in Entries :
              walker[Parent[e]] = "done" /\ Parent[e] \notin unread =>
                  IF e \in Dirs THEN walker[e] = "done"
                                ELSE e \in found \cap (saved \cup skipped)

\* The directories a download did not read, with all they contain.
Unseen[d \in Dirs] == d \in unread \/ (d # Root /\ Unseen[Parent[d]])

\* "DownloadFolder recursively downloads a remote directory" (sftp_transfer.go:318):
\* when it reports 100% and returns nil, every file was saved, skipped or is
\* below an unreadable directory.
OkMeansEverything ==
    result = "ok" => \A f \in Files : f \in saved \cup skipped \/ Unseen[Parent[f]]

\* Every download returns, and its walkers and scanner end, cancelled or not:
\* no walker stays blocked on a full channel whose reader has left.
EverythingEnds == <>(result # "running" /\ closed)

-----------------------------------------------------------------------------
(* The inductive invariant: unless the download is cancelled, every entry of *)
(* a directory that was read is reached or still to do, and every file that  *)
(* was counted is on its way or accounted for.                               *)

EntriesKept ==
    ~cancelled =>
        \A e \in Entries :
            /\ walker[Parent[e]] = "done" /\ Parent[e] \notin unread => Reached(e)
            /\ walker[Parent[e]] \in {"listing", "sending"} => e \in todo[Parent[e]] \/ Reached(e)

InChannel(f) == \E i \in DOMAIN fileCh : fileCh[i] = f

FilesKept ==
    ~cancelled =>
        \A f \in found : \/ \E d \in Dirs : f \in sending[d]
                         \/ InChannel(f)
                         \/ f \in current \cup saved \cup skipped

WalkersKept ==
    /\ walker[Root] # "none"
    /\ \A d \in Dirs : sending[d] # {} => walker[d] = "sending" /\ \A f, g \in sending[d] : f = g
    /\ \A f, g \in current : f = g
    /\ result = "ok" => closed /\ fileCh = <<>> /\ current = {}

\* An entry is reached once, from its parent, after the parent was read.
TodoFresh ==
    \A d \in Dirs :
        /\ walker[d] \in {"none", "start", "queued", "reading"} =>
              \A e \in Dirs \ {Root} : Parent[e] = d => walker[e] = "none"
        /\ \A e \in todo[d] : Parent[e] = d /\ (e \in Dirs => walker[e] = "none")

IInv == /\ TypeOK /\ NoWalkerAfterClose /\ EntriesKept
        /\ FilesKept /\ WalkersKept /\ TodoFresh
=============================================================================
