---------------------------- MODULE TransferQueue ----------------------------
(***************************************************************************)
(* The transfers of the file browser: processQueue of FileManager.tsx and  *)
(* the handlers around it, with TransferQueuePanel.  The queue is a ref    *)
(* every handler edits between the awaits of the one that works through    *)
(* it, which keeps an index into it.                                       *)
(***************************************************************************)
EXTENDS PageCalls

CONSTANTS
    Names, NoName, MaxItems,    \* bound: items ever queued
    Hosts                       \* the SSH sessions the view has in turn

VARIABLES
    ui,
    back    \* item whose upload Go has been told to cancel, 0 for none

vars == <<ui, calls, back>>

Ended == {"done", "failed", "cancelled"}
Item(i, n, up, to) ==
    [id |-> i, name |-> n, up |-> up, status |-> IF up THEN "pending" ELSE "uploading", to |-> to]

\* disturbed (history): an ended item was taken out while an upload was under
\* way, the session changed in one, or a cancel arrived an upload late.
Init ==
    /\ ui = [queue |-> <<>>, last |-> 0, cancelOne |-> FALSE, broken |-> FALSE,
             host |-> CHOOSE h \in Hosts : TRUE, disturbed |-> FALSE]
    /\ calls = {} /\ back = 0

Uploads == CallsOf({"start", "upload"})
Downloads == CallsOf({"download"})
Start(h) == [op |-> "start", at |-> 0, name |-> NoName, host |-> h]

NextPending(q) == FirstOf({i \in DOMAIN q : q[i].status = "pending"})

WithStatus(q, i, status) == IF i = 0 THEN q ELSE [q EXCEPT ![i].status = status]

\* A write at an index the queue has shrunk from: an item of nothing, and a
\* hole before it that the next look at the queue trips over.
Write(q, i, status) ==
    IF i <= Len(q) THEN WithStatus(q, i, status)
    ELSE Append(q, [Item(0, NoName, TRUE, ui.host) EXCEPT !.status = status])

\* One turn of the loop: the next pending item, or the end.
Proceed(c, q, u) ==
    LET i == NextPending(q)
    IN  /\ ui' = [u EXCEPT !.queue = WithStatus(q, i, "uploading")]
        /\ IF i = 0 THEN Answered(c)
           ELSE Continue(c, [op |-> "upload", at |-> i, name |-> q[i].name, host |-> c.host])

\* Mutant: the loop is started by every drop.
HandleFileDropStarts(n) ==
    /\ ~ui.broken /\ ui.last < MaxItems
    /\ ui' = [ui EXCEPT !.queue = Append(@, Item(ui.last + 1, n, TRUE, ui.host)),
                        !.last = @ + 1]
    /\ Ask(Start(ui.host))
    /\ UNCHANGED back

\* wails:file-drop: the items are queued, and the loop started unless it runs.
HandleFileDrop(n) ==
    /\ ~ui.broken /\ ui.last < MaxItems
    /\ ui' = [ui EXCEPT !.queue = Append(@, Item(ui.last + 1, n, TRUE, ui.host)),
                        !.last = @ + 1]
    /\ IF Uploads # {} THEN UNCHANGED calls ELSE Ask(Start(ui.host))
    /\ UNCHANGED back

\* SFTPStartUpload has answered.
UploadStarts(c) ==
    /\ ~ui.broken /\ c.op = "start" /\ Proceed(c, ui.queue, ui)
    /\ UNCHANGED back

\* Mutant: every file behind one that fails is left waiting.
UploadEndsAndStops(c) ==
    /\ ~ui.broken /\ c.op = "upload" /\ Answered(c)
    /\ \E status \in {"done", "failed"} :
           ui' = [ui EXCEPT !.queue = Write(@, c.at, status)]
    /\ UNCHANGED back

\* SFTPUploadFromPath has answered.  A cancelled upload is taken for one only
\* if the rejection is an Error: then a single cancel goes on with a fresh
\* context and any other gives up what is pending; a string counts as failed.
UploadEnds(c) ==
    /\ ~ui.broken /\ c.op = "upload"
    /\ LET hit == c.at <= Len(ui.queue) /\ ui.queue[c.at].id = back
           u == [ui EXCEPT !.broken = c.at > Len(ui.queue) + 1]
       IN  \/ /\ ~hit \/ back = 0
              /\ \E status \in {"done", "failed"} : Proceed(c, Write(ui.queue, c.at, status), u)
           \/ hit /\ Proceed(c, Write(ui.queue, c.at, "failed"), u)
           \/ /\ hit /\ ui.cancelOne
              /\ Continue(c, Start(c.host))
              /\ ui' = [u EXCEPT !.queue = Write(@, c.at, "cancelled"), !.cancelOne = FALSE]
           \/ /\ hit /\ ~ui.cancelOne /\ Answered(c)
              /\ ui' = [u EXCEPT !.queue = [i \in DOMAIN @ |->
                     IF i = c.at \/ @[i].status = "pending"
                     THEN [@[i] EXCEPT !.status = "cancelled"] ELSE @[i]]]
    /\ back' = 0

\* A download has no item until its first progress; later ones find it by name.
HandleDownload(n) ==
    /\ ~ui.broken /\ Ask([op |-> "download", at |-> 0, name |-> n, host |-> ui.host])
    /\ UNCHANGED <<ui, back>>

DownloadOf(n) == FirstOf({i \in DOMAIN ui.queue : ~ui.queue[i].up /\ ui.queue[i].name = n})

HandleDownloadProgress(c) ==
    /\ ~ui.broken /\ c \in Downloads
    /\ LET i == DownloadOf(c.name)
       IN  IF i = 0
           THEN /\ ui.last < MaxItems
                /\ ui' = [ui EXCEPT !.queue = Append(@, Item(ui.last + 1, c.name, FALSE, ui.host)),
                                    !.last = @ + 1]
           ELSE /\ ui.queue[i].status = "uploading"
                /\ ui' = [ui EXCEPT !.queue = WithStatus(@, i, "done")]
    /\ UNCHANGED <<calls, back>>

DownloadEnds(c) ==
    /\ ~ui.broken /\ c \in Downloads /\ Answered(c)
    /\ \E status \in Ended :
           ui' = [ui EXCEPT !.queue = WithStatus(@, DownloadOf(c.name), status)]
    /\ UNCHANGED back

\* A pending item goes at once, a download is marked and Go told, an upload
\* ends when Go says so.
HandleCancelFile(i) ==
    /\ ~ui.broken /\ i \in DOMAIN ui.queue /\ ui.queue[i].status \notin Ended
    /\ LET f == ui.queue[i]
       IN  IF f.up /\ f.status = "uploading"
           THEN /\ Ask([op |-> "cancel", at |-> f.id, name |-> NoName, host |-> ui.host])
                /\ ui' = [ui EXCEPT !.cancelOne = TRUE]
           ELSE /\ ui' = [ui EXCEPT !.queue = WithStatus(@, i, "cancelled")]
                /\ UNCHANGED calls
    /\ UNCHANGED back

\* Go cancels the upload that runs when it gets the call.
CancelArrives(c) ==
    /\ ~ui.broken /\ c.op = "cancel" /\ Answered(c)
    /\ LET now == {ui.queue[u.at].id : u \in {k \in CallsOf({"upload"}) : k.at <= Len(ui.queue)}}
       IN  /\ back' = IF now = {} THEN 0 ELSE CHOOSE i \in now : TRUE
           /\ ui' = [ui EXCEPT !.disturbed = @ \/ now # {c.at}]

\* Only ended items offer it.
HandleRemoveFile(i) ==
    /\ ~ui.broken /\ i \in DOMAIN ui.queue /\ ui.queue[i].status \in Ended
    /\ ui' = [ui EXCEPT !.queue = SubSeq(@, 1, i - 1) \o SubSeq(@, i + 1, Len(@)),
                        !.disturbed = @ \/ CallsOf({"upload"}) # {}]
    /\ UNCHANGED <<calls, back>>

\* Offered when nothing is active.
HandleClearUploadList ==
    /\ ~ui.broken /\ ui.queue # <<>> /\ \A i \in DOMAIN ui.queue : ui.queue[i].status \in Ended
    /\ ui' = [ui EXCEPT !.queue = <<>>]
    /\ UNCHANGED <<calls, back>>

\* Another first tab: the running loop keeps the session it began with.
SessionChanges(h) ==
    /\ ~ui.broken /\ h # ui.host
    /\ ui' = [ui EXCEPT !.host = h, !.disturbed = @ \/ Uploads # {}]
    /\ UNCHANGED <<calls, back>>

\* The answer a spinner waits for.
Answer == \E c \in Uploads : UploadStarts(c) \/ UploadEnds(c)

\* What the panel offers: a cross for an item that has not ended, a basket for
\* one that has, and a basket for all when none is active.
Panel == HandleClearUploadList \/ \E i \in 1..MaxItems : HandleCancelFile(i) \/ HandleRemoveFile(i)

Next ==
    \/ Panel
    \/ \E n \in Names : HandleFileDrop(n) \/ HandleDownload(n)
    \/ \E c \in calls : HandleDownloadProgress(c) \/ DownloadEnds(c) \/ CancelArrives(c)
    \/ \E h \in Hosts : SessionChanges(h)
    \/ Answer

-----------------------------------------------------------------------------
TypeOK ==
    /\ \A i \in DOMAIN ui.queue : ui.queue[i].status \in Ended \cup {"pending", "uploading"}
    /\ Cardinality(Uploads) <= 1

\* An upload shown as running is the one whose call is under way, on the session
\* its file was dropped on; and what is pending has a loop to get to it.
WorkOwned ==
    ~ui.disturbed => \A i \in DOMAIN ui.queue :
        LET f == ui.queue[i]
        IN  /\ (f.up /\ f.status = "uploading") =>
                   \E c \in CallsOf({"upload"}) : c.at = i /\ c.name = f.name /\ c.host = f.to
            /\ f.status = "pending" => Uploads # {}

\* An upload that ended keeps its outcome.
EndsOnce ==
    ~ui'.disturbed => \A i \in DOMAIN ui.queue, j \in DOMAIN ui'.queue :
        LET f == ui.queue[i]  g == ui'.queue[j]
        IN  (f.id = g.id /\ f.up /\ f.status \in Ended) => g = f

Busy == ~ui.broken /\ ~ui.disturbed /\
        \E i \in DOMAIN ui.queue : ui.queue[i].up /\ ui.queue[i].status \notin Ended
=============================================================================
