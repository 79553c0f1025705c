------------------------ MODULE FolderDownloadProofs ------------------------
(***************************************************************************)
(* Proofs about FolderDownload, for any remote tree, channel and number of *)
(* readers.                                                                *)
(***************************************************************************)
EXTENDS FolderDownload, TLAPS

\* A send puts its file in the channel and loses none that is there.
LEMMA ChannelSend ==
    ASSUME NEW q \in Seq(Files), NEW f \in Files
    PROVE  /\ Append(q, f) \in Seq(Files)
           /\ \E i \in DOMAIN Append(q, f) : Append(q, f)[i] = f
           /\ \A g : (\E i \in DOMAIN q : q[i] = g)
                        => \E i \in DOMAIN Append(q, f) : Append(q, f)[i] = g
<1>1. Append(q, f) \in Seq(Files) /\ Len(Append(q, f)) = Len(q) + 1
  OBVIOUS
<1>2. /\ Append(q, f)[Len(q) + 1] = f
      /\ \A i \in 1..Len(q) : Append(q, f)[i] = q[i]
  OBVIOUS
<1>3. DOMAIN q = 1..Len(q) /\ DOMAIN Append(q, f) = 1..(Len(q) + 1) /\ Len(q) \in Nat
  BY <1>1
<1> QED BY <1>1, <1>2, <1>3

\* A receive takes the first file out of the channel and loses no other.
LEMMA ChannelReceive ==
    ASSUME NEW q \in Seq(Files), q # <<>>
    PROVE  /\ Tail(q) \in Seq(Files)
           /\ Head(q) \in Files
           /\ \A g : (\E i \in DOMAIN q : q[i] = g)
                        => g = Head(q) \/ \E i \in DOMAIN Tail(q) : Tail(q)[i] = g
<1>1. /\ Tail(q) \in Seq(Files) /\ Head(q) \in Files /\ Head(q) = q[1]
      /\ Len(Tail(q)) = Len(q) - 1 /\ Len(q) \in Nat \ {0}
  OBVIOUS
<1>2. \A i \in 1..(Len(q) - 1) : Tail(q)[i] = q[i + 1]
  OBVIOUS
<1>3. DOMAIN q = 1..Len(q) /\ DOMAIN Tail(q) = 1..(Len(q) - 1)
  BY <1>1
<1>4. ASSUME NEW g, NEW i \in DOMAIN q, q[i] = g, g # Head(q)
      PROVE  \E j \in DOMAIN Tail(q) : Tail(q)[j] = g
  <2>1. i # 1 /\ i - 1 \in 1..(Len(q) - 1)
    BY <1>1, <1>3, <1>4
  <2>2. Tail(q)[i - 1] = g
    BY <1>1, <1>2, <1>3, <1>4, <2>1
  <2> QED BY <1>3, <2>1, <2>2
<1> QED BY <1>1, <1>4

\* No state the download starts in breaks the inductive invariant.
THEOREM InitIInv == Init => IInv
  <1> SUFFICES ASSUME Init PROVE IInv OBVIOUS
  <1>1. TypeOK
    <2>1. <<>> \in Seq(Files) OBVIOUS
    <2> QED BY <2>1, TreeAssumption DEF Init, TypeOK
  <1>2. NoWalkerAfterClose BY DEF Init, NoWalkerAfterClose
  <1>3. EntriesKept
    <2>1. \A d \in Dirs : walker[d] \in {"none", "start"} BY DEF Init
    <2> QED BY <2>1, TreeAssumption DEF EntriesKept, Entries
  <1>4. FilesKept BY DEF Init, FilesKept
  <1>5. WalkersKept BY TreeAssumption DEF Init, WalkersKept
  <1>6. TodoFresh
    <2>1. \A d \in Dirs : todo[d] = {} /\ (d # Root => walker[d] = "none") BY DEF Init
    <2> QED BY <2>1 DEF TodoFresh
  <1> QED BY <1>1, <1>2, <1>3, <1>4, <1>5, <1>6 DEF IInv

\* No step of a walker, the scanner, the download loop or the user breaks it.
THEOREM NextIInv == IInv /\ [Next]_vars => IInv'
  <1> SUFFICES ASSUME IInv, [Next]_vars PROVE IInv' OBVIOUS
  <1> USE TreeAssumption DEF IInv
  <1>1. ASSUME NEW d \in Dirs, WalkStart(d) PROVE IInv'
    <2>1. TypeOK' BY <1>1 DEF WalkStart, loadVars, TypeOK, Entries
    <2>2. NoWalkerAfterClose' BY <1>1 DEF WalkStart, loadVars, TypeOK, NoWalkerAfterClose, Active
    <2>3. EntriesKept' BY <1>1 DEF WalkStart, loadVars, TypeOK, Entries, EntriesKept, Reached
    <2>4. FilesKept' BY <1>1 DEF WalkStart, loadVars, TypeOK, FilesKept, WalkersKept, InChannel
    <2>5. WalkersKept' BY <1>1 DEF WalkStart, loadVars, TypeOK, WalkersKept, NoWalkerAfterClose, Active
    <2>6. TodoFresh' BY <1>1 DEF WalkStart, loadVars, TypeOK, Entries, TodoFresh
    <2> QED BY <2>1, <2>2, <2>3, <2>4, <2>5, <2>6
  <1>2. ASSUME NEW d \in Dirs, AcquireReader(d) PROVE IInv'
    <2>1. TypeOK' BY <1>2 DEF AcquireReader, loadVars, TypeOK, Entries
    <2>2. NoWalkerAfterClose' BY <1>2 DEF AcquireReader, loadVars, TypeOK, NoWalkerAfterClose, Active
    <2>3. EntriesKept' BY <1>2 DEF AcquireReader, loadVars, TypeOK, Entries, EntriesKept, Reached
    <2>4. FilesKept' BY <1>2 DEF AcquireReader, loadVars, TypeOK, FilesKept, WalkersKept, InChannel
    <2>5. WalkersKept' BY <1>2 DEF AcquireReader, loadVars, TypeOK, WalkersKept, NoWalkerAfterClose, Active
    <2>6. TodoFresh' BY <1>2 DEF AcquireReader, loadVars, TypeOK, Entries, TodoFresh
    <2> QED BY <2>1, <2>2, <2>3, <2>4, <2>5, <2>6
  <1>3. ASSUME NEW d \in Dirs, ReadDir(d) PROVE IInv'
    <2>1. TypeOK' BY <1>3 DEF ReadDir, loadVars, TypeOK, Entries
    <2>2. NoWalkerAfterClose' BY <1>3 DEF ReadDir, loadVars, TypeOK, NoWalkerAfterClose, Active
    <2>3. EntriesKept' BY <1>3 DEF ReadDir, loadVars, TypeOK, Entries, EntriesKept, Reached
    <2>4. FilesKept' BY <1>3 DEF ReadDir, loadVars, TypeOK, FilesKept, WalkersKept, InChannel
    <2>5. WalkersKept' BY <1>3 DEF ReadDir, loadVars, TypeOK, WalkersKept, NoWalkerAfterClose, Active
    <2>6. TodoFresh' BY <1>3 DEF ReadDir, loadVars, TypeOK, Entries, TodoFresh
    <2> QED BY <2>1, <2>2, <2>3, <2>4, <2>5, <2>6
  <1>4. ASSUME NEW d \in Dirs, ReadDirFails(d) PROVE IInv'
    <2>1. TypeOK' BY <1>4 DEF ReadDirFails, loadVars, TypeOK, Entries
    <2>2. NoWalkerAfterClose' BY <1>4 DEF ReadDirFails, loadVars, TypeOK, NoWalkerAfterClose, Active
    <2>3. EntriesKept' BY <1>4 DEF ReadDirFails, loadVars, TypeOK, Entries, EntriesKept, Reached
    <2>4. FilesKept' BY <1>4 DEF ReadDirFails, loadVars, TypeOK, FilesKept, WalkersKept, InChannel
    <2>5. WalkersKept' BY <1>4 DEF ReadDirFails, loadVars, TypeOK, WalkersKept, NoWalkerAfterClose, Active
    <2>6. TodoFresh' BY <1>4 DEF ReadDirFails, loadVars, TypeOK, Entries, TodoFresh
    <2> QED BY <2>1, <2>2, <2>3, <2>4, <2>5, <2>6
  <1>5. ASSUME NEW d \in Dirs, WalkEnds(d) PROVE IInv'
    <2>1. TypeOK' BY <1>5 DEF WalkEnds, loadVars, TypeOK, Entries
    <2>2. NoWalkerAfterClose' BY <1>5 DEF WalkEnds, loadVars, TypeOK, NoWalkerAfterClose, Active
    <2>3. EntriesKept' BY <1>5 DEF WalkEnds, loadVars, TypeOK, Entries, EntriesKept, Reached
    <2>4. FilesKept' BY <1>5 DEF WalkEnds, loadVars, TypeOK, FilesKept, WalkersKept, InChannel
    <2>5. WalkersKept' BY <1>5 DEF WalkEnds, loadVars, TypeOK, WalkersKept, NoWalkerAfterClose, Active
    <2>6. TodoFresh' BY <1>5 DEF WalkEnds, loadVars, TypeOK, Entries, TodoFresh
    <2> QED BY <2>1, <2>2, <2>3, <2>4, <2>5, <2>6
  <1>6. ASSUME NEW d \in Dirs, NEW e \in Entries, Descend(d, e) PROVE IInv'
    <2>1. TypeOK' BY <1>6 DEF Descend, loadVars, TypeOK, Entries
    <2>2. NoWalkerAfterClose' BY <1>6 DEF Descend, loadVars, TypeOK, NoWalkerAfterClose, Active
    <2>3. EntriesKept' BY <1>6 DEF Descend, loadVars, TypeOK, Entries, EntriesKept, Reached
    <2>4. FilesKept' BY <1>6 DEF Descend, loadVars, TypeOK, FilesKept, WalkersKept, InChannel
    <2>5. WalkersKept' BY <1>6 DEF Descend, loadVars, TypeOK, WalkersKept, TodoFresh, Entries, NoWalkerAfterClose, Active
    <2>6. TodoFresh' BY <1>6 DEF Descend, loadVars, TypeOK, Entries, TodoFresh
    <2> QED BY <2>1, <2>2, <2>3, <2>4, <2>5, <2>6
  <1>7. ASSUME NEW d \in Dirs, NEW e \in Entries, Find(d, e) PROVE IInv'
    <2>1. TypeOK' BY <1>7 DEF Find, loadVars, TypeOK, Entries
    <2>2. NoWalkerAfterClose' BY <1>7 DEF Find, loadVars, TypeOK, NoWalkerAfterClose, Active
    <2>3. EntriesKept' BY <1>7 DEF Find, loadVars, TypeOK, Entries, EntriesKept, Reached
    <2>4. FilesKept' BY <1>7 DEF Find, loadVars, TypeOK, Entries, FilesKept, WalkersKept, InChannel
    <2>5. WalkersKept' BY <1>7 DEF Find, loadVars, TypeOK, WalkersKept, NoWalkerAfterClose, Active
    <2>6. TodoFresh' BY <1>7 DEF Find, loadVars, TypeOK, Entries, TodoFresh
    <2> QED BY <2>1, <2>2, <2>3, <2>4, <2>5, <2>6
  <1>8. ASSUME NEW d \in Dirs, NEW f \in Files, Send(d, f) PROVE IInv'
    <2>c. /\ fileCh' \in Seq(Files)
          /\ \E i \in DOMAIN fileCh' : fileCh'[i] = f
          /\ \A g : InChannel(g) => InChannel(g)'
      <3>1. fileCh \in Seq(Files) /\ fileCh' = Append(fileCh, f) BY <1>8 DEF Send, TypeOK
      <3>2. fileCh' \in Seq(Files) /\ \E i \in DOMAIN fileCh' : fileCh'[i] = f
        BY <3>1, ChannelSend
      <3>3. ASSUME NEW g, \E i \in DOMAIN fileCh : fileCh[i] = g
            PROVE  \E i \in DOMAIN fileCh' : fileCh'[i] = g
        BY <3>1, <3>3, ChannelSend
      <3> QED BY <3>2, <3>3 DEF InChannel
    <2>1. TypeOK' BY <1>8, <2>c DEF Send, loadVars, TypeOK, Entries
    <2>2. NoWalkerAfterClose' BY <1>8 DEF Send, loadVars, TypeOK, NoWalkerAfterClose, Active
    <2>3. EntriesKept' BY <1>8 DEF Send, loadVars, TypeOK, Entries, EntriesKept, Reached
    <2>4. FilesKept'
      <3> SUFFICES ASSUME ~cancelled, NEW g \in found
                   PROVE  (\E k \in Dirs : g \in sending'[k]) \/ InChannel(g)' \/ g \in current \cup saved \cup skipped
        BY <1>8 DEF Send, loadVars, FilesKept
      <3>1. CASE g = f BY <3>1, <2>c DEF InChannel
      <3>2. CASE g # f
        <4>1. \A k \in Dirs : g \in sending[k] => g \in sending'[k]
          BY <1>8, <3>2 DEF Send, TypeOK, WalkersKept
        <4> QED BY <4>1, <2>c DEF FilesKept
      <3> QED BY <3>1, <3>2
    <2>5. WalkersKept' BY <1>8 DEF Send, loadVars, TypeOK, WalkersKept, NoWalkerAfterClose, Active
    <2>6. TodoFresh' BY <1>8 DEF Send, loadVars, TypeOK, Entries, TodoFresh
    <2> QED BY <2>1, <2>2, <2>3, <2>4, <2>5, <2>6
  <1>9. ASSUME CloseChannel PROVE IInv'
    <2>1. TypeOK' BY <1>9 DEF CloseChannel, walkVars, loadVars, TypeOK, Entries
    <2>2. NoWalkerAfterClose' BY <1>9 DEF CloseChannel, walkVars, loadVars, TypeOK, NoWalkerAfterClose, Active
    <2>3. EntriesKept' BY <1>9 DEF CloseChannel, walkVars, loadVars, TypeOK, Entries, EntriesKept, Reached
    <2>4. FilesKept' BY <1>9 DEF CloseChannel, walkVars, loadVars, TypeOK, FilesKept, InChannel
    <2>5. WalkersKept' BY <1>9 DEF CloseChannel, walkVars, loadVars, TypeOK, WalkersKept
    <2>6. TodoFresh' BY <1>9 DEF CloseChannel, walkVars, loadVars, TypeOK, Entries, TodoFresh
    <2> QED BY <2>1, <2>2, <2>3, <2>4, <2>5, <2>6
  <1>10. ASSUME Receive PROVE IInv'
    <2>c. /\ fileCh' \in Seq(Files)
          /\ Head(fileCh) \in Files
          /\ \A g : InChannel(g) => g = Head(fileCh) \/ InChannel(g)'
      BY <1>10, ChannelReceive DEF Receive, TypeOK, InChannel
    <2>1. TypeOK' BY <1>10, <2>c DEF Receive, walkVars, Idle, TypeOK, Entries
    <2>2. NoWalkerAfterClose' BY <1>10 DEF Receive, walkVars, Idle, TypeOK, NoWalkerAfterClose, Active
    <2>3. EntriesKept' BY <1>10 DEF Receive, walkVars, Idle, TypeOK, Entries, EntriesKept, Reached
    <2>4. FilesKept'
      <3> SUFFICES ASSUME ~cancelled, NEW g \in found
                   PROVE  (\E k \in Dirs : g \in sending[k]) \/ InChannel(g)' \/ g \in current' \cup saved \cup skipped
        BY <1>10 DEF Receive, walkVars, FilesKept
      <3>1. current = {} /\ current' = {Head(fileCh)} BY <1>10 DEF Receive, Idle
      <3>2. InChannel(g) => g \in current' \/ InChannel(g)' BY <2>c, <3>1
      <3> QED BY <3>1, <3>2 DEF FilesKept
    <2>5. WalkersKept' BY <1>10 DEF Receive, walkVars, Idle, TypeOK, WalkersKept
    <2>6. TodoFresh' BY <1>10 DEF Receive, walkVars, Idle, TypeOK, Entries, TodoFresh
    <2> QED BY <2>1, <2>2, <2>3, <2>4, <2>5, <2>6
  <1>11. ASSUME NEW f \in Files, FileSaved(f) PROVE IInv'
    <2>1. TypeOK' BY <1>11 DEF FileSaved, walkVars, TypeOK, Entries
    <2>2. NoWalkerAfterClose' BY <1>11 DEF FileSaved, walkVars, TypeOK, NoWalkerAfterClose, Active
    <2>3. EntriesKept' BY <1>11 DEF FileSaved, walkVars, TypeOK, Entries, EntriesKept, Reached
    <2>4. FilesKept' BY <1>11 DEF FileSaved, walkVars, TypeOK, FilesKept, WalkersKept, InChannel
    <2>5. WalkersKept' BY <1>11 DEF FileSaved, walkVars, TypeOK, WalkersKept
    <2>6. TodoFresh' BY <1>11 DEF FileSaved, walkVars, TypeOK, Entries, TodoFresh
    <2> QED BY <2>1, <2>2, <2>3, <2>4, <2>5, <2>6
  <1>12. ASSUME NEW f \in Files, MkdirFails(f) PROVE IInv'
    <2>1. TypeOK' BY <1>12 DEF MkdirFails, walkVars, TypeOK, Entries
    <2>2. NoWalkerAfterClose' BY <1>12 DEF MkdirFails, walkVars, TypeOK, NoWalkerAfterClose, Active
    <2>3. EntriesKept' BY <1>12 DEF MkdirFails, walkVars, TypeOK, Entries, EntriesKept, Reached
    <2>4. FilesKept' BY <1>12 DEF MkdirFails, walkVars, TypeOK, FilesKept, WalkersKept, InChannel
    <2>5. WalkersKept' BY <1>12 DEF MkdirFails, walkVars, TypeOK, WalkersKept
    <2>6. TodoFresh' BY <1>12 DEF MkdirFails, walkVars, TypeOK, Entries, TodoFresh
    <2> QED BY <2>1, <2>2, <2>3, <2>4, <2>5, <2>6
  <1>13. ASSUME NEW f \in Files, FileFails(f) PROVE IInv'
    <2>1. TypeOK' BY <1>13 DEF FileFails, walkVars, TypeOK, Entries
    <2>2. NoWalkerAfterClose' BY <1>13 DEF FileFails, walkVars, TypeOK, NoWalkerAfterClose, Active
    <2>3. EntriesKept' BY <1>13 DEF FileFails, walkVars, TypeOK, Entries, EntriesKept, Reached
    <2>4. FilesKept' BY <1>13 DEF FileFails, walkVars, TypeOK, FilesKept, WalkersKept, InChannel
    <2>5. WalkersKept' BY <1>13 DEF FileFails, walkVars, TypeOK, WalkersKept
    <2>6. TodoFresh' BY <1>13 DEF FileFails, walkVars, TypeOK, Entries, TodoFresh
    <2> QED BY <2>1, <2>2, <2>3, <2>4, <2>5, <2>6
  <1>14. ASSUME Finish PROVE IInv'
    <2>1. TypeOK' BY <1>14 DEF Finish, walkVars, Idle, TypeOK, Entries
    <2>2. NoWalkerAfterClose' BY <1>14 DEF Finish, walkVars, Idle, TypeOK, NoWalkerAfterClose, Active
    <2>3. EntriesKept' BY <1>14 DEF Finish, walkVars, Idle, TypeOK, Entries, EntriesKept, Reached
    <2>4. FilesKept' BY <1>14 DEF Finish, walkVars, Idle, TypeOK, FilesKept, WalkersKept, InChannel
    <2>5. WalkersKept' BY <1>14 DEF Finish, walkVars, Idle, TypeOK, WalkersKept
    <2>6. TodoFresh' BY <1>14 DEF Finish, walkVars, Idle, TypeOK, Entries, TodoFresh
    <2> QED BY <2>1, <2>2, <2>3, <2>4, <2>5, <2>6
  <1>15. ASSUME Cancel PROVE IInv'
    <2>1. TypeOK' BY <1>15 DEF Cancel, walkVars, loadVars, TypeOK, Entries
    <2>2. NoWalkerAfterClose' BY <1>15 DEF Cancel, walkVars, loadVars, TypeOK, NoWalkerAfterClose, Active
    <2>3. EntriesKept' BY <1>15 DEF Cancel, walkVars, loadVars, TypeOK, Entries, EntriesKept, Reached
    <2>4. FilesKept' BY <1>15 DEF Cancel, walkVars, loadVars, TypeOK, FilesKept, WalkersKept, InChannel
    <2>5. WalkersKept' BY <1>15 DEF Cancel, walkVars, loadVars, TypeOK, WalkersKept
    <2>6. TodoFresh' BY <1>15 DEF Cancel, walkVars, loadVars, TypeOK, Entries, TodoFresh
    <2> QED BY <2>1, <2>2, <2>3, <2>4, <2>5, <2>6
  <1>16. CASE UNCHANGED vars
    <2>1. \A g : InChannel(g)' <=> InChannel(g) BY <1>16 DEF vars, InChannel
    <2>2. \A e : Reached(e)' <=> Reached(e) BY <1>16 DEF vars, Reached
    <2> QED BY <1>16, <2>1, <2>2 DEF vars, TypeOK, NoWalkerAfterClose, Active, EntriesKept, FilesKept, WalkersKept, TodoFresh
  <1>17. \A d \in Dirs, e \in Entries : Send(d, e) => e \in Files
    BY DEF Send, TypeOK
  <1> QED BY <1>1, <1>2, <1>3, <1>4, <1>5, <1>6, <1>7, <1>8, <1>9, <1>10, <1>11, <1>12, <1>13, <1>14, <1>15, <1>16, <1>17 DEF Next

\* What the inductive invariant says holds in every state, for every tree.
THEOREM Invariance == SafetySpec => []IInv
  BY InitIInv, NextIInv, PTL DEF SafetySpec

\* No walker runs once the channel is closed, so none sends on it and panics.
THEOREM NoSendOnClosed == SafetySpec => []NoWalkerAfterClose
  <1>1. IInv => NoWalkerAfterClose BY DEF IInv
  <1> QED BY <1>1, Invariance, PTL

\* A download that ends uncancelled has counted and then saved or skipped every
\* file of every directory it could read.
THEOREM NothingIsForgotten == SafetySpec => []NothingForgotten
  <1>1. IInv => NothingForgotten
    <2> SUFFICES ASSUME IInv, result = "ok", ~cancelled PROVE NothingForgotten
      BY DEF NothingForgotten
    <2>1. closed /\ fileCh = <<>> /\ current = {} /\ walker[Root] # "none"
      BY DEF IInv, WalkersKept
    <2>2. \A d \in Dirs : walker[d] # "none" => walker[d] = "done"
      BY <2>1 DEF IInv, NoWalkerAfterClose, Active
    <2>3. \A f : ~InChannel(f)
      BY <2>1 DEF InChannel
    <2>4. \A f \in found : f \in saved \cup skipped
      BY <2>1, <2>2, <2>3 DEF IInv, FilesKept, WalkersKept
    <2>5. ASSUME NEW e \in Entries, walker[Parent[e]] = "done", Parent[e] \notin unread
          PROVE  Reached(e)
      BY <2>5 DEF IInv, EntriesKept
    <2> QED BY <2>1, <2>2, <2>4, <2>5, TreeAssumption DEF NothingForgotten, Reached
  <1> QED BY <1>1, Invariance, PTL
=============================================================================
