-------------------------------- MODULE TabBar --------------------------------
(***************************************************************************)
(* The tools of widgets/tab-bar/ui/TabBar.tsx: the countdown, the          *)
(* screenshot and the music search (its tabs are in module Workspace, its  *)
(* player buttons in MusicPlayer).  Screenshot and search are also reached *)
(* by keys, which their disabled buttons do not stop.                      *)
(*                                                                         *)
(* App leaves the bar out while a full-screen view is chosen; the next one *)
(* starts anew, and the interval of the one before goes on.                *)
(***************************************************************************)
EXTENDS PageCalls

CONSTANTS Words, NoWord, MaxSecs    \* bound: of a countdown

VARIABLES ui, back  \* back: the intervals the browser runs

vars == <<ui, calls, back>>

\* The interval of a bar that is gone.
Gone == 2

\* queued: a tick that is counted when React renders; a click before that overtakes it,
\* and leaves of it that its last second was up.  History: twice, a screenshot or search
\* was started while one was under way; left, another activity was chosen.
Fresh == [open |-> FALSE, remain |-> 0, running |-> FALSE, finished |-> FALSE, tick |-> 0,
          queued |-> "none", capturing |-> FALSE, searching |-> FALSE, results |-> NoWord,
          twice |-> FALSE, left |-> FALSE]

Init == ui = Fresh /\ calls = {} /\ back = {}

\* A full-screen view and back: nothing clears the interval, whose ticks set nothing (but
\* React may count one, and a last second ends it), and the calls answer nobody.
Reopen ==
    /\ ui' = [Fresh EXCEPT !.left = TRUE]
    /\ calls' = {[c EXCEPT !.here = FALSE] : c \in calls}
    /\ \/ back' = IF back = {} THEN {} ELSE {Gone}
       \/ ui.remain <= 1 /\ back' = back \ {ui.tick}

OpenCountdown ==
    /\ ~ui.finished
    /\ ui' = [ui EXCEPT !.open = ~@]
    /\ UNCHANGED <<calls, back>>

\* What a new remainder leaves of a tick that is not yet counted.
Overtaken == IF ui.queued = "none" \/ (ui.queued = "tick" /\ ui.remain > 1) THEN "none" ELSE "last"

\* Mutant: the interval before goes on.
CdStartKeepsInterval(secs) ==
    /\ ui.open /\ secs > 0
    /\ back' = back \cup {1 - ui.tick}
    /\ ui' = [ui EXCEPT !.remain = secs, !.running = TRUE, !.finished = FALSE, !.open = FALSE,
                        !.tick = 1 - @, !.queued = Overtaken]
    /\ UNCHANGED calls

\* The interval kept in the ref is cleared and a new one takes its place.
CdStart(secs) ==
    /\ ui.open /\ secs > 0
    /\ LET i == 1 - ui.tick
       IN  /\ back' = (back \ {ui.tick}) \cup {i}
           /\ ui' = [ui EXCEPT !.remain = secs, !.running = TRUE, !.finished = FALSE,
                               !.open = FALSE, !.tick = i, !.queued = Overtaken]
    /\ UNCHANGED calls

\* The last second clears the interval that is in the ref by then.
LastSecond(remain) ==
    /\ ui' = [ui EXCEPT !.remain = remain, !.running = FALSE, !.finished = TRUE, !.queued = "none"]
    /\ back' = back \ {ui.tick}

Count ==
    IF ui.remain <= 1
    THEN LastSecond(0)
    ELSE ui' = [ui EXCEPT !.remain = @ - 1, !.queued = "none"] /\ UNCHANGED back

\* Each interval counts down the one remainder, at once or with the next render.
\* bound: which comes before the next second.
CdTick ==
    /\ back \ {Gone} # {} /\ ui.queued = "none"
    /\ Count \/ (ui' = [ui EXCEPT !.queued = "tick"] /\ UNCHANGED back)
    /\ UNCHANGED calls

Render ==
    /\ \/ ui.queued = "tick" /\ Count
       \/ ui.queued = "last" /\ LastSecond(ui.remain)
    /\ UNCHANGED calls

\* Stop, or the button after the end.
CdReset ==
    /\ ui.finished \/ (ui.open /\ ui.running)
    /\ ui' = [ui EXCEPT !.remain = 0, !.running = FALSE, !.finished = FALSE,
                        !.queued = Overtaken]
    /\ back' = back \ {ui.tick}
    /\ UNCHANGED calls

UnderWay(op) == \E c \in CallsOf({op}) : c.here

\* From the menu of a button disabled while it loads, or by its keys.
HandleCapture(mode, byKey) ==
    /\ byKey \/ ~ui.capturing
    /\ Ask([op |-> "capture", word |-> mode, here |-> TRUE])
    /\ ui' = [ui EXCEPT !.capturing = TRUE, !.twice = @ \/ UnderWay("capture")]
    /\ UNCHANGED back

CaptureEnds(c) ==
    /\ c.op = "capture" /\ c.here /\ Answered(c)
    /\ ui' = [ui EXCEPT !.capturing = FALSE]
    /\ UNCHANGED back

HandleSearch(w, byKey) ==
    /\ byKey \/ ~ui.searching
    /\ Ask([op |-> "search", word |-> w, here |-> TRUE])
    /\ ui' = [ui EXCEPT !.searching = TRUE, !.twice = @ \/ UnderWay("search")]
    /\ UNCHANGED back

\* A search that fails leaves the results before.
SearchEnds(c) ==
    /\ c.op = "search" /\ c.here /\ Answered(c)
    /\ \E r \in {c.word, ui.results} :
           ui' = [ui EXCEPT !.searching = FALSE, !.results = r]
    /\ UNCHANGED back

LeftEnds(c) == ~c.here /\ Answered(c) /\ UNCHANGED <<ui, back>>

\* The answer a spinner waits for.
Answer == \E c \in calls : SearchEnds(c)

\* What the bar offers: the countdown and its presets, the screenshot and its two
\* modes, the search; and the keys.
Countdown == OpenCountdown \/ CdReset \/ \E s \in 1..MaxSecs : CdStart(s)
Screenshot == HandleCapture("region", FALSE) \/ HandleCapture("window", FALSE)
Search == \E w \in Words, enter \in BOOLEAN : HandleSearch(w, enter)
Shortcut == HandleCapture("region", TRUE)

Next ==
    \/ Countdown \/ Screenshot \/ Search \/ Shortcut \/ Reopen \/ CdTick \/ Render
    \/ \E c \in calls : CaptureEnds(c) \/ LeftEnds(c)
    \/ Answer

-----------------------------------------------------------------------------
TypeOK == ui.remain \in 0..MaxSecs /\ back \subseteq {0, 1, Gone}

\* A countdown that runs has one interval of this bar and time left, any other has none,
\* and what is left on it without the bell is nothing; only a bar that was left has an
\* interval of its own still going.  A spinner turns while its call is under way,
\* unless keys started a second.
WorkOwned ==
    /\ ui.running => back \ {Gone} = {ui.tick} /\ ui.remain > 0
    /\ ~ui.running => back \ {Gone} = {} /\ (ui.finished \/ ui.remain = 0)
    /\ Gone \in back => ui.left
    /\ ~ui.twice => ui.capturing = UnderWay("capture") /\ ui.searching = UnderWay("search")

Busy == ui.searching
=============================================================================
