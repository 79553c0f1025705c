----------------------------- MODULE RestClient ------------------------------
(***************************************************************************)
(* An .http file and its requests, features/rest-client/ui/RestClientView: *)
(* the text is loaded when the page mounts and saved by a timer after the  *)
(* last key.  A text is told apart as a whole, a request by the text it    *)
(* was parsed from.                                                        *)
(***************************************************************************)
EXTENDS PageCalls

CONSTANTS Texts, Empty, Default     \* what can be stored; none; the example of an empty file

VARIABLES ui, back  \* back: the text in the asset's row

vars == <<ui, calls, back>>

Call(op, t, n) == [op |-> op, text |-> t, nth |-> n]

\* timer, late: texts the timers of this page and of its earlier mounts will save.
\* asked, mixed, crossed, failed (history): the last request; two requests out at
\* once; a save that another save or a load could overtake; a failed load or save.
\* Where nothing is claimed any more no click is explored.
Mounted == [text |-> Empty, loaded |-> FALSE, timer |-> {}, late |-> {}, status |-> "idle",
            sending |-> FALSE, response |-> Empty, asked |-> Empty,
            mixed |-> FALSE, crossed |-> FALSE, failed |-> FALSE]

Usable == ui.loaded /\ ~ui.mixed /\ ~ui.crossed /\ ~ui.failed

Init ==
    /\ ui = Mounted /\ calls = {Call("load", Empty, 1)}
    /\ back \in Texts

\* LoadHTTPContent answers a failed read with "" as well, and both show the example,
\* which is stored nowhere until a key is struck.
AnswerLoad(c) ==
    /\ c.op = "load" /\ Answered(c)
    /\ \/ ui' = [ui EXCEPT !.text = IF back = Empty THEN Default ELSE back, !.loaded = TRUE]
       \/ ui' = [ui EXCEPT !.text = Default, !.loaded = TRUE, !.failed = TRUE]
    /\ UNCHANGED back

\* Mutant: a key struck while the timer runs does not set it anew.
TypeOnce(t) ==
    /\ Usable /\ t # ui.text
    /\ ui' = [ui EXCEPT !.text = t, !.timer = IF @ = {} THEN {t} ELSE @, !.status = "saving"]
    /\ UNCHANGED <<calls, back>>

\* handleContentChange and the Tab key.
Type(t) ==
    /\ Usable /\ t # ui.text
    /\ ui' = [ui EXCEPT !.text = t, !.timer = {t}, !.status = "saving"]
    /\ UNCHANGED <<calls, back>>

\* The timer of a closed page saves all the same.
TimerFires(t) ==
    /\ t \in ui.timer \cup ui.late
    /\ Ask(Call("save", t, IF t \in ui.timer THEN 1 ELSE 2))
    /\ ui' = [ui EXCEPT !.timer = @ \ {t}, !.late = IF t \in ui.timer THEN @ ELSE @ \ {t},
                        !.crossed = @ \/ CallsOf({"save"}) # {}]
    /\ UNCHANGED back

\* "saved" says nothing of what was typed since, and goes after a while.
AnswerSave(c) ==
    /\ c.op = "save" /\ Answered(c)
    /\ \/ back' = c.text /\ ui' = [ui EXCEPT !.status = "saved"]
       \/ back' = back /\ ui' = [ui EXCEPT !.status = "idle", !.failed = TRUE]

StatusFades ==
    /\ ui.status = "saved"
    /\ ui' = [ui EXCEPT !.status = "idle"]
    /\ UNCHANGED <<calls, back>>

Requests == Usable /\ ui.text # Empty

\* Sends that start together: one for a button, two for the key, which the editor
\* handles and the page around it handles again.
SendRequest(copies) ==
    LET new == {Call("send", ui.text, n) : n \in copies}
    IN  /\ calls \cap new = {} /\ Cardinality(calls) < MaxCalls
        /\ calls' = calls \cup new
        /\ ui' = [ui EXCEPT !.sending = TRUE, !.response = Empty, !.asked = ui.text,
                            !.mixed = @ \/ \E c \in CallsOf({"send"}) : c.text # ui.text]
        /\ UNCHANGED back

\* The buttons in the editor wait for the answer; the one above it and the key do not.
SendButton == Requests /\ ~ui.sending /\ SendRequest({1})
SendCurrent == Requests /\ SendRequest({2})
HandleKeyDown == Requests /\ SendRequest({1, 2})

\* Whichever answer comes is shown, and the first one ends the spinner.
AnswerSend(c) ==
    /\ c.op = "send" /\ Answered(c)
    /\ ui' = [ui EXCEPT !.response = c.text, !.sending = FALSE]
    /\ UNCHANGED back

\* The page is closed and opened again: what was under way saves, and shows nothing.
Reopen ==
    /\ Usable /\ ui.late = {}
    /\ calls' = CallsOf({"save"}) \cup {Call("load", Empty, 1)}
    /\ ui' = [Mounted EXCEPT !.late = ui.timer, !.failed = ui.failed,
                             !.crossed = ui.crossed \/ ui.timer # {} \/ CallsOf({"save"}) # {}]
    /\ UNCHANGED back

Answer == \E c \in calls : AnswerLoad(c) \/ AnswerSend(c)

Editor == (\E t \in Texts : Type(t)) \/ SendButton
Header == SendCurrent \/ StatusFades

Next ==
    \/ Editor \/ Header \/ HandleKeyDown \/ Reopen
    \/ \E t \in Texts : TimerFires(t)
    \/ \E c \in calls : AnswerSave(c)
    \/ Answer

-----------------------------------------------------------------------------
TypeOK == ui.timer \subseteq Texts /\ Cardinality(ui.timer \cup ui.late) <= 2

\* Once nothing is to be saved the text is the stored one, or the example where none
\* is; the response shown is of the last request, unless two were out at once.
ShownBelongs ==
    /\ (ui.loaded /\ ~ui.crossed /\ ~ui.failed /\ ui.timer = {} /\ CallsOf({"save"}) = {})
       => ui.text = back \/ (back = Empty /\ ui.text = Default)
    /\ ~ui.mixed => ui.response \in {Empty, ui.asked}

Busy == ui.sending \/ ~ui.loaded
=============================================================================
