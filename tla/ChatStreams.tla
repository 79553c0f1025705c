---------------------------- MODULE ChatStreams -----------------------------
(***************************************************************************)
(* The assistant: pages/chat/ui/ChatView.tsx over bridge/chat.  A question *)
(* is saved and answered by a stream of its own, whose tokens come to the  *)
(* page as events in the order they were sent; the page reads no           *)
(* conversation from them.  A message is told apart by its conversation,   *)
(* its role and the question it belongs to; titles, prompts and the fields *)
(* they are typed in are left out, and a stream's tokens are one.          *)
(*                                                                         *)
(* App shows the page only while its activity is chosen: left and entered  *)
(* again it starts anew, while Go streams on, and what is emitted          *)
(* meanwhile nobody hears.                                                 *)
(***************************************************************************)
EXTENDS PageCalls

CONSTANTS Convs, NoConv, MaxSends   \* bound: questions asked

VARIABLES ui, back

vars == <<ui, calls, back>>

Call(op, conv) == [op |-> op, conv |-> conv, nth |-> 0, here |-> TRUE]
Listing == Call("convs", NoConv)
Loading(conv) == Call("messages", conv)
Message(s, role) == [conv |-> s.conv, nth |-> s.nth, role |-> role]
Question(s) == [conv |-> s.conv, nth |-> s.nth]

\* The questions whose last event the page has still to hear.
UnderWay ==
    {q.nth : q \in CallsOf({"send"}) \cup back.streams}
        \cup {back.events[i].nth : i \in DOMAIN back.events}

\* History: made, the IDs drawn; cleared, the messages were emptied or not to be had;
\* left, the page was left; lost, the questions whose spinner went before them; moved,
\* those under way when another conversation came on or the page was left; hasty, the
\* messages were asked for with what sets them anew under way; orphaned, a
\* conversation was deleted with a question of its own under way.
Init ==
    /\ back \in {[convs |-> cs, msgs |-> {}, streams |-> {}, events |-> <<>>] : cs \in SUBSET Convs}
    /\ ui = [mounted |-> TRUE, convs |-> {}, active |-> NoConv, messages |-> {},
             streaming |-> FALSE, content |-> {}, sends |-> 0,
             made |-> back.convs, cleared |-> FALSE, left |-> FALSE, lost |-> {}, moved |-> {},
             hasty |-> FALSE, orphaned |-> FALSE]
    /\ calls = {Listing}

\* bound: after the last two only the questions under way are followed.
Free == ~ui.hasty /\ ~ui.orphaned

\* bound: with the last question nothing more is made, deleted or left.
More == ui.sends < MaxSends

\* Another activity: what the page has is gone, and an answer after it sets nothing;
\* Go goes on with what it was asked to do.
Leave ==
    /\ ui.mounted
    /\ ui' = [ui EXCEPT !.mounted = FALSE, !.convs = {}, !.active = NoConv, !.messages = {},
                        !.streaming = FALSE, !.content = {}, !.cleared = FALSE, !.left = TRUE,
                        !.lost = UnderWay, !.moved = UnderWay]
    /\ calls' = CallsOf({"send"}) \cup {[c EXCEPT !.here = FALSE] : c \in CallsOf({"create", "delete"})}
    /\ UNCHANGED back

Enter ==
    /\ ~ui.mounted
    /\ ui' = [ui EXCEPT !.mounted = TRUE]
    /\ calls' = calls \cup {Listing}
    /\ UNCHANGED back

\* loadConversations: a list that cannot be had is an empty one.
AnswerListing(c) ==
    /\ c.op = "convs" /\ Answered(c)
    /\ \E list \in {back.convs, {}} : ui' = [ui EXCEPT !.convs = list]
    /\ UNCHANGED back

AnswerMessages(c) ==
    /\ c.op = "messages" /\ Answered(c)
    /\ \/ ui' = [ui EXCEPT !.messages = {m \in back.msgs : m.conv = c.conv}, !.cleared = FALSE]
       \/ ui' = [ui EXCEPT !.messages = {}, !.cleared = TRUE]
    /\ UNCHANGED back

\* What may set the messages after those asked for now.
Unsettled == CallsOf({"messages", "create", "listing", "delete"}) # {}

\* Mutant: the spinner goes with the conversation it was started in.
SelectConvStops(conv) ==
    /\ conv \in ui.convs /\ Ask(Loading(conv))
    /\ ui' = [ui EXCEPT !.active = conv, !.content = {}, !.streaming = FALSE]
    /\ UNCHANGED back

HandleSelectConv(conv) ==
    /\ conv \in ui.convs /\ Ask(Loading(conv))
    /\ ui' = [ui EXCEPT !.active = conv, !.content = {},
                        !.moved = IF conv = ui.active THEN @ ELSE UnderWay,
                        !.hasty = Unsettled]
    /\ UNCHANGED back

\* A conversation is made, the list loaded, and then it is on the page, whatever came
\* on meanwhile.
HandleNewConv(conv) ==
    /\ ui.mounted /\ conv \notin ui.made /\ Ask(Call("create", conv))
    /\ ui' = [ui EXCEPT !.made = @ \cup {conv}]
    /\ UNCHANGED back

AnswerCreate(c) ==
    /\ c.op = "create"
    /\ \/ /\ IF c.here THEN Continue(c, Call("listing", c.conv)) ELSE Answered(c)
          /\ back' = [back EXCEPT !.convs = @ \cup {c.conv}]
       \/ Answered(c) /\ UNCHANGED back
    /\ UNCHANGED ui

ShowNew(c) ==
    /\ c.op = "listing" /\ Answered(c)
    /\ \E list \in {back.convs, {}} :
           ui' = [ui EXCEPT !.convs = list, !.active = c.conv, !.messages = {}, !.content = {},
                            !.cleared = FALSE, !.moved = UnderWay,
                            !.hasty = @ \/ CallsOf({"messages", "delete"}) # {}
                                        \/ c.conv \notin back.convs]
    /\ UNCHANGED back

\* What a question of a conversation has under way.
Asked(conv) ==
    \/ \E c \in CallsOf({"send"}) : c.conv = conv
    \/ \E s \in back.streams : s.conv = conv

HandleDeleteConv(conv) ==
    /\ conv \in ui.convs
    /\ Ask([Call("delete", conv) EXCEPT !.nth = IF ui.active = conv THEN 1 ELSE 0])
    /\ ui' = [ui EXCEPT !.orphaned = @ \/ Asked(conv), !.hasty = @ \/ Loading(conv) \in calls]
    /\ UNCHANGED back

\* Mutant: the messages of a deleted conversation stay.
AnswerDeleteConvOnly(c) ==
    /\ c.op = "delete"
    /\ IF c.here THEN Continue(c, Listing) ELSE Answered(c)
    /\ back' = [back EXCEPT !.convs = @ \ {c.conv}]
    /\ ui' = IF c.here /\ c.nth = 1 THEN [ui EXCEPT !.active = NoConv, !.messages = {}] ELSE ui

\* The page is emptied if the conversation was on it when delete was clicked.
AnswerDelete(c) ==
    /\ c.op = "delete"
    /\ \/ /\ IF c.here THEN Continue(c, Listing) ELSE Answered(c)
          /\ back' = [back EXCEPT !.convs = @ \ {c.conv}, !.msgs = {m \in @ : m.conv # c.conv}]
          /\ ui' = IF c.here /\ c.nth = 1 THEN [ui EXCEPT !.active = NoConv, !.messages = {}] ELSE ui
       \/ Answered(c) /\ UNCHANGED <<ui, back>>

\* A new title, or prompt for the conversation on the page: the list is loaded again.
HandleRename(conv) == conv \in ui.convs /\ Ask(Listing) /\ UNCHANGED <<ui, back>>
HandleSaveSystemPrompt == ui.active # NoConv /\ Ask(Listing) /\ UNCHANGED <<ui, back>>

ClearShown ==
    /\ ui.active # NoConv
    /\ ui' = [ui EXCEPT !.messages = {}, !.cleared = TRUE]
    /\ UNCHANGED <<calls, back>>

HandleSend ==
    /\ ui.active # NoConv /\ ~ui.streaming /\ More
    /\ LET c == [Call("send", ui.active) EXCEPT !.nth = ui.sends + 1]
       IN  /\ Ask(c)
           /\ ui' = [ui EXCEPT !.messages = @ \cup {Message(c, "user")}, !.sends = @ + 1,
                               !.streaming = TRUE, !.content = {},
                               !.orphaned = @ \/ ui.active \notin back.convs
                                            \/ \E d \in CallsOf({"delete"}) : d.conv = ui.active]
    /\ UNCHANGED back

\* A row for a conversation that is gone is kept or refused: foreign keys are on for one
\* connection of the pool.
Kept(m) == IF m.conv \in back.convs THEN {{m}} ELSE {{m}, {}}

\* SendMessage: one cancel function for all conversations, the last question's.
SendMessage(c) ==
    /\ c.op = "send" /\ Answered(c)
    /\ \E kept \in Kept(Message(c, "user")) :
           back' = [back EXCEPT !.msgs = @ \cup kept,
                                !.streams = {[s EXCEPT !.on = FALSE] : s \in @}
                                            \cup {[conv |-> c.conv, nth |-> c.nth,
                                                   said |-> FALSE, on |-> TRUE]}]
    /\ UNCHANGED ui

\* A stop that overtakes the send finds nothing to stop.
HandleStop ==
    /\ ui.streaming /\ ui.active # NoConv
    /\ back' = [back EXCEPT !.streams = {[s EXCEPT !.on = FALSE] : s \in @}]
    /\ UNCHANGED <<ui, calls>>

Emit(s, done) == [back EXCEPT !.events = Append(@, [conv |-> s.conv, nth |-> s.nth, done |-> done])]

StreamToken(s) ==
    /\ s.on /\ ~s.said
    /\ back' = [Emit(s, FALSE) EXCEPT !.streams = (@ \ {s}) \cup {[s EXCEPT !.said = TRUE]}]
    /\ UNCHANGED <<ui, calls>>

\* The end of the stream, an error, a stop or five minutes: what was said is saved.
StreamEnds(s) ==
    /\ \E kept \in IF s.said THEN Kept(Message(s, "assistant")) ELSE {{}} :
           back' = [Emit(s, TRUE) EXCEPT !.streams = @ \ {s}, !.msgs = @ \cup kept]
    /\ UNCHANGED <<ui, calls>>

\* An event nobody listens to is gone.
EventLost ==
    /\ ~ui.mounted /\ back.events # <<>>
    /\ back' = [back EXCEPT !.events = Tail(@)]
    /\ UNCHANGED calls
    /\ ui' = [ui EXCEPT !.lost = UnderWay', !.moved = UnderWay']

\* The listener of "chat:stream", which takes each event for one of its own question.
HandleChunk ==
    /\ ui.mounted /\ back.events # <<>>
    /\ back' = [back EXCEPT !.events = Tail(@)]
    /\ LET chunk == Head(back.events)
       IN  IF chunk.done
           THEN /\ calls' = calls \cup {Listing} \cup
                            (IF ui.active = NoConv THEN {} ELSE {Loading(ui.active)})
                /\ ui' = [ui EXCEPT !.streaming = FALSE, !.content = {},
                                    !.lost = UnderWay', !.moved = @ \cap UnderWay',
                                    !.hasty = @ \/ CallsOf({"messages"}) # {}]
           ELSE /\ ui' = [ui EXCEPT !.content = @ \cup {[conv |-> chunk.conv, nth |-> chunk.nth]}]
                /\ UNCHANGED calls

\* What is offered where: the activity bar, the list of conversations, the head and the
\* field, which is only there with a conversation.
ActivityBar == (More /\ Leave) \/ Enter
Sidebar ==
    \E conv \in Convs :
        \/ HandleSelectConv(conv) \/ HandleRename(conv)
        \/ More /\ (HandleNewConv(conv) \/ HandleDeleteConv(conv))
Header == HandleSaveSystemPrompt \/ ClearShown
Input == HandleSend \/ HandleStop

\* A stream comes to its end and the page hears of it.
Answer ==
    \/ \E c \in calls : SendMessage(c)
    \/ \E s \in back.streams : StreamEnds(s)
    \/ HandleChunk

Next ==
    \/ /\ Free
       /\ \/ ActivityBar \/ Sidebar \/ Header \/ Input
          \/ \E c \in calls :
                \/ AnswerListing(c) \/ AnswerMessages(c) \/ AnswerCreate(c) \/ ShowNew(c)
                \/ AnswerDelete(c)
          \/ \E s \in back.streams : StreamToken(s)
    \/ EventLost
    \/ Answer

-----------------------------------------------------------------------------
TypeOK == ui.messages \cup back.msgs \subseteq [conv : Convs, nth : 1..MaxSends, role : {"user", "assistant"}]

\* A question on its way, a stream and events nobody has heard each keep the spinner,
\* and with it the stop button, on the page.  Only leaving the page takes it from them,
\* and the last event of a question so lost takes it from the next.  At most one stream
\* is not told to end, and before the page is left there is no second one at all.
WorkOwned ==
    /\ ~ui.streaming => UnderWay \subseteq ui.lost
    /\ \A s, t \in back.streams : s.on /\ t.on => s = t
    /\ ~ui.left => ui.lost = {} /\ Cardinality(back.streams) <= 1

\* The tokens shown are of the conversation on the page, but for those of questions that
\* were under way when it came on or the page was left; and with nothing under way its
\* messages are those that are stored.
ShownBelongs ==
    ui.active # NoConv =>
        /\ \A q \in ui.content : q.conv = ui.active \/ q.nth \in ui.moved
        /\ (~ui.hasty /\ ~ui.cleared /\ calls = {} /\ UnderWay = {})
           => ui.messages = {m \in back.msgs : m.conv = ui.active}

\* Messages go with their conversation, if no question of its was under way.
UntouchedKept == ~ui.orphaned => \A m \in back.msgs : m.conv \in back.convs

Busy == ui.streaming
=============================================================================
