----------------------------- MODULE MusicPlayer -----------------------------
(***************************************************************************)
(* The player of entities/music/model/musicStore.ts: one audio element and *)
(* playTrack, which awaits an address, the start of the sound and the      *)
(* lyrics in turn while another playTrack may do the same.  Lyrics are     *)
(* told apart by the track they were asked for.                            *)
(***************************************************************************)
EXTENDS PageCalls, Functions

CONSTANTS Tracks, NoTrack, MaxHistoryLen    \* the code's MAX_HISTORY

VARIABLES ui, back  \* back: whether the audio element sounds

vars == <<ui, calls, back>>

Modes == <<"sequential", "loop", "shuffle">>
Play(step, t) == [op |-> "play", step |-> step, track |-> t]

\* hasty (history): a track was asked for while another was on its way.
Init ==
    /\ ui = [track |-> NoTrack, playing |-> FALSE, lyrics |-> NoTrack, playlist |-> <<>>,
             mode |-> 1, history |-> <<>>, volume |-> 1, muted |-> FALSE, hasty |-> FALSE]
    /\ calls = {} /\ back = FALSE

\* playTrack up to the question where the track can be had.
PlayTrack(t) ==
    /\ Ask(Play("url", t))
    /\ ui' = [ui EXCEPT !.hasty = @ \/ calls # {}]
    /\ UNCHANGED back

\* pause() and a new source reject the promises of play() still pending.
Rejected == {IF c.step = "sound" THEN Play("lyrics", c.track) ELSE c : c \in calls}
Awaiting == \E c \in calls : c.step = "sound"

\* Mutant: the lyrics stay until the new ones come.
HaveURLKeepsLyrics(c) ==
    /\ c.step = "url" /\ c \in calls
    /\ calls' = (Rejected \ {c}) \cup {Play("sound", c.track)}
    /\ ui' = [ui EXCEPT !.track = c.track, !.playing = @ /\ ~Awaiting,
                        !.history = <<c.track>> \o Without(@, {c.track})]
    /\ back' = FALSE

\* An address, of the cache or online: the sound before stops, the track becomes
\* the current one and heads the history.
HaveURL(c) ==
    /\ c.step = "url" /\ c \in calls
    /\ calls' = (Rejected \ {c}) \cup {Play("sound", c.track)}
    /\ ui' = [ui EXCEPT !.track = c.track, !.lyrics = NoTrack, !.playing = @ /\ ~Awaiting,
                        !.history = LET l == <<c.track>> \o Without(@, {c.track})
                                    IN  SubSeq(l, 1, IF Len(l) < MaxHistoryLen THEN Len(l) ELSE MaxHistoryLen)]
    /\ back' = FALSE

\* No address, or an exception: a notice and nothing else.
NoURL(c) ==
    /\ c.step = "url" /\ Answered(c)
    /\ UNCHANGED <<ui, back>>

\* audio.play() settles: it sounds, or it failed.
SoundStarts(c) ==
    /\ c.step = "sound" /\ Continue(c, Play("lyrics", c.track))
    /\ \E ok \in BOOLEAN : ui' = [ui EXCEPT !.playing = ok] /\ back' = ok

HaveLyrics(c) ==
    /\ c.step = "lyrics" /\ Answered(c)
    /\ \E l \in {c.track, ui.lyrics} : ui' = [ui EXCEPT !.lyrics = l]
    /\ UNCHANGED back

TogglePlay ==
    /\ ui.track # NoTrack
    /\ IF ui.playing
       THEN ui' = [ui EXCEPT !.playing = FALSE] /\ back' = FALSE /\ calls' = Rejected
       ELSE /\ \E ok \in BOOLEAN : ui' = [ui EXCEPT !.playing = ok] /\ back' = ok
            /\ UNCHANGED calls

\* playNext and playPrev of the store: a neighbour in the list, round about, or
\* any; from a track that is not in the list, its first and its last.
Index == FirstOf({i \in DOMAIN ui.playlist : ui.playlist[i] = ui.track})
Step(i) ==
    /\ ui.track # NoTrack /\ ui.playlist # <<>>
    /\ IF Modes[ui.mode] = "shuffle" THEN \E j \in DOMAIN ui.playlist : PlayTrack(ui.playlist[j])
       ELSE PlayTrack(ui.playlist[i])
PlayNext == Step(IF Index >= Len(ui.playlist) THEN 1 ELSE Index + 1)
PlayPrev == Step(IF Index <= 1 THEN Len(ui.playlist) ELSE Index - 1)

\* The element's events; with loop it starts again by itself.
AudioEnded ==
    /\ back
    /\ IF Modes[ui.mode] = "loop" THEN UNCHANGED vars
       ELSE IF ui.playlist = <<>> THEN back' = FALSE /\ UNCHANGED <<ui, calls>>
       ELSE /\ LET i == IF Index >= Len(ui.playlist) THEN 1 ELSE Index + 1
               IN  \E j \in DOMAIN ui.playlist :
                     /\ Modes[ui.mode] = "sequential" => j = i
                     /\ Ask(Play("url", ui.playlist[j]))
            /\ ui' = [ui EXCEPT !.hasty = @ \/ calls # {}]
            /\ back' = FALSE
AudioError ==
    /\ back /\ back' = FALSE
    /\ ui' = [ui EXCEPT !.playing = FALSE]
    /\ UNCHANGED calls

SetPlaylist(l) == ui' = [ui EXCEPT !.playlist = l] /\ UNCHANGED <<calls, back>>

CyclePlayMode ==
    /\ ui' = [ui EXCEPT !.mode = (@ % Len(Modes)) + 1]
    /\ UNCHANGED <<calls, back>>

\* Volume 0 mutes; a mute keeps the volume.
SetVolume(v) == ui' = [ui EXCEPT !.volume = v, !.muted = v = 0] /\ UNCHANGED <<calls, back>>
ToggleMute == ui' = [ui EXCEPT !.muted = ~@] /\ UNCHANGED <<calls, back>>

Answer == \E c \in calls : HaveURL(c) \/ NoURL(c) \/ SoundStarts(c) \/ HaveLyrics(c)

\* The buttons of the tab bar, its keys, and the lists of tracks of its search and
\* of the music page, which become the playlist.
Buttons ==
    \/ PlayPrev \/ TogglePlay \/ PlayNext \/ CyclePlayMode \/ ToggleMute
    \/ \E v \in {0, 1} : SetVolume(v)
Keys == PlayNext \/ PlayPrev \/ \E v \in {0, 1} : SetVolume(v)
Lists ==
    \/ \E t \in Tracks : PlayTrack(t) \/ SetPlaylist(<<t>>)
    \/ \E l \in Bijection(1 .. Cardinality(Tracks), Tracks) : SetPlaylist(l)

Next ==
    \/ Buttons \/ Keys \/ Lists \/ AudioEnded \/ AudioError
    \/ Answer

-----------------------------------------------------------------------------
TypeOK ==
    /\ ui.track \in Tracks \cup {NoTrack} /\ ui.mode \in DOMAIN Modes
    /\ Len(ui.history) <= MaxHistoryLen

\* The history starts with the track that is on and names none twice; the lyrics
\* are that track's unless it was asked for while another was on its way.
ShownBelongs ==
    /\ ui.track # NoTrack => Head(ui.history) = ui.track
    /\ \A i, j \in DOMAIN ui.history : ui.history[i] = ui.history[j] => i = j
    /\ ~ui.hasty => ui.lyrics \in {ui.track, NoTrack}

\* What sounds is shown as playing, however the answers and events interleave.
SoundIsShown == back => ui.playing
=============================================================================
