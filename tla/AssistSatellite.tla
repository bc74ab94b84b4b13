--------------------------- MODULE AssistSatellite ---------------------------
(***************************************************************************)
(* The push-to-talk Assist satellite (assist_satellite.py): the Search key *)
(* and the voice packets of one remote become recordings, and every        *)
(* recording with audio becomes one pipeline run.                          *)
(*                                                                         *)
(* A recording starts with the key or with a first packet, and ends with   *)
(* the key, the end of the stream, a packet that does not fit, or the 15 s *)
(* timeout; these come in any order, and a run takes as long as it takes.  *)
(* AtvvAudio has the specification.                                        *)
(***************************************************************************)
EXTENDS Naturals, FiniteSets

CONSTANTS
  MaxPackets,   \* the limit of a voice buffer
  Runs,         \* slots for _async_process_recording
  NoRun,        \* None in _processing_task
  MaxResponses  \* bound of the model: responses that are played at once

ASSUME LimitAssumption == MaxPackets \in Nat \ {0}
ASSUME RunAssumption == NoRun \notin Runs
ASSUME ResponseAssumption == MaxResponses \in Nat

VARIABLES
  transport,   \* what the remote sends: "opus" (HID) or "pcm" (ATVV)
  held,        \* the Search key is down
  stream,      \* the remote sends audio
  buffer,      \* _voice_buffer
  timeout,     \* _voice_timeout is armed
  pc,          \* position of each run
  processing,  \* _processing_task
  playing,     \* how many _async_play_response tasks wait for the media player
  state,       \* the state of the satellite entity
  loaded,      \* the entity is added to Home Assistant
  answered,    \* history: a run was made for the latest press
  late,        \* history: an Opus packet came since, with the key up
  short        \* history: a run ended since, with the stream still going on

remote == <<held, stream>>
recording == <<buffer, timeout>>
assist == <<pc, processing, playing>>
history == <<answered, late, short>>
entity == <<transport, loaded>>
vars == <<remote, recording, assist, state, entity, history>>

None == [kind |-> "none", packets |-> 0]
Empty(kind) == [kind |-> kind, packets |-> 0]

Alive == {r \in Runs : pc[r] # "idle"}

Init ==
  /\ transport \in {"opus", "pcm"}
  /\ held = FALSE /\ stream = FALSE
  /\ buffer = None /\ timeout = FALSE
  /\ pc = [r \in Runs |-> "idle"] /\ processing = NoRun
  /\ playing = 0
  /\ state = "idle" /\ loaded = TRUE
  /\ answered = "no" /\ late = FALSE /\ short = FALSE

-----------------------------------------------------------------------------
(* _start_recording and _finish_recording.                                 *)

MayStart == buffer = None /\ processing \notin Alive

StartRecording(kind) ==
  IF MayStart
  THEN buffer' = Empty(kind) /\ timeout' = TRUE /\ state' = "listening"
  ELSE UNCHANGED <<recording, state>>

\* Mutant: the timeout outlives its recording.
TimeoutKept == timeout

TimeoutCancelled == FALSE

\* Only recorded audio makes a run; the end of nothing still sets idle.
FinishRecording ==
  /\ timeout' = TimeoutCancelled /\ buffer' = None
  /\ IF buffer.packets > 0
     THEN \E r \in Runs \ Alive :
            /\ pc' = [pc EXCEPT ![r] = IF buffer.kind = "opus" THEN "decode"
                                                               ELSE "pipeline"]
            /\ processing' = r
            /\ answered' = CASE answered = "no" -> "once" [] OTHER -> "again"
            /\ UNCHANGED <<playing, state>>
     ELSE state' = "idle" /\ UNCHANGED <<assist, answered>>

-----------------------------------------------------------------------------
(* The key and the audio.                                                  *)

Press ==
  /\ loaded /\ ~held
  /\ held' = TRUE
  /\ StartRecording("opus")
  /\ answered' = "no" /\ late' = FALSE /\ short' = FALSE
  /\ UNCHANGED <<stream, assist, entity>>

\* Mutant: the release is not looked at while audio is recorded.
ReleaseIgnored == UNCHANGED <<recording, assist, state, answered>>

EndByRelease == FinishRecording

\* An Opus stream is stopped because of the release, at once or later.
Release ==
  /\ loaded /\ held
  /\ held' = FALSE
  /\ \/ UNCHANGED stream
     \/ transport = "opus" /\ stream' = FALSE
  /\ EndByRelease
  /\ UNCHANGED <<entity, late, short>>

\* An Opus stream starts while the key is held, an ATVV stream after a press.
StreamStarts ==
  /\ loaded /\ ~stream /\ answered = "no"
  /\ held \/ transport = "pcm"
  /\ stream' = TRUE
  /\ UNCHANGED <<held, recording, assist, state, entity, history>>

\* The end of an Opus stream is silent.
OpusEnds ==
  /\ transport = "opus" /\ stream
  /\ stream' = FALSE
  /\ UNCHANGED <<held, recording, assist, state, entity, history>>

\* The packet None: the audio stops, cannot be decoded, or the link is lost.
StreamEnds ==
  /\ loaded /\ stream
  /\ \/ transport = "pcm" /\ stream' \in BOOLEAN /\ UNCHANGED held
     \/ stream' = FALSE /\ held' = FALSE
  /\ FinishRecording
  /\ UNCHANGED <<entity, late, short>>

\* A first packet starts a recording, if one may start.
FirstPacket ==
  /\ buffer = None
  /\ IF MayStart
     THEN /\ buffer' = [kind |-> transport, packets |-> 1]
          /\ timeout' = TRUE /\ state' = "listening"
     ELSE UNCHANGED <<recording, state>>
  /\ UNCHANGED <<assist, answered>>

\* Mutant: the limit of a buffer is not enforced.
FitsAlways == buffer.kind = transport

\* The buffer is one of this transport and not full.
Fits == buffer.kind = transport /\ buffer.packets < MaxPackets

NextPacket ==
  /\ buffer # None
  /\ \/ /\ Fits
        /\ buffer' = [buffer EXCEPT !.packets = @ + 1]
        /\ UNCHANGED <<timeout, assist, state, answered>>
     \/ ~Fits /\ FinishRecording

Packet ==
  /\ loaded /\ stream
  /\ FirstPacket \/ NextPacket
  /\ late' = (late \/ (transport = "opus" /\ ~held))
  /\ UNCHANGED <<remote, entity, short>>

Timeout ==
  /\ timeout
  /\ FinishRecording
  /\ UNCHANGED <<remote, entity, late, short>>

-----------------------------------------------------------------------------
(* _async_process_recording and the response.                              *)

Decoded(r) ==
  /\ pc[r] = "decode"
  /\ pc' = [pc EXCEPT ![r] = "pipeline"]
  /\ UNCHANGED <<remote, recording, processing, playing, state, entity, history>>

RunFails(r) ==
  /\ r \in Alive
  /\ pc' = [pc EXCEPT ![r] = "idle"] /\ processing' = NoRun
  /\ state' = "idle"
  /\ short' = (short \/ stream)
  /\ UNCHANGED <<remote, recording, playing, entity, answered, late>>

\* The pipeline ends with the intent, or with a response that is being played,
\* one of an earlier run perhaps still too.
RunEnds(r) ==
  /\ pc[r] = "pipeline"
  /\ pc' = [pc EXCEPT ![r] = "idle"] /\ processing' = NoRun
  /\ \/ state' = "idle" /\ UNCHANGED playing
     \/ /\ playing < MaxResponses
        /\ playing' = playing + 1 /\ state' = "responding"
  /\ short' = (short \/ stream)
  /\ UNCHANGED <<remote, recording, entity, answered, late>>

\* Mutant: the end of the playback is not reported.
PlayedSilently == state

\* `finally`: tts_response_finished, also when the player failed.
Played == "idle"

ResponsePlayed ==
  /\ playing > 0
  /\ playing' = playing - 1
  /\ state' = Played
  /\ UNCHANGED <<remote, recording, pc, processing, entity, history>>

RunsCancelled ==
  [r \in Runs |-> IF r = processing THEN "idle" ELSE pc[r]]

\* _cancel_local_tasks, after the listeners were removed.
Remove ==
  /\ loaded
  /\ loaded' = FALSE
  /\ timeout' = FALSE /\ buffer' = None
  /\ pc' = RunsCancelled /\ processing' = NoRun
  /\ UNCHANGED <<remote, playing, state, transport, history>>

-----------------------------------------------------------------------------
\* Every variable keeps to the values its code counterpart can take, and no
\* buffer exceeds its limit.
TypeOK ==
  /\ held \in BOOLEAN /\ stream \in BOOLEAN
  /\ buffer \in [kind : {"none", "opus", "pcm"}, packets : 0 .. MaxPackets]
  /\ timeout \in BOOLEAN
  /\ pc \in [Runs -> {"idle", "decode", "pipeline"}]
  /\ processing \in Runs \cup {NoRun}
  /\ playing \in 0 .. MaxResponses
  /\ state \in {"idle", "listening", "responding"}
  /\ loaded \in BOOLEAN
  /\ transport \in {"opus", "pcm"}
  /\ answered \in {"no", "once", "again"}
  /\ late \in BOOLEAN /\ short \in BOOLEAN

\* Exactly the open recording has a timeout; at most one utterance is decoded or
\* in the pipeline, none is while the next is being recorded, and nothing of
\* either goes on after the entity is removed.
OneAtATime ==
  /\ timeout <=> buffer # None
  /\ Cardinality(Alive) <= 1
  /\ buffer # None => Alive = {}
  /\ ~loaded => buffer = None /\ Alive = {}

\* What is recorded belongs to one press.  A recording of a remote that streams while
\* the key is held ends with it, unless a packet arrives after the key came up; and
\* one press makes at most one run, unless the run is over before the stream of the
\* press is.
RecordingsFollowPress ==
  /\ transport = "opus" /\ buffer # None => held \/ late
  /\ answered = "again" => short

\* The satellite returns to idle.
ReturnsToIdle == state # "idle" ~> state = "idle" \/ ~loaded
=============================================================================
