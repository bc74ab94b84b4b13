------------------------------ MODULE AtvvAudio ------------------------------
(***************************************************************************)
(* The audio of an Android TV remote on its way from the notifications of    *)
(* the manager to the satellite (manager.py 1044-1152): AssistSatellite with *)
(* the decoder that makes its packets.                                       *)
(*                                                                         *)
(* Each ADPCM packet only makes sense to a decoder in the state that the     *)
(* encoder had before it.  The start of a stream puts both into the same     *)
(* state, a synchronisation puts the decoder into the encoder's.             *)
(***************************************************************************)
EXTENDS AssistSatellite

VARIABLES
  decoder,    \* _atvv_decoder: "none", or in the state of the encoder, "right", or not
  limit,      \* _atvv_frame_bytes is known
  missed,     \* history: the open recording lacks a packet sent since its first one
  spliced,    \* history: it went on after that, or with a wrong decoder
  disturbed   \* history: the stream was not left alone: a search, a second start, a
              \* synchronisation out of range or an overlong packet came

audio == <<decoder, limit>>
allVars == <<vars, audio, missed, spliced, disturbed>>

AtvvInit ==
  /\ Init
  /\ decoder = "none" /\ limit = FALSE
  /\ missed = FALSE /\ spliced = FALSE /\ disturbed = FALSE

\* The history of the recording in the buffer; lost tells that a packet is dropped.
Records(lost) ==
  /\ missed' = (buffer'.packets > 0 /\ (missed \/ lost))
  /\ spliced' = (/\ buffer'.packets > 0
                 /\ \/ spliced
                    \/ buffer'.packets > buffer.packets /\ (missed \/ decoder = "wrong"))

-----------------------------------------------------------------------------
(* The control characteristic.                                             *)

Notified == loaded /\ transport = "pcm"

\* The capabilities name the size of a frame, or none.
Capabilities ==
  /\ Notified
  /\ limit' \in BOOLEAN
  /\ UNCHANGED <<vars, decoder, disturbed>>

\* A search that is not ignored clears the decoder before the microphone opens.
Search ==
  /\ Notified
  /\ decoder' = "none" /\ disturbed' = (disturbed \/ stream)
  /\ UNCHANGED <<vars, limit>>

\* A stream of the codec that is supported gets a new decoder.
AudioStarts ==
  /\ Notified
  /\ \/ StreamStarts /\ disturbed' = FALSE
     \/ stream /\ disturbed' = TRUE /\ UNCHANGED vars
  /\ decoder' \in {"right", "none"}
  /\ UNCHANGED limit

\* One with a step index out of range takes the decoder away; one of another codec
\* is ignored.
AudioSync ==
  /\ Notified /\ stream
  /\ \/ decoder' = "right" /\ UNCHANGED disturbed
     \/ decoder' = "none" /\ disturbed' = TRUE
     \/ UNCHANGED <<decoder, disturbed>>
  /\ UNCHANGED <<vars, limit>>

\* The audio stop and the loss of the link.
AudioStops ==
  /\ Notified
  /\ StreamEnds /\ ~stream'
  /\ decoder' = "none"
  /\ UNCHANGED <<limit, disturbed>>

-----------------------------------------------------------------------------
(* The audio characteristic.                                               *)

\* Without a decoder a packet is dropped; so is one that is longer than a frame.
Drops ==
  /\ Notified /\ stream
  /\ \/ decoder = "none" /\ UNCHANGED <<decoder, disturbed>>
     \/ decoder # "none" /\ limit /\ decoder' = "wrong" /\ disturbed' = TRUE
  /\ UNCHANGED <<vars, limit>>

\* Mutant: the satellite is not told.
FailsSilently == UNCHANGED vars

\* None is published.
FailsAloud == StreamEnds /\ stream' /\ UNCHANGED held

\* A packet that cannot be decoded.
Undecodable ==
  /\ Notified /\ stream /\ decoder # "none"
  /\ decoder' = "none"
  /\ FailsAloud
  /\ UNCHANGED <<limit, disturbed>>

Decodable ==
  /\ Notified /\ decoder # "none"
  /\ Packet
  /\ UNCHANGED <<audio, disturbed>>

-----------------------------------------------------------------------------
\* The rest of the satellite, and the audio of the other remotes.
Ends(r) == (Decoded(r) \/ RunFails(r) \/ RunEnds(r)) /\ UNCHANGED <<audio, disturbed>>
TimesOut == Timeout /\ UNCHANGED <<audio, disturbed>>
Plays == ResponsePlayed /\ UNCHANGED <<audio, disturbed>>

Others ==
  /\ \/ Press \/ Release \/ Remove
     \/ transport = "opus" /\ (StreamStarts \/ OpusEnds \/ StreamEnds \/ Packet)
  /\ UNCHANGED <<audio, disturbed>>

AtvvNext ==
  \/ /\ \/ Capabilities \/ Search \/ AudioStarts \/ AudioSync \/ AudioStops
        \/ Decodable \/ Others \/ TimesOut \/ Plays
        \/ \E r \in Runs : Ends(r)
     /\ Records(FALSE)
  \/ (Drops \/ Undecodable) /\ Records(TRUE)

\* Timers run out and runs end; nobody has to press, release or speak.
AtvvSpec ==
  /\ AtvvInit /\ [][AtvvNext]_allVars
  /\ WF_allVars(TimesOut /\ Records(FALSE)) /\ WF_allVars(Plays /\ Records(FALSE))
  /\ \A r \in Runs : WF_allVars(Ends(r) /\ Records(FALSE))

-----------------------------------------------------------------------------
\* What a recording of PCM holds is one uninterrupted piece of one stream, decoded in
\* step with the encoder, unless something came in between that the code does not end
\* the recording for: a search, a second start, a synchronisation out of range or an
\* overlong packet (manager.py 1067-1144).
SoundIsWhole == transport = "pcm" /\ spliced => disturbed
=============================================================================
