-------------------------------- MODULE Sdp ---------------------------------
(***************************************************************************)
(* The session descriptions that pass through the connector (sdp.c), and   *)
(* what a leg keeps of them (call_leg_rx_sdp in call.c).                   *)
(*                                                                         *)
(* An SDP is what sofia-sip's parser makes of its text:                    *)
(*   ip      address of the session's c= line, "none" without a usable one *)
(*   port    port of the first RTP audio line                              *)
(*   codecs  the encodings of its rtpmaps, {} without RTP audio            *)
(*   mode    mode of the first media line; "none" when there is no media   *)
(*           line.  A text that does not parse has neither c= line nor     *)
(*           media for the code, so it is such an SDP too.                 *)
(* Payload types are left out: no decision depends on them.                *)
(***************************************************************************)

Mode == {"sendrecv", "sendonly", "recvonly", "inactive"}

\* The codecs sdp_screen_sdp knows, out of those a peer may name.
Supported == {"GSM", "GSM-EFR", "GSM-HR-08", "AMR"}

\* No payload, or an empty rx_sdp.
NoSdp == [ip |-> "none", port |-> 0, codecs |-> {}, mode |-> "empty"]

HasMedia(s) == s.mode \in Mode

\* sdp_get_sdp_mode: sdp_inactive is the zero that also stands for no mode.
sdp_get_sdp_mode(s) == HasMedia(s) /\ s.mode # "inactive"

\* sdp_screen_sdp: one supported codec is enough.
sdp_screen_sdp(s) == s.codecs \cap Supported # {}

\* found_map: a codec the leg accepts; before sdp_create_file had to compose an SDP
\* of its own a SIP leg wants no codec in particular.
FoundMap(leg, s, any_codec) ==
    IF any_codec \/ leg.wanted = "none" THEN s.codecs # {} ELSE leg.wanted \in s.codecs

\* The result of sdp_extract_sdp.
Extracted(leg, s, any_codec) == s.ip # "none" /\ FoundMap(leg, s, any_codec)

\* sdp_extract_sdp: the address is written when it is found, the port only when a
\* codec is found as well.
sdp_extract_sdp(leg, s, any_codec) ==
    [leg EXCEPT !.ip   = IF s.ip # "none" THEN s.ip ELSE @,
                !.port = IF Extracted(leg, s, any_codec) THEN s.port ELSE @]

\* Mutant: call_leg_rx_sdp that flags only the first SDP.
call_leg_rx_sdp_first(leg, s) ==
    IF s \in {NoSdp, leg.rx} THEN leg
    ELSE [leg EXCEPT !.rx = s, !.changed = @ \/ leg.rx = NoSdp]

\* call_leg_rx_sdp: without a new SDP the last one is kept.
call_leg_rx_sdp(leg, s) ==
    IF s \in {NoSdp, leg.rx} THEN leg ELSE [leg EXCEPT !.rx = s, !.changed = TRUE]

\* Mutant: sdp_create_file that forwards the SDP of the other leg with its own mode.
sdp_create_file_as_is(other, mode) == other.rx.mode

\* sdp_create_file, the mode of the SDP it returns: composed from the address of the
\* other leg, or the other leg's SDP with the mode of its media lines replaced.
sdp_create_file(other, mode) ==
    IF other.rx = NoSdp \/ HasMedia(other.rx) THEN mode ELSE "none"

\* sdp_create_file, the codec it makes the leg want: only a composed SDP names one.
WantedCodec(leg, other) == IF other.rx = NoSdp THEN other.codec ELSE leg.wanted
=============================================================================
