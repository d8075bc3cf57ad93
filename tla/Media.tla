------------------------------- MODULE Media -------------------------------
(***************************************************************************)
(* The tasks of src/applications/mpeg, audio_video, audio_video_rt and     *)
(* fixe_base_test_16: pipelines of decoders and of colour distances.  What *)
(* they compute on a block or a sample is left out, the number, the order  *)
(* and the size of their messages are kept.                                *)
(***************************************************************************)
EXTENDS Tasks

MPEG_FRAMES == 20

mpeg_start == Repeat(MPEG_FRAMES, Send("ivlc", Words(128)))
mpeg_ivlc == Repeat(MPEG_FRAMES, Receive("start", Words(128)) \o Send("iquant", Words(64)))
mpeg_iquant == Repeat(MPEG_FRAMES, Receive("ivlc", Words(64)) \o Send("idct", Words(64)))
mpeg_idct == Repeat(MPEG_FRAMES, Receive("iquant", Words(64)) \o Send("print", Words(64)))
mpeg_print == Repeat(MPEG_FRAMES, Receive("idct", Words(64)))

mpeg ==
  [start |-> mpeg_start, ivlc |-> mpeg_ivlc, iquant |-> mpeg_iquant, idct |-> mpeg_idct, print |-> mpeg_print]

COMPRESSED_SAMPLES == 16
FRAMES == 20

\* The samples leave as COMPRESSED_SAMPLES bytes of an array of as many words.
audio_video_split == Repeat(FRAMES, Send("adpcm_dec", COMPRESSED_SAMPLES) \o Send("ivlc", Words(128)))
audio_video_adpcm_dec ==
  Repeat(FRAMES, Receive("split", Words(COMPRESSED_SAMPLES)) \o Send("FIR", Words(2 * COMPRESSED_SAMPLES)))
audio_video_FIR ==
  Repeat(FRAMES, Receive("adpcm_dec", Words(2 * COMPRESSED_SAMPLES)) \o Send("join", Words(2 * COMPRESSED_SAMPLES)))
audio_video_ivlc == Repeat(FRAMES, Receive("split", Words(128)) \o Send("iquant", Words(64)))
audio_video_iquant == Repeat(FRAMES, Receive("ivlc", Words(64)) \o Send("idct", Words(64)))
audio_video_idct == Repeat(FRAMES, Receive("iquant", Words(64)) \o Send("join", Words(64)))
audio_video_join == Repeat(FRAMES, Receive("FIR", Words(64)) \o Receive("idct", Words(64)))

audio_video ==
  [split |-> audio_video_split, adpcm_dec |-> audio_video_adpcm_dec, FIR |-> audio_video_FIR,
   ivlc |-> audio_video_ivlc, iquant |-> audio_video_iquant, idct |-> audio_video_idct,
   join |-> audio_video_join]

\* The same tasks, those that compute ask for a real-time schedule before they start.
audio_video_rt_split == audio_video_split
audio_video_rt_adpcm_dec == RealTime \o audio_video_adpcm_dec
audio_video_rt_FIR == RealTime \o audio_video_FIR
audio_video_rt_ivlc == RealTime \o audio_video_ivlc
audio_video_rt_iquant == RealTime \o audio_video_iquant
audio_video_rt_idct == RealTime \o audio_video_idct
audio_video_rt_join == audio_video_join

audio_video_rt ==
  [split |-> audio_video_rt_split, adpcm_dec |-> audio_video_rt_adpcm_dec, FIR |-> audio_video_rt_FIR,
   ivlc |-> audio_video_rt_ivlc, iquant |-> audio_video_rt_iquant, idct |-> audio_video_rt_idct,
   join |-> audio_video_rt_join]

size == 16

fixe_base_P1 == ToEach(<<"RMS", "WRMS", "GFC", "XYZ1">>, Words(size))
fixe_base_P2 == ToEach(<<"RMS", "WRMS", "GFC", "XYZ2">>, Words(size))
fixe_base_RMS == FromEach(<<"P1", "P2">>, Words(size))
fixe_base_WRMS == FromEach(<<"P1", "P2">>, Words(size))
fixe_base_GFC == FromEach(<<"P1", "P2">>, Words(size))
fixe_base_XYZ1 == Receive("P1", Words(size)) \o ToEach(<<"LAB1", "DXYZ", "RGB1">>, Words(3))
fixe_base_XYZ2 == Receive("P2", Words(size)) \o ToEach(<<"LAB2", "DXYZ", "RGB2">>, Words(3))
fixe_base_LAB1 == Receive("XYZ1", Words(3)) \o Send("DLAB", Words(3))
fixe_base_LAB2 == Receive("XYZ2", Words(3)) \o Send("DLAB", Words(3))
fixe_base_RGB1 == Receive("XYZ1", Words(3)) \o Send("DRGB", Words(3))
fixe_base_RGB2 == Receive("XYZ2", Words(3)) \o Send("DRGB", Words(3))
fixe_base_DLAB == FromEach(<<"LAB1", "LAB2">>, Words(3))
fixe_base_DRGB == FromEach(<<"RGB1", "RGB2">>, Words(3))
fixe_base_DXYZ == FromEach(<<"XYZ1", "XYZ2">>, Words(3))

fixe_base ==
  [P1 |-> fixe_base_P1, P2 |-> fixe_base_P2, RMS |-> fixe_base_RMS, WRMS |-> fixe_base_WRMS,
   GFC |-> fixe_base_GFC, XYZ1 |-> fixe_base_XYZ1, XYZ2 |-> fixe_base_XYZ2, LAB1 |-> fixe_base_LAB1,
   LAB2 |-> fixe_base_LAB2, RGB1 |-> fixe_base_RGB1, RGB2 |-> fixe_base_RGB2, DLAB |-> fixe_base_DLAB,
   DRGB |-> fixe_base_DRGB, DXYZ |-> fixe_base_DXYZ]
=============================================================================
